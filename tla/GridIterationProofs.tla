-------------------------- MODULE GridIterationProofs --------------------------
(***************************************************************************)
(* Positions of iterators and the loop over a grid, for grids of every     *)
(* dimension and size, any number of iterators and any changes of the      *)
(* active flags: the loop visits every element that stays active, flat and *)
(* tensor indices are two names of one element, and every move of an       *)
(* iterator leaves them in agreement.                                      *)
(***************************************************************************)
EXTENDS GridIteration, TensorProofs

\* Every element has a flag.
FlagsComplete == active_elems \in [AllElems -> BOOLEAN]

\* While the loop runs, it is at an element or past the end, and what it keeps
\* count of are elements; one counted as kept is active.
LoopTypeOK ==
  loop # << >> =>
    /\ loop.flat \in AllElems \cup {PassTheEnd}
    /\ visited \subseteq AllElems
    /\ kept \subseteq ActiveElems

\* A kept element that the loop is past is visited.  LoopVisitsActive says so
\* at the end only, which is not enough to take a step.
KeptBehindVisited ==
  loop # << >> /\ loop.flat # PassTheEnd =>
    \A k \in kept : k < loop.flat => k \in visited

LoopInv ==
  /\ FlagsComplete
  /\ LoopTypeOK
  /\ KeptBehindVisited
  /\ LoopVisitsActive

-----------------------------------------------------------------------------
\* A set of naturals that is not empty has a minimum, and Min is it.
LEMMA MinOfNaturals ==
  ASSUME NEW S \in SUBSET Nat, S # {}
  PROVE  Min(S) \in S /\ \A y \in S : Min(S) <= y
<1> DEFINE Less == OpToRel(<, Nat)
<1>1. \A x, y \in Nat : <<y, x>> \in Less <=> y < x
  BY DEF OpToRel
<1>2. IsWellFoundedOn(Less, Nat)
  BY NatLessThanWellFounded
<1> HIDE DEF Less
<1>3. PICK x \in S : \A y \in S : ~ (<<y, x>> \in Less)
  BY <1>2, WFMin
<1>4. ASSUME NEW y \in S
      PROVE  x <= y
  <2>1. x \in Nat /\ y \in Nat
    OBVIOUS
  <2>2. <<y, x>> \in Less <=> y < x
    BY <1>1, <2>1, Zenon
  <2>3. ~ (y < x)
    BY <1>3, <2>2, Zenon
  <2> QED
    BY <2>1, <2>3
<1> QED
  BY <1>4 DEF Min

\* Elements are numbered from 0, whatever their number is.
LEMMA ElementsAreNaturals == AllElems \subseteq Nat
<1> DEFINE Last == NumAllElems - 1
<1> HIDE DEF Last
<1>1. 0 .. Last \subseteq Nat
  OBVIOUS
<1> QED
  BY <1>1 DEF AllElems, Last

\* The active elements after an index are naturals, so that they have a minimum.
LEMMA ActiveAreElements == ActiveElems \subseteq AllElems /\ ActiveElems \subseteq Nat
  BY ElementsAreNaturals DEF ActiveElems

\* What operator++ skips is not active.
LEMMA NextActiveIsFirst ==
  ASSUME NEW index \in Nat
  PROVE  \/ /\ NextActive(index) = PassTheEnd
            /\ \A k \in ActiveElems : k <= index
         \/ /\ NextActive(index) \in ActiveElems
            /\ NextActive(index) > index
            /\ \A k \in ActiveElems : k > index => NextActive(index) <= k
<1> DEFINE After == {k \in ActiveElems : k > index}
<1>1. After \in SUBSET Nat
  BY ActiveAreElements
<1>2. CASE After = {}
  <2>1. \A k \in ActiveElems : k \in Nat /\ ~ (k > index)
    BY <1>2, ActiveAreElements
  <2>2. \A k \in ActiveElems : k <= index
    BY <2>1
  <2> QED
    BY <1>2, <2>2 DEF NextActive
<1>3. CASE After # {}
  <2>1. Min(After) \in After /\ \A y \in After : Min(After) <= y
    BY <1>1, <1>3, MinOfNaturals
  <2>2. NextActive(index) = Min(After)
    BY <1>3 DEF NextActive
  <2> QED
    BY <2>1, <2>2
<1> QED
  BY <1>2, <1>3

\* A loop begins at the first active element.
LEMMA BeginIsFirst ==
  \/ /\ Begin.flat = PassTheEnd
     /\ ActiveElems = {}
  \/ /\ Begin.flat \in ActiveElems
     /\ \A k \in ActiveElems : Begin.flat <= k
<1>1. \A flat : At(flat).flat = flat
  BY DEF At
<1>2. CASE ActiveElems = {}
  BY <1>1, <1>2 DEF Begin
<1>3. CASE ActiveElems # {}
  <2>1. Min(ActiveElems) \in ActiveElems /\ \A k \in ActiveElems : Min(ActiveElems) <= k
    BY <1>3, ActiveAreElements, MinOfNaturals
  <2> QED
    BY <1>1, <1>3, <2>1 DEF Begin
<1> QED
  BY <1>2, <1>3

-----------------------------------------------------------------------------
\* The loop invariant holds before a loop has started.
LEMMA LoopInvInit == Init => LoopInv
<1> SUFFICES ASSUME Init PROVE LoopInv
  OBVIOUS
<1>1. FlagsComplete
  BY DEF Init, FlagsComplete
<1>2. LoopTypeOK /\ KeptBehindVisited /\ LoopVisitsActive
  BY DEF Init, LoopTypeOK, KeptBehindVisited, LoopVisitsActive
<1> QED
  BY <1>1, <1>2 DEF LoopInv

\* Nothing changes but the flags and what is kept: the elements are the same,
\* and of the kept ones those whose flag goes are no longer counted.
LEMMA LoopInvFlags ==
  ASSUME LoopInv, size' = size, loop' = loop, visited' = visited,
         active_elems' \in [AllElems -> BOOLEAN],
         kept' \subseteq kept,
         \A k \in kept' : active_elems'[k]
  PROVE  LoopInv'
<1>1. AllElems' = AllElems
  BY DEF AllElems, NumAllElems
<1>2. FlagsComplete'
  BY <1>1 DEF FlagsComplete
<1>3. LoopTypeOK'
  <2> SUFFICES ASSUME loop # << >>
               PROVE  /\ loop.flat \in AllElems \cup {PassTheEnd}
                      /\ visited \subseteq AllElems
                      /\ kept' \subseteq ActiveElems'
    BY <1>1 DEF LoopTypeOK
  <2>1. kept \subseteq AllElems
    BY ActiveAreElements DEF LoopInv, LoopTypeOK
  <2> QED
    BY <1>1, <2>1 DEF LoopInv, LoopTypeOK, ActiveElems
<1>4. KeptBehindVisited' /\ LoopVisitsActive'
  BY DEF LoopInv, KeptBehindVisited, LoopVisitsActive
<1> QED
  BY <1>2, <1>3, <1>4 DEF LoopInv

\* The round of the loop: the element it is at is visited, and what operator++
\* skips is not active, hence not kept.
LEMMA LoopInvRound == LoopInv /\ LoopStep => LoopInv'
<1> SUFFICES ASSUME LoopInv, LoopStep PROVE LoopInv'
  OBVIOUS
<1> USE DEF LoopInv
<1> DEFINE here == loop.flat
           next == NextActive(here)
<1>1. /\ here \in AllElems
      /\ here \in Nat
      /\ visited' = visited \cup {here}
      /\ UNCHANGED <<size, active_elems, kept>>
  BY ElementsAreNaturals DEF LoopStep, LoopTypeOK, grid_vars
<1>2. loop'.flat = next
  <2>1. loop' \in Increment(loop) /\ here # Invalid
    BY <1>1 DEF LoopStep, Invalid
  <2>2. loop' = At(next)
    BY <2>1 DEF Increment
  <2> QED
    BY <2>2 DEF At
<1>3. AllElems' = AllElems /\ ActiveElems' = ActiveElems
  BY <1>1 DEF AllElems, NumAllElems, ActiveElems
<1>4. /\ kept \subseteq ActiveElems /\ kept \subseteq Nat
      /\ visited \subseteq AllElems /\ visited \subseteq Nat
  BY ActiveAreElements, ElementsAreNaturals DEF LoopStep, LoopTypeOK
<1>5. (\A k \in visited : k < here) /\ (\A k \in kept : k < here => k \in visited)
  BY DEF LoopStep, LoopVisitsActive, KeptBehindVisited
<1>6. \A k \in kept : k <= here => k \in visited'
  BY <1>1, <1>4, <1>5
<1>7. FlagsComplete'
  BY <1>1, <1>3 DEF FlagsComplete
<1> HIDE DEF here, next
<1>8. CASE next = PassTheEnd /\ \A k \in ActiveElems : k <= here
  <2>1. kept \subseteq visited'
    BY <1>4, <1>6, <1>8
  <2> QED
    BY <1>1, <1>2, <1>3, <1>4, <1>7, <1>8, <2>1 DEF LoopTypeOK, KeptBehindVisited, LoopVisitsActive
<1>9. CASE next \in ActiveElems /\ next > here /\ \A k \in ActiveElems : k > here => next <= k
  <2>1. next \in Nat /\ next \in AllElems /\ next # PassTheEnd
    BY <1>9, ActiveAreElements DEF PassTheEnd
  <2>2. \A k \in visited' : k < next
    BY <1>1, <1>4, <1>5, <1>9, <2>1
  <2>3. \A k \in kept : k < next => k \in visited'
    <3> SUFFICES ASSUME NEW k \in kept, k < next
                 PROVE  k <= here
      BY <1>6
    <3>1. k \in ActiveElems /\ k \in Nat
      BY <1>4
    <3> QED
      BY <1>1, <1>9, <2>1, <3>1
  <2> QED
    BY <1>1, <1>2, <1>3, <1>4, <1>7, <2>1, <2>2, <2>3
       DEF LoopTypeOK, KeptBehindVisited, LoopVisitsActive
<1> QED
  BY <1>1, <1>8, <1>9, NextActiveIsFirst DEF next

\* A loop begins with nothing visited and no active element behind it.
LEMMA LoopInvBegin == LoopInv /\ LoopBegin => LoopInv'
<1> SUFFICES ASSUME LoopInv, LoopBegin PROVE LoopInv'
  OBVIOUS
<1>1. /\ loop' = Begin /\ visited' = {} /\ kept' = ActiveElems
      /\ UNCHANGED <<size, active_elems>>
  BY DEF LoopBegin, grid_vars
<1>2. AllElems' = AllElems /\ ActiveElems' = ActiveElems
  BY <1>1 DEF AllElems, NumAllElems, ActiveElems
<1>3. FlagsComplete'
  BY <1>1, <1>2 DEF LoopInv, FlagsComplete
<1>4. CASE Begin.flat = PassTheEnd /\ ActiveElems = {}
  BY <1>1, <1>2, <1>3, <1>4 DEF LoopInv, LoopTypeOK, KeptBehindVisited, LoopVisitsActive
<1>5. CASE Begin.flat \in ActiveElems /\ \A k \in ActiveElems : Begin.flat <= k
  <2> DEFINE first == Begin.flat
  <2>0. first \in ActiveElems /\ \A k \in ActiveElems : first <= k
    BY <1>5
  <2> HIDE DEF first
  <2>1. first \in AllElems /\ first # PassTheEnd
    BY <2>0, ActiveAreElements DEF PassTheEnd
  <2>2. \A k \in ActiveElems : ~ (k < first)
    BY <2>0, ActiveAreElements
  <2> USE DEF first
  <2> QED
    BY <1>1, <1>2, <1>3, <2>1, <2>2 DEF LoopInv, LoopTypeOK, KeptBehindVisited, LoopVisitsActive
<1> QED
  BY <1>4, <1>5, BeginIsFirst

\* Other clients do not touch the loop; those that touch the flags change what
\* is kept with them, and the grid is refined outside loops.
LEMMA LoopInvClients == LoopInv /\ Clients => LoopInv'
<1> SUFFICES ASSUME LoopInv, Clients PROVE LoopInv'
  OBVIOUS
<1>1. active_elems \in [AllElems -> BOOLEAN]
  BY DEF LoopInv, FlagsComplete
<1>2. \A k \in kept : loop # << >> => active_elems[k] /\ k \in AllElems
  BY DEF LoopInv, LoopTypeOK, ActiveElems
<1>3. ASSUME UNCHANGED <<grid_vars, loop_vars>>
      PROVE  LoopInv'
  BY <1>3 DEF grid_vars, loop_vars, LoopInv, FlagsComplete, LoopTypeOK, KeptBehindVisited,
              LoopVisitsActive, ActiveElems, AllElems, NumAllElems
<1>4. ASSUME NEW i \in Iterator, NEW flag \in BOOLEAN, SetActive(i, flag)
      PROVE  LoopInv'
  <2>1. CASE loop = << >>
    <3>1. active_elems' \in [AllElems -> BOOLEAN] /\ size' = size /\ loop' = << >>
      BY <1>1, <1>4, <2>1 DEF SetActive
    <3> QED
      BY <3>1 DEF LoopInv, FlagsComplete, LoopTypeOK, KeptBehindVisited, LoopVisitsActive,
                  AllElems, NumAllElems
  <2>2. CASE loop # << >>
    <3>1. active_elems' \in [AllElems -> BOOLEAN]
      BY <1>1, <1>4 DEF SetActive
    <3>2. kept' \subseteq kept /\ \A k \in kept' : active_elems'[k]
      BY <1>1, <1>2, <1>4, <2>2 DEF SetActive
    <3> QED
      BY <1>4, <3>1, <3>2, LoopInvFlags DEF SetActive
  <2> QED
    BY <2>1, <2>2
<1>5. ASSUME NEW ids \in FlagChanges, SetActiveElements(ids)
      PROVE  LoopInv'
  <2>1. CASE loop = << >>
    <3>1. active_elems' \in [AllElems -> BOOLEAN] /\ size' = size /\ loop' = << >>
      BY <1>5, <2>1 DEF SetActiveElements
    <3> QED
      BY <3>1 DEF LoopInv, FlagsComplete, LoopTypeOK, KeptBehindVisited, LoopVisitsActive,
                  AllElems, NumAllElems
  <2>2. CASE loop # << >>
    <3>1. active_elems' \in [AllElems -> BOOLEAN]
      BY <1>5 DEF SetActiveElements
    <3>2. kept' \subseteq kept /\ \A k \in kept' : active_elems'[k]
      BY <1>2, <1>5, <2>2 DEF SetActiveElements
    <3> QED
      BY <1>5, <3>1, <3>2, LoopInvFlags DEF SetActiveElements
  <2> QED
    BY <2>1, <2>2
<1>6. ASSUME NEW n, Refine(n)
      PROVE  LoopInv'
  <2>1. loop' = << >>
    BY <1>6 DEF Refine, loop_vars
  <2>2. ResizeFlags(size') \in [AllElems' -> BOOLEAN]
    BY <1>1 DEF ResizeFlags, AllElems, NumAllElems
  <2> QED
    BY <1>6, <2>1, <2>2 DEF Refine, LoopInv, FlagsComplete, LoopTypeOK, KeptBehindVisited,
                            LoopVisitsActive
<1> QED
  BY <1>3, <1>4, <1>5, <1>6 DEF Clients, MoveTo, JumpBy, Advance

\* Every step of the loop, of other iterators and of the flags keeps it.
LEMMA LoopInvStep == LoopInv /\ [Next]_vars => LoopInv'
<1> SUFFICES ASSUME LoopInv, [Next]_vars PROVE LoopInv'
  OBVIOUS
<1>1. CASE Clients
  BY <1>1, LoopInvClients
<1>2. CASE LoopBegin
  BY <1>2, LoopInvBegin
<1>3. CASE LoopStep
  BY <1>3, LoopInvRound
<1>4. CASE LoopEnd
  BY <1>4 DEF LoopEnd, grid_vars, LoopInv, FlagsComplete, LoopTypeOK, KeptBehindVisited,
              LoopVisitsActive, AllElems, NumAllElems
<1>5. CASE UNCHANGED vars
  BY <1>5 DEF vars, grid_vars, loop_vars, LoopInv, FlagsComplete, LoopTypeOK,
              KeptBehindVisited, LoopVisitsActive, ActiveElems, AllElems, NumAllElems
<1> QED
  BY <1>1, <1>2, <1>3, <1>4, <1>5 DEF Next

\* The strengthening is an invariant of every behaviour.
THEOREM LoopInvariant == Spec => []LoopInv
<1> QED
  BY LoopInvInit, LoopInvStep, PTL DEF Spec

\* GridForwardIterator's loop runs its body in increasing order, and on every
\* element that stays active, whatever other code does to the flags meanwhile.
THEOREM LoopVisitsEveryActive == Spec => []LoopVisitsActive
<1>1. LoopInv => LoopVisitsActive
  BY DEF LoopInv
<1> QED
  BY <1>1, LoopInvariant, PTL

-----------------------------------------------------------------------------
(* Flat and tensor indices of the grid, from TensorProofs.                   *)

\* The indices of a grid are those of a box of its rank.
LEMMA IndicesOfRank ==
  /\ Rank \in Nat \ {0} /\ Dir = Dirs(Rank)
  /\ \A sizes : FlatSize(sizes) = Indexing(Rank)!FlatSize(sizes)
  /\ \A flat, sizes : FlatToTensor(flat, sizes) = Indexing(Rank)!FlatToTensor(flat, sizes)
  /\ \A tensor, sizes : /\ TensorToFlat(tensor, sizes) = Indexing(Rank)!TensorToFlat(tensor, sizes)
                        /\ InBox(tensor, sizes) <=> Indexing(Rank)!InBox(tensor, sizes)
<1>1. Dir = Indexing(Rank)!Dir
  BY DEF Dir, Indexing!Dir
<1>2. \A sizes : ComputeWeight(sizes) = Indexing(Rank)!ComputeWeight(sizes)
  BY <1>1 DEF ComputeWeight, Indexing!ComputeWeight
<1>3. \A flat, weight : Remainder(flat, weight) = Indexing(Rank)!Remainder(flat, weight)
  BY <1>1 DEF Remainder, Indexing!Remainder
<1>4. \A sizes : FlatSize(sizes) = Indexing(Rank)!FlatSize(sizes)
  BY <1>2 DEF FlatSize, Indexing!FlatSize
<1>5. \A flat, sizes : FlatToTensor(flat, sizes) = Indexing(Rank)!FlatToTensor(flat, sizes)
  BY <1>1, <1>2, <1>3 DEF FlatToTensor, Indexing!FlatToTensor
<1>6. \A tensor, sizes : TensorToFlat(tensor, sizes) = Indexing(Rank)!TensorToFlat(tensor, sizes)
  BY <1>1, <1>2 DEF TensorToFlat, Indexing!TensorToFlat
<1>7. \A tensor, sizes : InBox(tensor, sizes) <=> Indexing(Rank)!InBox(tensor, sizes)
  BY <1>1 DEF InBox, Indexing!InBox
<1> QED BY <1>4, <1>5, <1>6, <1>7, RankAssumption DEF Dir, Dirs

\* A grid has an element at least.
LEMMA GridHasElements ==
  ASSUME NEW sizes \in [Dir -> Nat \ {0}]
  PROVE  FlatSize(sizes) \in Nat \ {0}
BY IndicesOfRank, FlatSizePositive

\* A grid with more elements along each direction has more elements.
LEMMA GridGrows ==
  ASSUME NEW sizes \in [Dir -> Nat \ {0}], NEW larger \in [Dir -> Nat \ {0}],
         \A i \in Dir : sizes[i] <= larger[i]
  PROVE  FlatSize(sizes) <= FlatSize(larger)
BY IndicesOfRank, FlatSizeGrows

\* A tensor index in the grid has a flat index in the range, which leads back to it.
LEMMA TensorAndBack ==
  ASSUME NEW sizes \in [Dir -> Nat \ {0}], NEW tensor \in [Dir -> Int], InBox(tensor, sizes)
  PROVE  /\ TensorToFlat(tensor, sizes) \in 0 .. FlatSize(sizes) - 1
         /\ FlatToTensor(TensorToFlat(tensor, sizes), sizes) = tensor
BY IndicesOfRank, TensorRoundTrip

\* A flat index in the range has a tensor index in the grid, which leads back to it.
LEMMA FlatAndBack ==
  ASSUME NEW sizes \in [Dir -> Nat \ {0}], NEW flat \in 0 .. FlatSize(sizes) - 1
  PROVE  /\ FlatToTensor(flat, sizes) \in [Dir -> Nat]
         /\ InBox(FlatToTensor(flat, sizes), sizes)
         /\ TensorToFlat(FlatToTensor(flat, sizes), sizes) = flat
BY IndicesOfRank, FlatRoundTrip

-----------------------------------------------------------------------------
(* Positions.                                                                *)

\* Types, and what LoopInv says of the loop, which TypeOK alone does not.
PositionInv == TypeOK /\ LoopInv

\* What is drawn from the active elements is an element, or past the end.
LEMMA NextActiveTyped ==
  ASSUME NEW index \in Int
  PROVE  NextActive(index) \in AllElems \cup {PassTheEnd}
<1>1. PICK After : After = {k \in ActiveElems : k > index}
  OBVIOUS
<1>2. After \in SUBSET Nat /\ After \subseteq AllElems
  BY <1>1, ActiveAreElements
<1>3. CASE After = {}
  BY <1>1, <1>3 DEF NextActive
<1>4. CASE After # {}
  <2>1. Min(After) \in After
    BY <1>2, <1>4, MinOfNaturals
  <2> QED BY <1>1, <1>2, <1>4, <2>1 DEF NextActive
<1> QED BY <1>3, <1>4

\* The two indices of a position agree on the current grid.
Matches(e) ==
  /\ e.flat \in AllElems => /\ InBox(e.tensor, size)
                            /\ e.flat = TensorToFlat(e.tensor, size)
                            /\ e.tensor = FlatToTensor(e.flat, size)
  /\ e.flat \notin AllElems => ~InBox(e.tensor, size)

\* Both constructors of an element, and move_to, agree on both indices.
LEMMA AtMatches ==
  ASSUME size \in [Dir -> Nat \ {0}], NEW flat \in AllElems \cup {PassTheEnd}
  PROVE  IsPosition(At(flat)) /\ At(flat).flat = flat /\ Matches(At(flat))
<1>0. PICK e : e = At(flat)
  OBVIOUS
<1>1. e.flat = flat /\ e.tensor = IF flat = PassTheEnd THEN [d \in Dir |-> PassTheEnd]
                                                       ELSE FlatToTensor(flat, size)
  BY <1>0 DEF At
<1>2. AllElems \subseteq Nat /\ PassTheEnd \notin AllElems /\ PassTheEnd \in Int
  BY ElementsAreNaturals DEF PassTheEnd
<1>3. CASE flat = PassTheEnd
  <2>1. e.tensor = [d \in Dir |-> PassTheEnd]
    BY <1>1, <1>3
  <2>2. e.tensor \in [Dir -> Int]
    BY <1>2, <2>1
  <2>3. 0 \in Dir /\ e.tensor[0] = -1
    BY <2>1, RankAssumption DEF Dir, PassTheEnd
  <2>4. ~InBox(e.tensor, size)
    BY <2>3 DEF InBox
  <2> QED BY <1>0, <1>1, <1>2, <1>3, <2>2, <2>4 DEF IsPosition, Matches
<1>4. CASE flat \in AllElems
  <2>1. e.tensor = FlatToTensor(flat, size)
    BY <1>1, <1>2, <1>4
  <2>2. flat \in 0 .. FlatSize(size) - 1
    BY <1>4 DEF AllElems, NumAllElems
  <2>3. /\ e.tensor \in [Dir -> Nat] /\ InBox(e.tensor, size)
        /\ TensorToFlat(e.tensor, size) = flat
    BY <2>1, <2>2, FlatAndBack
  <2>4. e.tensor \in [Dir -> Int]
    BY <2>3
  <2> QED BY <1>0, <1>1, <1>4, <2>1, <2>3, <2>4 DEF IsPosition, Matches
<1> QED BY <1>3, <1>4

\* So does jump, from wherever the tensor index is.
LEMMA JumpMatches ==
  ASSUME size \in [Dir -> Nat \ {0}], NEW e, e.tensor \in [Dir -> Int],
         NEW increment \in [Dir -> Int]
  PROVE  IsPosition(Jump(e, increment)) /\ Matches(Jump(e, increment))
<1>1. PICK t : t = [d \in Dir |-> e.tensor[d] + increment[d]]
  OBVIOUS
<1>2. t \in [Dir -> Int]
  BY <1>1
<1>3. PICK j : j = Jump(e, increment)
  OBVIOUS
<1>4. j.tensor = t /\ j.flat = IF InBox(t, size) THEN TensorToFlat(t, size) ELSE Invalid
  BY <1>1, <1>3 DEF Jump
<1>5. Invalid \notin AllElems
  BY ElementsAreNaturals DEF Invalid
<1>6. CASE InBox(t, size)
  <2>1. /\ TensorToFlat(t, size) \in 0 .. FlatSize(size) - 1
        /\ FlatToTensor(TensorToFlat(t, size), size) = t
    BY <1>2, <1>6, TensorAndBack
  <2>2. j.flat \in AllElems
    BY <1>4, <1>6, <2>1 DEF AllElems, NumAllElems
  <2> QED BY <1>2, <1>3, <1>4, <1>6, <2>1, <2>2 DEF IsPosition, Matches
<1>7. CASE ~InBox(t, size)
  BY <1>2, <1>3, <1>4, <1>5, <1>7 DEF IsPosition, Matches
<1> QED BY <1>6, <1>7

\* operator++ ends at an element, or past the end, and never on a half-moved index.
LEMMA IncrementMatches ==
  ASSUME size \in [Dir -> Nat \ {0}], NEW e, e.flat \in Int, NEW next \in Increment(e)
  PROVE  IsPosition(next) /\ Matches(next) /\ next.flat \in AllElems \cup {PassTheEnd}
<1>1. NextActive(e.flat) \in AllElems \cup {PassTheEnd}
  BY NextActiveTyped
<1>2. \E flat \in AllElems \cup {PassTheEnd} : next = At(flat)
  BY <1>1 DEF Increment
<1> QED BY <1>2, AtMatches

\* What the grid offers as its first element is a position.
LEMMA BeginTyped ==
  ASSUME size \in [Dir -> Nat \ {0}]
  PROVE  IsPosition(Begin)
<1>1. \E flat \in AllElems \cup {PassTheEnd} : Begin = At(flat)
  <2>1. CASE ActiveElems = {}
    BY <2>1 DEF Begin
  <2>2. CASE ActiveElems # {}
    <3>1. Min(ActiveElems) \in AllElems
      BY <2>2, ActiveAreElements, MinOfNaturals
    <3> QED BY <2>2, <3>1 DEF Begin
  <2> QED BY <2>1, <2>2
<1> QED BY <1>1, AtMatches

\* Positions stay positions when the grid is refined.
LEMMA RefinedElements ==
  ASSUME size \in [Dir -> Nat \ {0}], NEW n \in [Dir -> Nat \ {0}],
         size' = [d \in Dir |-> n[d] * size[d]]
  PROVE  size' \in [Dir -> Nat \ {0}] /\ AllElems \subseteq AllElems'
<1>1. PICK larger : larger = [d \in Dir |-> n[d] * size[d]]
  OBVIOUS
<1>2. ASSUME NEW d \in Dir
      PROVE  larger[d] \in Nat \ {0} /\ size[d] <= larger[d]
  <2>1. PICK a, b : a = n[d] /\ b = size[d]
    OBVIOUS
  <2>2. a \in Nat \ {0} /\ b \in Nat \ {0}
    BY <2>1
  <2>3. PICK c : c = a - 1
    OBVIOUS
  <2>4. c \in Nat /\ a * b = b + (c * b) /\ c * b \in Nat
    BY <2>2, <2>3
  <2>5. a * b \in Nat \ {0} /\ b <= a * b
    BY <2>2, <2>4
  <2> QED BY <1>1, <2>1, <2>5
<1>3. larger \in [Dir -> Nat \ {0}]
  BY <1>1, <1>2
<1>4. PICK a, b : a = FlatSize(size) /\ b = FlatSize(larger)
  OBVIOUS
<1>5. a <= b
  BY <1>2, <1>3, <1>4, GridGrows
<1>6. a \in Nat /\ b \in Nat
  BY <1>3, <1>4, GridHasElements
<1>7. AllElems = 0 .. a - 1 /\ AllElems' = 0 .. b - 1
  BY <1>1, <1>4 DEF AllElems, NumAllElems
<1> QED BY <1>1, <1>3, <1>5, <1>6, <1>7

\* What a move of an iterator leaves: a position whose indices agree.
LEMMA MovesMatch ==
  ASSUME PositionInv, GridIterationAssumption, NEW i \in Iterator,
         NEW e, UNCHANGED <<grid_vars, loop_vars>>,
         IsPosition(e) /\ Matches(e),
         elem' = [elem EXCEPT ![i] = e]
  PROVE  /\ TypeOK'
         /\ \A j \in Iterator : elem'[j] # elem[j] => Agree(j)'
<1>1. AllElems' = AllElems /\ size' = size
  BY DEF grid_vars, AllElems, NumAllElems
<1>2. \A j \in Iterator : elem'[j] # elem[j] => j = i
  OBVIOUS
<1>3. \A j \in Iterator : elem'[j] = elem[j] \/ elem'[j] = e
  OBVIOUS
<1>4. ASSUME NEW j \in Iterator, elem'[j] # elem[j]
      PROVE  Agree(j)'
  <2>1. elem'[j] = e
    BY <1>3, <1>4
  <2> QED BY <1>1, <2>1 DEF Agree, Matches
<1>5. \A j \in Iterator : IsPosition(elem'[j])
  BY <1>3 DEF PositionInv, TypeOK
<1>6. TypeOK'
  BY <1>1, <1>5 DEF PositionInv, TypeOK, IsPosition, grid_vars, loop_vars
<1> QED BY <1>4, <1>6

\* The moves of iterators.
LEMMA IteratorSteps ==
  ASSUME PositionInv, GridIterationAssumption, NEW i \in Iterator,
         \/ \E flat \in AllElems \cup {PassTheEnd} : MoveTo(i, flat)
         \/ \E increment \in Increments : JumpBy(i, increment)
         \/ Advance(i)
  PROVE  /\ TypeOK'
         /\ \A j \in Iterator : elem'[j] # elem[j] => Agree(j)'
<1>0. size \in [Dir -> Nat \ {0}] /\ IsPosition(elem[i])
  BY DEF PositionInv, TypeOK
<1>1. ASSUME NEW flat \in AllElems \cup {PassTheEnd}, MoveTo(i, flat)
      PROVE  \E e : /\ UNCHANGED <<grid_vars, loop_vars>>
                    /\ IsPosition(e) /\ Matches(e) /\ elem' = [elem EXCEPT ![i] = e]
  BY <1>0, <1>1, AtMatches DEF MoveTo
<1>2. ASSUME NEW increment \in Increments, JumpBy(i, increment)
      PROVE  \E e : /\ UNCHANGED <<grid_vars, loop_vars>>
                    /\ IsPosition(e) /\ Matches(e) /\ elem' = [elem EXCEPT ![i] = e]
  <2>1. increment \in [Dir -> Int] /\ elem[i].tensor \in [Dir -> Int]
    BY <1>0 DEF GridIterationAssumption, IsPosition
  <2>2. IsPosition(Jump(elem[i], increment)) /\ Matches(Jump(elem[i], increment))
    BY <1>0, <2>1, JumpMatches
  <2> QED BY <1>2, <2>2 DEF JumpBy
<1>3. ASSUME Advance(i)
      PROVE  \E e : /\ UNCHANGED <<grid_vars, loop_vars>>
                    /\ IsPosition(e) /\ Matches(e) /\ elem' = [elem EXCEPT ![i] = e]
  <2>1. elem[i].flat \in Int
    <3>1. PICK k : k = elem[i].flat
      OBVIOUS
    <3>2. k \in Nat \/ k = PassTheEnd \/ k = Invalid
      BY <1>0, <3>1, ElementsAreNaturals DEF IsPosition
    <3>3. k \in Int
      BY <3>2 DEF PassTheEnd, Invalid
    <3> QED BY <3>1, <3>3
  <2> QED BY <1>0, <1>3, <2>1, IncrementMatches DEF Advance
<1> QED BY <1>1, <1>2, <1>3, MovesMatch

\* Flags change, and the grid is refined: no iterator moves.
LEMMA GridSteps ==
  ASSUME PositionInv, GridIterationAssumption,
         \/ \E i \in Iterator, flag \in BOOLEAN : SetActive(i, flag)
         \/ \E ids \in FlagChanges : SetActiveElements(ids)
         \/ \E n \in [Dir -> Subdivisions \cup {1}] : Refine(n)
  PROVE  TypeOK' /\ elem' = elem
<1>0. size \in [Dir -> Nat \ {0}] /\ active_elems \in [AllElems -> BOOLEAN]
  BY DEF PositionInv, TypeOK
<1>1. ASSUME size' = size, elem' = elem, loop' = loop, visited' = visited,
             active_elems' \in [AllElems -> BOOLEAN]
      PROVE  TypeOK'
  <2>1. AllElems' = AllElems
    BY <1>1 DEF AllElems, NumAllElems
  <2> QED BY <1>1, <2>1 DEF PositionInv, TypeOK, IsPosition
<1>2. ASSUME NEW i \in Iterator, NEW flag \in BOOLEAN, SetActive(i, flag)
      PROVE  TypeOK' /\ elem' = elem
  <2>1. active_elems' \in [AllElems -> BOOLEAN]
    BY <1>0, <1>2 DEF SetActive
  <2> QED BY <1>1, <1>2, <2>1 DEF SetActive
<1>3. ASSUME NEW ids \in FlagChanges, SetActiveElements(ids)
      PROVE  TypeOK' /\ elem' = elem
  BY <1>1, <1>3 DEF SetActiveElements
<1>4. ASSUME NEW n \in [Dir -> Subdivisions \cup {1}], Refine(n)
      PROVE  TypeOK' /\ elem' = elem
  <2>1. size' = [d \in Dir |-> n[d] * size[d]] /\ active_elems' = ResizeFlags(size')
        /\ elem' = elem /\ loop' = loop /\ visited' = visited
    BY <1>4 DEF Refine, loop_vars
  <2>2. n \in [Dir -> Nat \ {0}]
    <3>1. Subdivisions \cup {1} \subseteq Nat \ {0}
      BY DEF GridIterationAssumption
    <3> QED BY <3>1
  <2>3. size' \in [Dir -> Nat \ {0}] /\ AllElems \subseteq AllElems'
    BY <1>0, <2>1, <2>2, RefinedElements
  <2>4. active_elems' \in [AllElems' -> BOOLEAN]
    <3>1. \A k \in AllElems : active_elems[k] \in BOOLEAN
      BY <1>0
    <3>2. AllElems' = 0 .. FlatSize(size') - 1
      BY DEF AllElems, NumAllElems
    <3> QED BY <2>1, <3>1, <3>2 DEF ResizeFlags
  <2> QED BY <2>1, <2>3, <2>4 DEF PositionInv, TypeOK, IsPosition
<1> QED BY <1>2, <1>3, <1>4

\* The loop moves its own element.
LEMMA LoopSteps ==
  ASSUME PositionInv, GridIterationAssumption, LoopBegin \/ LoopStep \/ LoopEnd
  PROVE  TypeOK' /\ elem' = elem
<1>0. size \in [Dir -> Nat \ {0}]
  BY DEF PositionInv, TypeOK
<1>1. /\ size' = size /\ active_elems' = active_elems /\ elem' = elem /\ AllElems' = AllElems
  BY DEF LoopBegin, LoopStep, LoopEnd, grid_vars, AllElems, NumAllElems
<1>2. ASSUME loop' # << >> => IsPosition(loop'), visited' \subseteq AllElems
      PROVE  TypeOK'
  BY <1>1, <1>2 DEF PositionInv, TypeOK, IsPosition
<1>3. CASE LoopBegin
  BY <1>0, <1>1, <1>2, <1>3, BeginTyped DEF LoopBegin
<1>4. CASE LoopStep
  <2>1. loop.flat \in AllElems /\ visited \subseteq AllElems
    BY <1>4 DEF LoopStep, PositionInv, LoopInv, LoopTypeOK
  <2>2. loop.flat \in Int
    <3>1. PICK k : k = loop.flat
      OBVIOUS
    <3>2. k \in Nat
      BY <2>1, <3>1, ElementsAreNaturals
    <3> QED BY <3>1, <3>2
  <2>3. loop' \in Increment(loop) /\ visited' = visited \cup {loop.flat}
    BY <1>4 DEF LoopStep
  <2>4. IsPosition(loop')
    BY <1>0, <2>2, <2>3, IncrementMatches
  <2> QED BY <1>1, <1>2, <2>1, <2>3, <2>4
<1>5. CASE LoopEnd
  BY <1>1, <1>2, <1>5 DEF LoopEnd, PositionInv, TypeOK
<1> QED BY <1>1, <1>3, <1>4, <1>5

\* All iterators are created at the first element of the grid.
LEMMA PositionsInit ==
  ASSUME GridIterationAssumption, Init
  PROVE  TypeOK
<1>1. size \in [Dir -> Nat \ {0}]
  BY DEF Init, GridIterationAssumption
<1>2. \A i \in Iterator : IsPosition(elem[i])
  BY <1>1, BeginTyped DEF Init
<1> QED BY <1>1, <1>2 DEF Init, TypeOK

\* Whatever steps, types stay and an iterator that has moved agrees with itself.
LEMMA PositionsStep ==
  ASSUME PositionInv, GridIterationAssumption, [Next]_vars
  PROVE  /\ TypeOK'
         /\ \A j \in Iterator : elem'[j] # elem[j] => Agree(j)'
<1>1. CASE Clients
  <2>1. \/ \E i \in Iterator : \/ \E flat \in AllElems \cup {PassTheEnd} : MoveTo(i, flat)
                               \/ \E increment \in Increments : JumpBy(i, increment)
                               \/ Advance(i)
        \/ \E i \in Iterator, flag \in BOOLEAN : SetActive(i, flag)
        \/ \E ids \in FlagChanges : SetActiveElements(ids)
        \/ \E n \in [Dir -> Subdivisions \cup {1}] : Refine(n)
    BY <1>1 DEF Clients
  <2> QED BY <2>1, IteratorSteps, GridSteps
<1>2. CASE LoopBegin \/ LoopStep \/ LoopEnd
  BY <1>2, LoopSteps
<1>3. CASE UNCHANGED vars
  BY <1>3 DEF vars, grid_vars, loop_vars, PositionInv, TypeOK, IsPosition, AllElems, NumAllElems
<1> QED BY <1>1, <1>2, <1>3 DEF Next

\* Every iterator, the loop and what it has visited are elements of the grid, past its
\* end or marked as invalid, and every element has a flag, whatever clients do.
THEOREM PositionsWellTyped ==
  ASSUME GridIterationAssumption
  PROVE  Spec => []TypeOK
<1>1. Init => TypeOK
  BY PositionsInit
<1>2. TypeOK /\ LoopInv /\ [Next]_vars => TypeOK'
  BY PositionsStep DEF PositionInv
<1> QED BY <1>1, <1>2, LoopInvariant, PTL DEF Spec

\* However an iterator moves, into the grid, out of it and back, or over a refinement,
\* its flat and its tensor index name one element of the grid as it is.
THEOREM IndicesNameOneElement ==
  ASSUME GridIterationAssumption
  PROVE  Spec => IndicesAgree
<1>1. TypeOK /\ LoopInv /\ [Next]_vars
        => [\A i \in Iterator : elem'[i] # elem[i] => Agree(i)']_vars
  BY PositionsStep DEF PositionInv
<1> QED BY <1>1, LoopInvariant, PositionsWellTyped, PTL DEF Spec, IndicesAgree
=============================================================================
