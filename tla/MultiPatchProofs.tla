--------------------------- MODULE MultiPatchProofs ---------------------------
(***************************************************************************)
(* Theorems about MultiPatch, for any MultiPatchSpaces, patches, contacts  *)
(* and multipliers, and tables of any dimension and size: however the      *)
(* calls interleave, the ids of a patch lead back to its functions, and    *)
(* between calls the manager has the pattern and the constraints of the    *)
(* glued problem.                                                          *)
(***************************************************************************)
EXTENDS MultiPatch, SpaceManagerProofs, IndexingProofs, FiniteSetTheorems

-----------------------------------------------------------------------------
(* The calls of a MultiPatchSpace and of its manager.                        *)

Sides == {<<c[1], c[2]>> : c \in Contact} \cup {<<c[3], c[4]>> : c \in Contact}

SidePairs == {<< <<c[1], c[2]>>, <<c[3], c[4]>> >> : c \in Contact}

Interfaces ==
  [type : InterfaceTypes \cup {"Mortar"}, patch_and_side : SidePairs,
   multiplier : {{}} \cup {{s} : s \in Multiplier}]

Calls ==
  [call : {"spaces_insertion_open", "spaces_connectivity_open", "spaces_connectivity_close",
           "linear_constraints_open", "linear_constraints_close"}]
    \cup [call : {"add_space"}, space : Space]
    \cup [call : {"spaces_insertion_close"}, renumber : BOOLEAN]
    \cup [call : {"add_spaces_connection"}, row : Space, col : Space, use : BOOLEAN]
    \cup [call : {"connect_face"}, side : Sides, multiplier : Multiplier]
    \cup [call : {"add_linear_constraints"}, sides : SidePairs, multiplier : Multiplier]
    \cup [call : {"patches_inserted"}, of : MultiPatchSpaces]

\* The shape of the members of the MultiPatchSpaces and of the call in progress.
MultiPatchTypeOK ==
  /\ is_patch_insertion_open \in [MultiPatchSpaces -> BOOLEAN]
  /\ is_interface_insertion_open \in [MultiPatchSpaces -> BOOLEAN]
  /\ patches \in [MultiPatchSpaces -> Seq(Patch)]
  /\ interfaces \in [MultiPatchSpaces -> SUBSET Interfaces]
  /\ todo \in Seq(Calls)

-----------------------------------------------------------------------------
\* The blocks of patches are calls of the manager.
LEMMA PatchBlocksTyped ==
  ASSUME MultiPatchAssumption, MultiPatchTypeOK, NEW m \in MultiPatchSpaces
  PROVE  PatchBlocks(m) \in Seq(Calls)
<1>1. PICK n, p : n = Len(patches[m]) /\ p = patches[m]
  OBVIOUS
<1>2. n \in Nat /\ \A i \in 1 .. n : p[i] \in Space
  BY <1>1 DEF MultiPatchTypeOK, MultiPatchAssumption
<1>3. PICK b : b = [i \in 1 .. n |-> [call |-> "add_spaces_connection", row |-> p[i], col |-> p[i], use |-> TRUE]]
  OBVIOUS
<1>4. \A i \in 1 .. n : [call |-> "add_spaces_connection", row |-> p[i], col |-> p[i], use |-> TRUE] \in Calls
  BY <1>2 DEF Calls
<1>5. b \in Seq(Calls)
  BY <1>2, <1>3, <1>4
<1>6. << [call |-> "spaces_connectivity_open"] >> \in Seq(Calls) /\ << [call |-> "spaces_connectivity_close"] >> \in Seq(Calls)
  BY DEF Calls
<1>7. << [call |-> "spaces_connectivity_open"] >> \o b \o << [call |-> "spaces_connectivity_close"] >> \in Seq(Calls)
  BY <1>5, <1>6
<1> QED BY <1>1, <1>3, <1>7 DEF PatchBlocks

\* What the steps of a MultiPatchSpace add to the calls of its manager.
LEMMA FillTyped ==
  ASSUME MultiPatchAssumption, NEW c \in Contact, NEW s \in Multiplier
  PROVE  FillConnectivity(<< <<c[1], c[2]>>, <<c[3], c[4]>> >>, s) \in Seq(Calls)
<1>1. PICK side : side = << <<c[1], c[2]>>, <<c[3], c[4]>> >>
  OBVIOUS
<1>2. side[1] \in Sides /\ side[2] \in Sides /\ side \in SidePairs
  BY <1>1 DEF Sides, SidePairs
<1>3. /\ [call |-> "connect_face", side |-> side[1], multiplier |-> s] \in Calls
      /\ [call |-> "connect_face", side |-> side[2], multiplier |-> s] \in Calls
      /\ [call |-> "linear_constraints_open"] \in Calls
      /\ [call |-> "add_linear_constraints", sides |-> side, multiplier |-> s] \in Calls
      /\ [call |-> "linear_constraints_close"] \in Calls
  BY <1>2 DEF Calls
<1> QED BY <1>1, <1>3 DEF FillConnectivity

\* A client begins a call: the calls of the manager it is made of are calls.
LEMMA ClientTypes ==
  ASSUME MultiPatchAssumption, MultiPatchTypeOK, NEW m \in MultiPatchSpaces,
         \/ PatchInsertionOpen(m)
         \/ \E p \in Patch : AddPatch(m, p)
         \/ \E renumber \in CloseArgs : PatchInsertionClose(m, renumber)
         \/ InterfaceInsertionOpen(m)
         \/ InterfaceInsertionClose(m)
         \/ \E type \in InterfaceTypes, c \in Contact : AddInterface(m, type, c)
         \/ \E c \in Contact : \E multiplier \in MultiplierFor[c] : AddInterfaceMortar(m, c, multiplier),
         SpaceManagerAssumption
  PROVE  MultiPatchTypeOK' /\ todo = << >> /\ UNCHANGED vars
<1> USE DEF MultiPatchTypeOK, mp_vars
<1>0. Patch \subseteq Space /\ Multiplier \subseteq Space /\ CloseArgs \subseteq BOOLEAN
  BY DEF MultiPatchAssumption, SpaceManagerAssumption
<1>1. CASE PatchInsertionOpen(m)
  <2>1. << [call |-> "spaces_insertion_open"] >> \in Seq(Calls)
    BY DEF Calls
  <2> QED BY <1>1, <2>1 DEF PatchInsertionOpen, Idle
<1>2. ASSUME NEW p \in Patch, AddPatch(m, p)
      PROVE  MultiPatchTypeOK' /\ todo = << >> /\ UNCHANGED vars
  <2>1. << [call |-> "add_space", space |-> p] >> \in Seq(Calls)
    BY <1>0 DEF Calls
  <2>2. patches' \in [MultiPatchSpaces -> Seq(Patch)]
    <3>1. Append(patches[m], p) \in Seq(Patch)
      BY <1>2
    <3> QED BY <1>2, <3>1 DEF AddPatch
  <2> QED BY <1>2, <2>1, <2>2 DEF AddPatch, Idle
<1>3. ASSUME NEW renumber \in CloseArgs, PatchInsertionClose(m, renumber)
      PROVE  MultiPatchTypeOK' /\ todo = << >> /\ UNCHANGED vars
  <2>1. << [call |-> "spaces_insertion_close", renumber |-> renumber] >> \in Seq(Calls)
    BY <1>0 DEF Calls
  <2>2. << [call |-> "patches_inserted", of |-> m] >> \in Seq(Calls)
    BY DEF Calls
  <2>3. PatchBlocks(m) \in Seq(Calls)
    BY PatchBlocksTyped
  <2>4. todo' \in Seq(Calls)
    BY <1>3, <2>1, <2>2, <2>3 DEF PatchInsertionClose
  <2> QED BY <1>3, <2>4 DEF PatchInsertionClose, Idle
<1>4. CASE InterfaceInsertionOpen(m)
  BY <1>4 DEF InterfaceInsertionOpen, Idle
<1>5. CASE InterfaceInsertionClose(m)
  BY <1>5 DEF InterfaceInsertionClose, Idle
<1>6. ASSUME NEW type \in InterfaceTypes, NEW c \in Contact, AddInterface(m, type, c)
      PROVE  MultiPatchTypeOK' /\ todo = << >> /\ UNCHANGED vars
  <2>1. c[1] \in Space /\ c[3] \in Space
    BY <1>0 DEF MultiPatchAssumption
  <2>2. /\ [call |-> "spaces_connectivity_open"] \in Calls
        /\ [call |-> "add_spaces_connection", row |-> c[1], col |-> c[3], use |-> FALSE] \in Calls
        /\ [call |-> "add_spaces_connection", row |-> c[3], col |-> c[1], use |-> FALSE] \in Calls
        /\ [call |-> "spaces_connectivity_close"] \in Calls
    BY <2>1 DEF Calls
  <2>3. todo' \in Seq(Calls)
    BY <1>6, <2>2 DEF AddInterface
  <2>4. NewInterface(type, c, {}) \in Interfaces
    BY DEF NewInterface, Interfaces, SidePairs
  <2>5. interfaces' \in [MultiPatchSpaces -> SUBSET Interfaces]
    BY <1>6, <2>4 DEF AddInterface
  <2> QED BY <1>6, <2>3, <2>5 DEF AddInterface, Idle
<1>7. ASSUME NEW c \in Contact, NEW s \in MultiplierFor[c], AddInterfaceMortar(m, c, s)
      PROVE  MultiPatchTypeOK' /\ todo = << >> /\ UNCHANGED vars
  <2>1. c[1] \in Space /\ c[3] \in Space /\ s \in Multiplier /\ s \in Space
    BY <1>0 DEF MultiPatchAssumption
  <2> DEFINE Block(row, col) == [call |-> "add_spaces_connection", row |-> row, col |-> col, use |-> FALSE]
             first == << [call |-> "spaces_insertion_open"],
                    [call |-> "add_space", space |-> s],
                    [call |-> "spaces_insertion_close", renumber |-> TRUE],
                    [call |-> "spaces_connectivity_open"],
                    Block(c[1], s), Block(s, c[1]),
                    Block(c[3], s), Block(s, c[3]),
                    [call |-> "spaces_connectivity_close"] >>
  <2>2. /\ [call |-> "spaces_insertion_open"] \in Calls
        /\ [call |-> "add_space", space |-> s] \in Calls
        /\ [call |-> "spaces_insertion_close", renumber |-> TRUE] \in Calls
        /\ [call |-> "spaces_connectivity_open"] \in Calls
        /\ [call |-> "spaces_connectivity_close"] \in Calls
    BY <2>1 DEF Calls
  <2>3. Block(c[1], s) \in Calls /\ Block(s, c[1]) \in Calls /\ Block(c[3], s) \in Calls /\ Block(s, c[3]) \in Calls
    BY <2>1 DEF Calls
  <2>4. NewInterface("Mortar", c, {s}).patch_and_side = << <<c[1], c[2]>>, <<c[3], c[4]>> >>
    BY DEF NewInterface
  <2>5. FillConnectivity(NewInterface("Mortar", c, {s}).patch_and_side, s) \in Seq(Calls)
    BY <2>1, <2>4, FillTyped
  <2>6. todo' = first \o FillConnectivity(NewInterface("Mortar", c, {s}).patch_and_side, s)
    BY <1>7 DEF AddInterfaceMortar
  <2>7. first \in Seq(Calls)
    <3> HIDE DEF Block
    <3> QED BY <2>2, <2>3
  <2>8. todo' \in Seq(Calls)
    <3> HIDE DEF first
    <3> QED BY <2>5, <2>6, <2>7
  <2>9. NewInterface("Mortar", c, {s}) \in Interfaces
    BY <2>1 DEF NewInterface, Interfaces, SidePairs
  <2>10. interfaces' \in [MultiPatchSpaces -> SUBSET Interfaces]
    <3>1. PICK x : x = NewInterface("Mortar", c, {s})
      OBVIOUS
    <3>2. x \in Interfaces /\ interfaces' = [interfaces EXCEPT ![m] = @ \cup {x}]
      BY <1>7, <2>9, <3>1 DEF AddInterfaceMortar
    <3>3. interfaces \in [MultiPatchSpaces -> SUBSET Interfaces]
      BY DEF MultiPatchTypeOK
    <3> QED BY <3>2, <3>3
  <2> QED BY <1>7, <2>8, <2>10 DEF AddInterfaceMortar, Idle
<1> QED BY <1>1, <1>2, <1>3, <1>4, <1>5, <1>6, <1>7

\* The head of the calls to be made is a call, and so are the ones after it.
LEMMA HeadIsCall ==
  ASSUME MultiPatchTypeOK, todo # << >>
  PROVE  Head(todo) \in Calls /\ Tail(todo) \in Seq(Calls)
  BY DEF MultiPatchTypeOK

\* What the call in progress does to the objects and to the calls left.
LEMMA ContinueTypes ==
  ASSUME MultiPatchTypeOK, Continue
  PROVE  /\ MultiPatchTypeOK'
         /\ UNCHANGED <<is_interface_insertion_open, patches, interfaces>>
<1>0. todo # << >>
  BY DEF Continue
<1>1. Head(todo) \in Calls /\ Tail(todo) \in Seq(Calls)
  BY <1>0, HeadIsCall
<1>2. todo' = todo \/ todo' = Tail(todo)
  BY DEF Continue, ConnectFace, AddMortarConstraint
<1>3. todo' \in Seq(Calls)
  BY <1>1, <1>2 DEF MultiPatchTypeOK
<1>4. /\ UNCHANGED <<is_interface_insertion_open, patches, interfaces>>
      /\ \/ UNCHANGED is_patch_insertion_open
         \/ is_patch_insertion_open' = [is_patch_insertion_open EXCEPT ![Head(todo).of] = FALSE]
  BY DEF Continue, mp_vars
<1> QED BY <1>3, <1>4 DEF MultiPatchTypeOK

-----------------------------------------------------------------------------
(* The numbering, which the calls of the manager keep in order.              *)

\* The arguments of a call are what its manager takes.
LEMMA CallArguments ==
  ASSUME NEW c \in Calls
  PROVE  /\ c.call = "add_space" => c.space \in Space
         /\ c.call = "spaces_insertion_close" => c.renumber \in BOOLEAN
         /\ c.call = "add_spaces_connection" => c.row \in Space /\ c.col \in Space /\ c.use \in BOOLEAN
         /\ c.call = "connect_face" => c.side \in Sides /\ c.multiplier \in Multiplier
         /\ c.call = "add_linear_constraints" => c.sides \in SidePairs /\ c.multiplier \in Multiplier
         /\ c.call = "patches_inserted" => c.of \in MultiPatchSpaces
  BY DEF Calls

\* A call of the manager is a step of the manager.
LEMMA CallsNumber ==
  ASSUME SpaceManagerAssumption, IInv, NEW c \in Calls, ManagerCall(c)
  PROVE  IInv' /\ \A r \in SpacesIn(spaces_with_renumbered_dofs) : GlobalDofs(r)' = GlobalDofs(r)
<1>1. closing \in BOOLEAN
  BY DEF IInv, NumberingTypeOK
<1>2. ASSUME UNCHANGED numbering_vars, closing' \in BOOLEAN
      PROVE  IInv' /\ UNCHANGED index_table
  BY <1>2, NumberingFramed DEF numbering_vars
<1>3. CASE c.call = "add_space" /\ AddSpace(c.space)
  <2>1. c.space \in Space
    BY <1>3, CallArguments
  <2>2. IInv' /\ UNCHANGED index_table
    BY <1>3, <2>1, AddSpaceIInv DEF AddSpace
  <2> QED BY <2>2 DEF GlobalDofs, GlobalDofsOfTable
<1>4. CASE \/ c.call = "spaces_insertion_close" /\ SpacesInsertionClose(c.renumber)
           \/ SpacesInsertionOpen
  <2>1. c.call = "spaces_insertion_close" => c.renumber \in BOOLEAN
    BY CallArguments
  <2>2. UNCHANGED numbering_vars /\ closing' \in BOOLEAN
    BY <1>1, <1>4, <2>1 DEF SpacesInsertionClose, SpacesInsertionOpen
  <2> QED BY <1>2, <2>2 DEF GlobalDofs, GlobalDofsOfTable
<1>5. CASE \/ SpacesConnectivityOpen
           \/ AddSpacesConnection(c.row, c.col, c.use)
           \/ SpacesConnectivityClose
           \/ LinearConstraintsOpen
           \/ LinearConstraintsClose
  <2>1. UNCHANGED numbering_vars /\ closing' \in BOOLEAN
    BY <1>1, <1>5 DEF SpacesConnectivityOpen, AddSpacesConnection, SpacesConnectivityClose,
                      LinearConstraintsOpen, LinearConstraintsClose, insertion_vars
  <2> QED BY <1>2, <2>1 DEF GlobalDofs, GlobalDofsOfTable
<1> QED BY <1>3, <1>4, <1>5 DEF ManagerCall

\* No step of a client, of a call in progress or of the manager disturbs the
\* numbering, nor the ids of renumbered spaces.
LEMMA StepNumbers ==
  ASSUME SpaceManagerAssumption, MultiPatchAssumption, TablesDistinct, MultiPatchTypeOK, IInv, [MultiPatchNext]_mvars
  PROVE  /\ MultiPatchTypeOK'
         /\ IInv'
         /\ \A r \in SpacesIn(spaces_with_renumbered_dofs) : GlobalDofs(r)' = GlobalDofs(r)
<1>1. closing \in BOOLEAN
  BY DEF IInv, NumberingTypeOK
<1>2. ASSUME UNCHANGED numbering_vars, UNCHANGED insertion_vars
      PROVE  IInv' /\ \A r \in SpacesIn(spaces_with_renumbered_dofs) : GlobalDofs(r)' = GlobalDofs(r)
  <2>1. closing' \in BOOLEAN /\ UNCHANGED index_table
    BY <1>1, <1>2 DEF insertion_vars, numbering_vars
  <2> QED BY <1>2, <2>1, NumberingFramed DEF GlobalDofs, GlobalDofsOfTable
<1>3. CASE UNCHANGED mvars
  <2>1. UNCHANGED <<mp_vars, todo, numbering_vars, insertion_vars>>
    BY <1>3 DEF mvars, vars
  <2>2. MultiPatchTypeOK'
    BY <2>1 DEF MultiPatchTypeOK, mp_vars
  <2> QED BY <1>2, <2>1, <2>2
<1>4. ASSUME NEW m \in MultiPatchSpaces,
             \/ PatchInsertionOpen(m)
             \/ \E p \in Patch : AddPatch(m, p)
             \/ \E renumber \in CloseArgs : PatchInsertionClose(m, renumber)
             \/ InterfaceInsertionOpen(m)
             \/ InterfaceInsertionClose(m)
             \/ \E type \in InterfaceTypes, c \in Contact : AddInterface(m, type, c)
             \/ \E c \in Contact : \E multiplier \in MultiplierFor[c] : AddInterfaceMortar(m, c, multiplier)
      PROVE  MultiPatchTypeOK' /\ UNCHANGED <<numbering_vars, insertion_vars>>
  <2>1. MultiPatchTypeOK' /\ UNCHANGED vars
    BY <1>4, ClientTypes
  <2> QED BY <2>1 DEF vars
<1>5. CASE Continue
  <2>1. MultiPatchTypeOK' /\ todo # << >> /\ Head(todo) \in Calls
    BY <1>5, ContinueTypes, HeadIsCall DEF Continue
  <2>2. CASE RenumberSpace
    BY <2>1, <2>2, RenumberSpaceIInv
  <2>3. CASE RenumberingDone
    <3>1. UNCHANGED numbering_vars /\ closing' \in BOOLEAN /\ UNCHANGED index_table
      BY <2>3 DEF RenumberingDone, numbering_vars
    <3> QED BY <2>1, <3>1, NumberingFramed DEF GlobalDofs, GlobalDofsOfTable
  <2>4. CASE ManagerCall(Head(todo))
    BY <2>1, <2>4, CallsNumber
  <2>5. CASE ConnectFace(Head(todo)) \/ AddMortarConstraint(Head(todo))
    <3>1. UNCHANGED <<numbering_vars, insertion_vars>>
      BY <2>5 DEF ConnectFace, AddBlockPairs, AddMortarConstraint, AddConstraintOn
    <3> QED BY <1>2, <2>1, <3>1
  <2>6. CASE UNCHANGED vars
    BY <1>2, <2>1, <2>6 DEF vars
  <2> QED BY <1>5, <2>2, <2>3, <2>4, <2>5, <2>6 DEF Continue
<1> QED BY <1>2, <1>3, <1>4, <1>5 DEF MultiPatchNext

\* However the calls of MultiPatchSpaces interleave, the numbering of their
\* manager is in order.
LEMMA MultiPatchNumbers ==
  ASSUME SpaceManagerAssumption, MultiPatchAssumption, TablesDistinct
  PROVE  MultiPatchSpec => [](MultiPatchTypeOK /\ IInv)
<1>1. MultiPatchInit => MultiPatchTypeOK /\ IInv
  BY InitIInv DEF MultiPatchInit, MultiPatchTypeOK
<1>2. MultiPatchTypeOK /\ IInv /\ [MultiPatchNext]_mvars => (MultiPatchTypeOK /\ IInv)'
  BY StepNumbers
<1> QED BY <1>1, <1>2, PTL DEF MultiPatchSpec

-----------------------------------------------------------------------------
(* Finding the function of an id.                                            *)

\* The table of a patch: consecutive ids, of the functions of its shape.
LEMMA PatchTable ==
  ASSUME SpaceManagerAssumption, MultiPatchAssumption, IInv, NEW p \in Space, NEW t, t = TableOf[p]
  PROVE  /\ t \in Table /\ ShapeOK(Shape[t])
         /\ LocalDofs(t) = 0 .. NumDofsOf(Shape[t]) - 1
         /\ \A i \in LocalDofs(t) : index_table[t][i] \in GlobalDofs(p)
         /\ \A i, j \in LocalDofs(t) : index_table[t][i] = index_table[t][j] => i = j
<1>1. t \in Table /\ index_table[t][0] \in Nat
  BY TableOfSpace DEF IInv
<1>2. ShapeOK(Shape[t]) /\ LocalDofs(t) = 0 .. NumDofsOf(Shape[t]) - 1
  BY <1>1 DEF MultiPatchAssumption, LocalDofs
<1>3. \A i \in LocalDofs(t) : index_table[t][i] \in GlobalDofs(p)
  BY DEF GlobalDofs, GlobalDofsOfTable
<1>4. \A i \in LocalDofs(t) : i \in Int /\ index_table[t][i] = index_table[t][0] + i
  BY <1>1 DEF IInv, Consecutive, LocalDofs
<1> QED BY <1>1, <1>2, <1>3, <1>4

\* What global_to_local looks up in a patch.
FoundIn(p, d) == FindDofId(index_table[TableOf[p]], Shape[TableOf[p]], d)

\* A patch has the function of each of its ids, and no other ids.
LEMMA PatchFinds ==
  ASSUME SpaceManagerAssumption, MultiPatchAssumption, IInv, NEW p \in Space, NEW d
  PROVE  /\ d \notin GlobalDofs(p) => FoundIn(p, d) = {}
         /\ \A i \in LocalDofs(TableOf[p]) : index_table[TableOf[p]][i] = d =>
              \E pl : FoundIn(p, d) = {pl} /\ LocalDof(Shape[TableOf[p]], pl.comp, pl.tensor) = i
<1>1. PICK t : t = TableOf[p]
  OBVIOUS
<1>2. PICK table : table = index_table[t]
  OBVIOUS
<1>3. PICK shape : shape = Shape[t]
  OBVIOUS
<1>4. /\ ShapeOK(shape)
      /\ LocalDofs(t) = 0 .. NumDofsOf(shape) - 1
      /\ \A i \in LocalDofs(t) : table[i] \in GlobalDofs(p)
      /\ \A i, j \in LocalDofs(t) : table[i] = table[j] => i = j
  BY <1>1, <1>2, <1>3, PatchTable
<1>5. /\ (\A i \in LocalDofs(t) : table[i] # d) => FindDofId(table, shape, d) = {}
      /\ \A i \in LocalDofs(t) : table[i] = d =>
           \E pl : /\ FindDofId(table, shape, d) = {pl}
                   /\ LocalDof(shape, pl.comp, pl.tensor) = i
  <2>1. ShapeOK(shape) /\ IdsDiffer(table, shape)
    BY <1>4 DEF IdsDiffer
  <2>2. FindsFunction(table, shape, d)
    BY <2>1, FindDofIdFinds
  <2> QED BY <1>4, <2>2 DEF FindsFunction
<1>6. FoundIn(p, d) = FindDofId(table, shape, d)
  BY <1>1, <1>2, <1>3 DEF FoundIn
<1>7. d \notin GlobalDofs(p) => FoundIn(p, d) = {}
  BY <1>4, <1>5, <1>6
<1>8. \A i \in LocalDofs(t) : table[i] = d =>
           \E pl : FoundIn(p, d) = {pl} /\ LocalDof(shape, pl.comp, pl.tensor) = i
  BY <1>5, <1>6
<1> QED BY <1>1, <1>2, <1>3, <1>7, <1>8

\* The indices of a sequence at which something is the case have a first.
LEMMA FirstIndex ==
  ASSUME NEW n \in Nat, NEW S \in SUBSET (1 .. n), S # {}
  PROVE  \E k \in S : \A j \in 1 .. k - 1 : j \notin S
<1> DEFINE T == {x \in Nat : \A y \in S : x <= y}
<1>0. S \subseteq 1 .. n /\ \E y : y \in S
  OBVIOUS
<1>5. PICK z \in S : z \in Nat
  BY <1>0
<1>1. SUFFICES ASSUME \A k \in S : \E j \in 1 .. k - 1 : j \in S
               PROVE  FALSE
  OBVIOUS
<1>2. 0 \in T
  OBVIOUS
<1>3. ASSUME NEW x \in Nat, x \in T
      PROVE  x + 1 \in T
  <2>1. \A y \in S : x # y
    BY <1>1, <1>3
  <2>2. \A y \in S : x <= y /\ y \in Nat
    BY <1>3
  <2>3. \A y \in S : x + 1 <= y
    BY <2>1, <2>2
  <2> QED BY <2>3
<1>4. \A x \in Nat : x \in T
  <2> HIDE DEF T
  <2> QED BY <1>2, <1>3, NatInSet
<1>6. z + 1 \in T
  BY <1>4, <1>5
<1> QED BY <1>5, <1>6

\* global_to_local finds what the patches of a MultiPatchSpace have.
LEMMA FindsInPatches ==
  ASSUME SpaceManagerAssumption, MultiPatchAssumption, IInv, MultiPatchTypeOK,
         NEW m \in MultiPatchSpaces, NEW d,
         Patches(m) \subseteq SpacesIn(spaces_with_renumbered_dofs)
  PROVE  {<<found.space, LocalDof(Shape[TableOf[found.space]], found.place.comp, found.place.tensor)>> :
            found \in GlobalToLocal(m, d)}
           = UNION {{<<p, i>> : i \in {i \in LocalDofs(TableOf[p]) : index_table[TableOf[p]][i] = d}} : p \in Patches(m)}
<1>1. PICK n, ps : n = Len(patches[m]) /\ ps = patches[m]
  OBVIOUS
<1>2. n \in Nat /\ Patches(m) = {ps[i] : i \in 1 .. n} /\ \A i \in 1 .. n : ps[i] \in Patch /\ ps[i] \in Space
  BY <1>1 DEF MultiPatchTypeOK, MultiPatchAssumption, Patches
<1> DEFINE found == {i \in 1 .. n : FoundIn(ps[i], d) # {} /\ \A j \in 1 .. i - 1 : FoundIn(ps[j], d) = {}}
           Answer(i) == [space |-> ps[i], place |-> CHOOSE p \in FoundIn(ps[i], d) : TRUE]
           Left == {<<f.space, LocalDof(Shape[TableOf[f.space]], f.place.comp, f.place.tensor)>> :
                      f \in GlobalToLocal(m, d)}
           Right == UNION {{<<p, i>> : i \in {i \in LocalDofs(TableOf[p]) : index_table[TableOf[p]][i] = d}} : p \in Patches(m)}
<1>3. GlobalToLocal(m, d) = {Answer(i) : i \in found}
  BY <1>1 DEF GlobalToLocal, FoundIn
<1>4. CASE \A p \in Patches(m) : d \notin GlobalDofs(p)
  <2>1. ASSUME NEW i \in 1 .. n
        PROVE  FoundIn(ps[i], d) = {}
    <3>1. ps[i] \in Space /\ d \notin GlobalDofs(ps[i])
      BY <1>2, <1>4
    <3> QED BY <3>1, PatchFinds
  <2>2. GlobalToLocal(m, d) = {}
    <3>1. found = {}
      BY <2>1
    <3> HIDE DEF found, Answer
    <3> QED BY <1>3, <3>1
  <2>3. ASSUME NEW p \in Patches(m), NEW i \in LocalDofs(TableOf[p]), index_table[TableOf[p]][i] = d
        PROVE  FALSE
    BY <1>4, <2>3 DEF GlobalDofs, GlobalDofsOfTable
  <2>4. Right = {}
    <3>1. ASSUME NEW x \in Right
          PROVE  FALSE
      BY <2>3, <3>1
    <3> HIDE DEF Right
    <3> QED BY <3>1
  <2>5. Left = {}
    BY <2>2
  <2> QED BY <2>4, <2>5
<1>5. ASSUME NEW p \in Patches(m), d \in GlobalDofs(p)
      PROVE  Left = Right
  <2>1. p \in Space
    BY <1>2
  <2>2. PICK i \in LocalDofs(TableOf[p]) : index_table[TableOf[p]][i] = d
    BY <1>5 DEF GlobalDofs, GlobalDofsOfTable
  <2>3. PICK pl : FoundIn(p, d) = {pl} /\ LocalDof(Shape[TableOf[p]], pl.comp, pl.tensor) = i
    <3>1. \A j \in LocalDofs(TableOf[p]) : index_table[TableOf[p]][j] = d =>
             \E pl : FoundIn(p, d) = {pl} /\ LocalDof(Shape[TableOf[p]], pl.comp, pl.tensor) = j
      BY <2>1, PatchFinds
    <3> QED BY <2>2, <3>1
  <2>4. \A q \in Patches(m) : q # p => d \notin GlobalDofs(q)
    BY <1>5 DEF IInv, RenumberedDisjoint
  <2>5. ASSUME NEW k \in 1 .. n, ps[k] # p
        PROVE  FoundIn(ps[k], d) = {}
    <3>1. ps[k] \in Space /\ d \notin GlobalDofs(ps[k])
      BY <1>2, <2>4, <2>5
    <3> QED BY <3>1, PatchFinds
  <2> DEFINE At == {k \in 1 .. n : ps[k] = p}
  <2>6. PICK k \in At : \A j \in 1 .. k - 1 : j \notin At
    <3>1. At # {} /\ At \subseteq 1 .. n
      BY <1>2
    <3> HIDE DEF At
    <3> QED BY <1>2, <3>1, FirstIndex
  <2>7. found = {k}
    <3>1. k \in 1 .. n /\ ps[k] = p
      BY <2>6
    <3>2. \A j \in 1 .. k - 1 : j \in 1 .. n /\ ps[j] # p
      BY <1>2, <2>6, <3>1
    <3>3. k \in found
      BY <2>3, <2>5, <3>1, <3>2
    <3>4. ASSUME NEW l \in found
          PROVE  l = k
      <4>1. l \in 1 .. n /\ ps[l] = p /\ \A j \in 1 .. l - 1 : FoundIn(ps[j], d) = {}
        BY <2>5
      <4>2. ~(l < k)
        BY <1>2, <3>2, <4>1
      <4>3. ~(k < l)
        <5>1. FoundIn(ps[k], d) # {}
          BY <2>3, <3>1
        <5>2. l \in Nat /\ k \in Nat /\ 1 <= k
          BY <1>2, <3>1, <4>1
        <5>3. k < l => k \in 1 .. l - 1
          BY <5>2
        <5> HIDE DEF found, Answer
        <5> QED BY <4>1, <5>1, <5>3
      <4> QED BY <1>2, <3>1, <4>1, <4>2, <4>3
    <3> HIDE DEF found
    <3> QED BY <3>3, <3>4
  <2>8. ps[k] = p
    BY <2>6
  <2>9. (CHOOSE x \in FoundIn(p, d) : TRUE) = pl
    BY <2>3
  <2>10. GlobalToLocal(m, d) = {[space |-> p, place |-> pl]}
    <3>1. Answer(k) = [space |-> p, place |-> pl]
      BY <2>8, <2>9
    <3> HIDE DEF found, Answer
    <3> QED BY <1>3, <2>7, <3>1
  <2>11. Left = {<<p, i>>}
    BY <2>3, <2>10
  <2>12. \A j \in LocalDofs(TableOf[p]) : index_table[TableOf[p]][j] = d => j = i
    BY <2>1, <2>2, PatchTable
  <2>13. \A q \in Patches(m) : q # p => \A j \in LocalDofs(TableOf[q]) : index_table[TableOf[q]][j] # d
    BY <2>4 DEF GlobalDofs, GlobalDofsOfTable
  <2>14. Right = {<<p, i>>}
    <3>1. <<p, i>> \in Right
      BY <2>2
    <3>2. ASSUME NEW x \in Right
          PROVE  x = <<p, i>>
      <4>1. PICK q \in Patches(m) : x \in {<<q, j>> : j \in {j \in LocalDofs(TableOf[q]) : index_table[TableOf[q]][j] = d}}
        BY <3>2
      <4>2. PICK j \in LocalDofs(TableOf[q]) : x = <<q, j>> /\ index_table[TableOf[q]][j] = d
        BY <4>1
      <4>3. q = p
        BY <2>13, <4>2
      <4> QED BY <2>12, <4>2, <4>3
    <3> HIDE DEF Right
    <3> QED BY <3>1, <3>2
  <2> HIDE DEF Left, Right
  <2> QED BY <2>11, <2>14
<1> QED BY <1>4, <1>5

\* Whatever the MultiPatchSpaces, their patches and the calls before: in patches
\* that have been renumbered global_to_local finds of an id the one function
\* that has it, and nothing when no patch of the object has it.
THEOREM FunctionsFoundById ==
  ASSUME SpaceManagerAssumption, MultiPatchAssumption, TablesDistinct
  PROVE  MultiPatchSpec => []DofsFound
<1>1. MultiPatchTypeOK /\ IInv => DofsFound
  BY FindsInPatches, ZenonT(30) DEF DofsFound
<1> QED BY <1>1, MultiPatchNumbers, PTL

-----------------------------------------------------------------------------
(* Faces: the functions of a face space are the outermost layer of a patch.  *)

\* The directions of a face are those of the patch but the constant one, each
\* once.
LEMMA ActiveDirectionsOfFace ==
  ASSUME NEW dim \in Nat, dim > 1, NEW face \in 0 .. 2 * dim - 1,
         NEW active, active = ActiveDirections(dim, face)
  PROVE  /\ dim - 1 \in Nat \ {0}
         /\ ConstantDirection(face) \in Dirs(dim)
         /\ active \in [Dirs(dim - 1) -> Dirs(dim)]
         /\ \A j \in Dirs(dim - 1) : active[j] # ConstantDirection(face)
         /\ \A i, j \in Dirs(dim - 1) : active[i] = active[j] => i = j
         /\ \A d \in Dirs(dim) : d # ConstantDirection(face) => \E j \in Dirs(dim - 1) : active[j] = d
<1>1. PICK cd : cd = ConstantDirection(face)
  OBVIOUS
<1>2. cd \in Nat /\ cd < dim
  <2>1. cd = face \div 2 /\ face \in Nat /\ face < 2 * dim
    BY <1>1 DEF ConstantDirection
  <2> QED BY <2>1
<1>3. /\ dim - 1 \in Nat \ {0} /\ Dirs(dim - 1) = 0 .. dim - 2 /\ Dirs(dim) = 0 .. dim - 1
  BY DEF Dirs
<1>4. active = [j \in 0 .. dim - 2 |-> IF j < cd THEN j ELSE j + 1]
  BY <1>1 DEF ActiveDirections
<1>5. \A j \in 0 .. dim - 2 :
        /\ active[j] \in 0 .. dim - 1
        /\ j < cd => active[j] = j
        /\ ~(j < cd) => active[j] = j + 1
  BY <1>2, <1>4
<1>6. active \in [Dirs(dim - 1) -> Dirs(dim)]
  BY <1>3, <1>4, <1>5
<1>7. \A j \in 0 .. dim - 2 : active[j] # cd
  BY <1>2, <1>5
<1>8. \A i, j \in 0 .. dim - 2 : active[i] = active[j] => i = j
  BY <1>2, <1>5
<1>9. ASSUME NEW d \in 0 .. dim - 1, d # cd
      PROVE  \E j \in 0 .. dim - 2 : active[j] = d
  <2>1. CASE d < cd
    BY <1>2, <1>5, <2>1
  <2>2. CASE ~(d < cd)
    <3>1. d - 1 \in 0 .. dim - 2 /\ ~(d - 1 < cd) /\ (d - 1) + 1 = d
      BY <1>2, <1>9, <2>2
    <3>2. active[d - 1] = d
      BY <1>5, <3>1
    <3> QED BY <3>1, <3>2
  <2> QED BY <2>1, <2>2
<1>10. cd \in Dirs(dim)
  BY <1>2, <1>3
<1> QED BY <1>1, <1>3, <1>6, <1>7, <1>8, <1>9, <1>10

\* The tensor indices get_face_space makes of those of a face.
FromFace(dim, face, face_n, fixed) ==
  {Inserted(Indexing(dim - 1)!FlatToTensor(i, face_n), dim, face, fixed) :
     i \in 0 .. Indexing(dim - 1)!FlatSize(face_n) - 1}

\* The tensor indices of a layer of a patch.
Layer(dim, face, n, fixed) ==
  {tensor \in [Dirs(dim) -> Int] : Indexing(dim)!InBox(tensor, n) /\ tensor[ConstantDirection(face)] = fixed}

\* The tensor indices get_face_space makes of those of the face are those of the
\* patch with the fixed index in the constant direction.
LEMMA FaceLayer ==
  ASSUME NEW dim \in Nat, dim > 1, NEW face \in 0 .. 2 * dim - 1,
         NEW n \in [Dirs(dim) -> Nat \ {0}],
         NEW fixed \in Nat, fixed < n[ConstantDirection(face)],
         NEW face_n, face_n = [j \in 0 .. dim - 2 |-> n[ActiveDirections(dim, face)[j]]]
  PROVE  FromFace(dim, face, face_n, fixed) = Layer(dim, face, n, fixed)
<1>1. PICK cd, active : cd = ConstantDirection(face) /\ active = ActiveDirections(dim, face)
  OBVIOUS
<1>2. PICK low : low = dim - 1
  OBVIOUS
<1>3. /\ low \in Nat \ {0}
      /\ cd \in Dirs(dim)
      /\ active \in [Dirs(low) -> Dirs(dim)]
      /\ \A j \in Dirs(low) : active[j] # cd
      /\ \A i, j \in Dirs(low) : active[i] = active[j] => i = j
      /\ \A d \in Dirs(dim) : d # cd => \E j \in Dirs(low) : active[j] = d
  BY <1>1, <1>2, ActiveDirectionsOfFace
<1>4. Dirs(low) = 0 .. dim - 2
  BY <1>2 DEF Dirs
<1>5. face_n = [j \in Dirs(low) |-> n[active[j]]]
  BY <1>1, <1>4
<1>6. face_n \in [Dirs(low) -> Nat \ {0}]
  BY <1>3, <1>5
<1> DEFINE Place(d) == CHOOSE j \in Dirs(low) : active[j] = d
<1>7. \A d \in Dirs(dim) : d # cd => Place(d) \in Dirs(low) /\ active[Place(d)] = d
  BY <1>3
<1> HIDE DEF Place
<1>8. ASSUME NEW f
      PROVE  Inserted(f, dim, face, fixed) = [d \in Dirs(dim) |-> IF d = cd THEN fixed ELSE f[Place(d)]]
  <2>1. Dirs(dim) = 0 .. dim - 1
    BY DEF Dirs
  <2> QED BY <1>1, <1>4, <2>1 DEF Inserted, Place
<1>9. ASSUME NEW tensor, NEW i \in 0 .. Indexing(low)!FlatSize(face_n) - 1,
             tensor = Inserted(Indexing(low)!FlatToTensor(i, face_n), dim, face, fixed)
      PROVE  tensor \in [Dirs(dim) -> Int] /\ Indexing(dim)!InBox(tensor, n) /\ tensor[cd] = fixed
  <2>1. PICK f : f = Indexing(low)!FlatToTensor(i, face_n)
    OBVIOUS
  <2>2. f \in [Dirs(low) -> Nat] /\ Indexing(low)!InBox(f, face_n)
    BY <1>3, <1>6, <2>1, FlatRoundTrip
  <2>3. \A j \in Dirs(low) : f[j] \in Nat /\ f[j] < n[active[j]]
    BY <1>5, <2>2 DEF Indexing!InBox, Indexing!Dir, Dirs
  <2>4. tensor = [d \in Dirs(dim) |-> IF d = cd THEN fixed ELSE f[Place(d)]]
    <3>1. tensor = Inserted(f, dim, face, fixed)
      BY <1>9, <2>1
    <3> QED BY <1>8, <3>1
  <2>5. ASSUME NEW d \in Dirs(dim)
        PROVE  tensor[d] \in Nat /\ tensor[d] < n[d]
    <3>1. CASE d = cd
      BY <1>1, <2>4, <3>1
    <3>2. CASE d # cd
      <4>1. tensor[d] = f[Place(d)]
        BY <2>4, <3>2
      <4> QED BY <1>7, <2>3, <3>2, <4>1
    <3> QED BY <3>1, <3>2
  <2>6. tensor \in [Dirs(dim) -> Int] /\ tensor[cd] = fixed
    BY <1>3, <2>4, <2>5
  <2>7. Indexing(dim)!InBox(tensor, n)
    BY <2>5 DEF Indexing!InBox, Indexing!Dir, Dirs
  <2> QED BY <2>6, <2>7
<1>10. ASSUME NEW tensor, tensor \in [Dirs(dim) -> Int], Indexing(dim)!InBox(tensor, n), tensor[cd] = fixed
       PROVE  \E i \in 0 .. Indexing(low)!FlatSize(face_n) - 1 :
                tensor = Inserted(Indexing(low)!FlatToTensor(i, face_n), dim, face, fixed)
  <2>1. PICK f : f = [j \in Dirs(low) |-> tensor[active[j]]]
    OBVIOUS
  <2>2. \A d \in Dirs(dim) : 0 <= tensor[d] /\ tensor[d] < n[d]
    BY <1>10 DEF Indexing!InBox, Indexing!Dir, Dirs
  <2>3. f \in [Dirs(low) -> Int] /\ \A j \in Dirs(low) : 0 <= f[j] /\ f[j] < face_n[j]
    BY <1>3, <1>5, <1>10, <2>1, <2>2
  <2>4. Indexing(low)!InBox(f, face_n)
    BY <2>3 DEF Indexing!InBox, Indexing!Dir, Dirs
  <2>5. PICK i : i = Indexing(low)!TensorToFlat(f, face_n)
    OBVIOUS
  <2>6. i \in 0 .. Indexing(low)!FlatSize(face_n) - 1 /\ Indexing(low)!FlatToTensor(i, face_n) = f
    BY <1>3, <1>6, <2>3, <2>4, <2>5, TensorRoundTrip
  <2>7. tensor = [d \in Dirs(dim) |-> IF d = cd THEN fixed ELSE f[Place(d)]]
    <3>1. \A d \in Dirs(dim) : d # cd => f[Place(d)] = tensor[d]
      BY <1>7, <2>1
    <3>2. \A d \in Dirs(dim) : tensor[d] = IF d = cd THEN fixed ELSE f[Place(d)]
      BY <1>10, <3>1
    <3>3. tensor = [d \in Dirs(dim) |-> tensor[d]]
      BY <1>10
    <3> QED BY <3>2, <3>3
  <2>8. tensor = Inserted(f, dim, face, fixed)
    BY <1>8, <2>7
  <2> QED BY <2>6, <2>8
<1>11. \A tensor : tensor \in FromFace(dim, face, face_n, fixed) <=> tensor \in Layer(dim, face, n, fixed)
  BY <1>1, <1>2, <1>9, <1>10 DEF FromFace, Layer
<1> QED BY <1>11

-----------------------------------------------------------------------------
(* The functions of a table, by place.                                       *)

\* A place is a component and a tensor index in its box.
LEMMA PlacesInBox ==
  ASSUME NEW t, ShapeOK(Shape[t]), NEW pl
  PROVE  pl \in Places(t) <=> \E c \in Comps(Shape[t]) : \E tensor :
                                InBoxOf(Shape[t], c, tensor) /\ pl = [comp |-> c, tensor |-> tensor]
<1>1. PICK shape : shape = Shape[t]
  OBVIOUS
<1>2. pl \in Places(t) <=> \E c \in Comps(shape) : \E i \in 0 .. FlatSizeOf(shape, c) - 1 :
                             pl = [comp |-> c, tensor |-> Indexing(shape.dim)!FlatToTensor(i, shape.n_basis[c])]
  BY <1>1 DEF Places
<1>3. ASSUME NEW c \in Comps(shape), NEW i \in 0 .. FlatSizeOf(shape, c) - 1
      PROVE  InBoxOf(shape, c, Indexing(shape.dim)!FlatToTensor(i, shape.n_basis[c]))
  <2>1. PICK dim, n, tensor : dim = shape.dim /\ n = shape.n_basis[c] /\ tensor = Indexing(dim)!FlatToTensor(i, n)
    OBVIOUS
  <2>2. dim \in Nat \ {0} /\ n \in [Dirs(dim) -> Nat \ {0}] /\ i \in 0 .. Indexing(dim)!FlatSize(n) - 1
    BY <1>1, <2>1, CompsCounted DEF FlatSizeOf
  <2>3. tensor \in [Dirs(dim) -> Nat] /\ Indexing(dim)!InBox(tensor, n)
    BY <2>1, <2>2, FlatRoundTrip
  <2>4. tensor \in [Dirs(dim) -> Int]
    BY <2>3
  <2> QED BY <2>1, <2>3, <2>4 DEF InBoxOf
<1>4. ASSUME NEW c \in Comps(shape), NEW tensor, InBoxOf(shape, c, tensor)
      PROVE  \E i \in 0 .. FlatSizeOf(shape, c) - 1 : tensor = Indexing(shape.dim)!FlatToTensor(i, shape.n_basis[c])
  <2>1. PICK dim, n : dim = shape.dim /\ n = shape.n_basis[c]
    OBVIOUS
  <2>2. dim \in Nat \ {0} /\ n \in [Dirs(dim) -> Nat \ {0}]
    BY <1>1, <2>1, CompsCounted
  <2>3. PICK i : i = Indexing(dim)!TensorToFlat(tensor, n)
    OBVIOUS
  <2>4. i \in 0 .. Indexing(dim)!FlatSize(n) - 1 /\ Indexing(dim)!FlatToTensor(i, n) = tensor
    BY <1>4, <2>1, <2>2, <2>3, TensorRoundTrip DEF InBoxOf
  <2> QED BY <2>1, <2>4 DEF FlatSizeOf
<1> QED BY <1>1, <1>2, <1>3, <1>4

\* The first or the last index of the constant direction.
Outermost(n, face) == IF face % 2 = 0 THEN 0 ELSE n[ConstantDirection(face)] - 1

\* The fixed index is the first or the last of its direction.
LEMMA FixedIndexInside ==
  ASSUME NEW shape, ShapeOK(shape), shape.dim > 1, NEW face \in 0 .. 2 * shape.dim - 1, NEW c \in Comps(shape)
  PROVE  /\ shape.n_basis[c] \in [Dirs(shape.dim) -> Nat \ {0}]
         /\ FixedIndex(shape.n_basis[c], face) = Outermost(shape.n_basis[c], face)
         /\ FixedIndex(shape.n_basis[c], face) \in Nat
         /\ FixedIndex(shape.n_basis[c], face) < shape.n_basis[c][ConstantDirection(face)]
<1>1. PICK dim, n : dim = shape.dim /\ n = shape.n_basis[c]
  OBVIOUS
<1>2. dim \in Nat /\ n \in [Dirs(dim) -> Nat \ {0}]
  BY <1>1, CompsCounted
<1>3. ConstantDirection(face) \in Dirs(dim)
  BY <1>1, <1>2, ActiveDirectionsOfFace
<1>4. PICK k : k = n[ConstantDirection(face)]
  OBVIOUS
<1>5. k \in Nat \ {0}
  BY <1>2, <1>3, <1>4
<1>6. FixedIndex(n, face) = (face % 2) * (k - 1)
  BY <1>4 DEF FixedIndex
<1>7. face % 2 = 0 \/ face % 2 = 1
  <2>1. face \in Nat
    BY <1>1, <1>2
  <2> QED BY <2>1
<1>8. CASE face % 2 = 0
  BY <1>1, <1>2, <1>4, <1>5, <1>6, <1>8 DEF Outermost
<1>9. CASE face % 2 = 1
  BY <1>1, <1>2, <1>4, <1>5, <1>6, <1>9 DEF Outermost
<1> QED BY <1>7, <1>8, <1>9

\* What get_face_space makes of the tensor indices of a face, for a component.
LEMMA LayerOfComp ==
  ASSUME NEW shape, ShapeOK(shape), shape.dim > 1, NEW face \in 0 .. 2 * shape.dim - 1, NEW c \in Comps(shape)
  PROVE  FromFace(shape.dim, face, [j \in 0 .. shape.dim - 2 |-> shape.n_basis[c][ActiveDirections(shape.dim, face)[j]]],
                  FixedIndex(shape.n_basis[c], face))
           = Layer(shape.dim, face, shape.n_basis[c], Outermost(shape.n_basis[c], face))
<1>1. PICK dim, n : dim = shape.dim /\ n = shape.n_basis[c]
  OBVIOUS
<1>2. PICK fixed : fixed = FixedIndex(n, face)
  OBVIOUS
<1>3. PICK face_n : face_n = [j \in 0 .. dim - 2 |-> n[ActiveDirections(dim, face)[j]]]
  OBVIOUS
<1>4. dim \in Nat /\ dim > 1 /\ face \in 0 .. 2 * dim - 1
  BY <1>1 DEF ShapeOK
<1>5. /\ n \in [Dirs(dim) -> Nat \ {0}] /\ fixed \in Nat /\ fixed < n[ConstantDirection(face)]
      /\ fixed = Outermost(n, face)
  BY <1>1, <1>2, FixedIndexInside
<1>6. FromFace(dim, face, face_n, fixed) = Layer(dim, face, n, fixed)
  BY <1>3, <1>4, <1>5, FaceLayer
<1> QED BY <1>1, <1>2, <1>3, <1>5, <1>6

\* The dofs a face space gives a patch are those of the functions that do not
\* vanish on the face, under the ids they have.
LEMMA FaceDofsAreOnFace ==
  ASSUME SpaceManagerAssumption, MultiPatchAssumption, NEW side \in Sides
  PROVE  FaceDofs(side[1], side[2]) = Ids(side[1], OnFace[TableOf[side[1]]][side[2]])
<1>1. PICK s, face, t, shape : s = side[1] /\ face = side[2] /\ t = TableOf[s] /\ shape = Shape[t]
  OBVIOUS
<1>2. PICK dim : dim = shape.dim
  OBVIOUS
<1>3. s \in Patch /\ face \in 0 .. 2 * dim - 1
  BY <1>1, <1>2 DEF Sides, MultiPatchAssumption
<1>4. t \in Table
  BY <1>1, <1>3 DEF MultiPatchAssumption, SpaceManagerAssumption
<1>5. ShapeOK(shape) /\ dim > 1
  BY <1>1, <1>2, <1>3, <1>4 DEF MultiPatchAssumption
<1>6. dim \in Nat
  BY <1>2, <1>5 DEF ShapeOK
<1> DEFINE LayerOf(c) == Layer(dim, face, shape.n_basis[c], Outermost(shape.n_basis[c], face))
           FaceSizes(c) == [j \in 0 .. dim - 2 |-> shape.n_basis[c][ActiveDirections(dim, face)[j]]]
           Inner(c) == FromFace(dim, face, FaceSizes(c), FixedIndex(shape.n_basis[c], face))
<1>7. \A c \in Comps(shape) : Inner(c) = LayerOf(c)
  BY <1>2, <1>3, <1>5, LayerOfComp
<1>9. FaceDofs(s, face) = UNION {{index_table[t][LocalDof(shape, c, tensor)] : tensor \in Inner(c)} : c \in Comps(shape)}
  <2> DEFINE Last(c) == Indexing(dim - 1)!FlatSize(FaceSizes(c)) - 1
             Tensor(c, i) == Inserted(Indexing(dim - 1)!FlatToTensor(i, FaceSizes(c)), dim, face,
                                      FixedIndex(shape.n_basis[c], face))
  <2>1. FaceDofs(s, face) = UNION {{index_table[t][LocalDof(shape, c, Tensor(c, i))] : i \in 0 .. Last(c)} : c \in Comps(shape)}
    BY <1>1, <1>2 DEF FaceDofs
  <2>2. \A c : Inner(c) = {Tensor(c, i) : i \in 0 .. Last(c)}
    BY DEF FromFace
  <2> HIDE DEF Last, Tensor, Inner
  <2> QED BY <2>1, <2>2
<1> HIDE DEF LayerOf, Inner, FaceSizes
<1>10. \A x : x \in FaceDofs(s, face) <=>
         \E c \in Comps(shape) : \E tensor \in LayerOf(c) : x = index_table[t][LocalDof(shape, c, tensor)]
  BY <1>7, <1>9
<1>11. \A j : j \in OnFace[t][face] <=>
         \E c \in Comps(shape) : \E tensor \in LayerOf(c) : j = LocalDof(shape, c, tensor)
  <2> DEFINE Outer(pl) == LET d == face \div 2
                          IN  pl.tensor[d] = IF face % 2 = 0 THEN 0 ELSE shape.n_basis[pl.comp][d] - 1
  <2>1. OnFace[t][face] = {LocalDof(shape, pl.comp, pl.tensor) : pl \in {pl \in Places(t) : Outer(pl)}}
    BY <1>1, <1>2, <1>3, <1>4, SMTT(30) DEF OnFace
  <2>2. ASSUME NEW c \in Comps(shape), NEW tensor
        PROVE  InBoxOf(shape, c, tensor) /\ Outer([comp |-> c, tensor |-> tensor]) <=> tensor \in LayerOf(c)
    BY <1>2 DEF InBoxOf, LayerOf, Layer, Outermost, ConstantDirection
  <2> HIDE DEF Outer
  <2>3. \A pl : pl \in Places(t) <=> \E c \in Comps(shape) : \E tensor :
                  InBoxOf(shape, c, tensor) /\ pl = [comp |-> c, tensor |-> tensor]
    BY <1>1, <1>5, PlacesInBox
  <2>4. ASSUME NEW pl \in Places(t), Outer(pl)
        PROVE  \E c \in Comps(shape) : \E tensor \in LayerOf(c) :
                 LocalDof(shape, pl.comp, pl.tensor) = LocalDof(shape, c, tensor)
    <3>1a. PICK c \in Comps(shape) : \E tensor : InBoxOf(shape, c, tensor) /\ pl = [comp |-> c, tensor |-> tensor]
      BY <2>3
    <3>1. PICK tensor : InBoxOf(shape, c, tensor) /\ pl = [comp |-> c, tensor |-> tensor]
      BY <3>1a
    <3>2. tensor \in LayerOf(c)
      BY <2>2, <2>4, <3>1
    <3> QED BY <3>1, <3>2
  <2>5. ASSUME NEW c \in Comps(shape), NEW tensor \in LayerOf(c)
        PROVE  LocalDof(shape, c, tensor) \in OnFace[t][face]
    <3>1. PICK pl : pl = [comp |-> c, tensor |-> tensor]
      OBVIOUS
    <3>2. pl \in Places(t) /\ Outer(pl)
      BY <2>2, <2>3, <3>1
    <3>3. LocalDof(shape, pl.comp, pl.tensor) \in OnFace[t][face]
      BY <2>1, <3>2
    <3> QED BY <3>1, <3>3
  <2> QED BY <2>1, <2>4, <2>5
<1>12. \A x : x \in Ids(s, OnFace[t][face]) <=> \E j \in OnFace[t][face] : x = index_table[t][j]
  BY <1>1 DEF Ids
<1>13. \A x : x \in FaceDofs(s, face) <=> x \in Ids(s, OnFace[t][face])
  BY <1>10, <1>11, <1>12
<1>14. FaceDofs(s, face) = Ids(s, OnFace[t][face])
  <2> DEFINE A == FaceDofs(s, face)
             B == Ids(s, OnFace[t][face])
  <2>1. \A x : x \in A <=> x \in B
    BY <1>13
  <2> HIDE DEF A, B
  <2> A = B
    BY <2>1
  <2> QED BY DEF A, B
<1> QED BY <1>1, <1>14

\* The elements a function lives on are those whose view has it.
LEMMA SupportLives ==
  ASSUME NEW t, ShapeOK(Shape[t]), NEW c \in Comps(Shape[t]), NEW tensor, InBoxOf(Shape[t], c, tensor), NEW e
  PROVE  e \in Support(t, [comp |-> c, tensor |-> tensor])
           <=> e \in ElementsOf(Shape[t]) /\ LivesOn(Shape[t], c, tensor, e)
<1>1. ASSUME e \in ElementsOf(Shape[t])
      PROVE  DOMAIN e = Dirs(Shape[t].dim)
  BY <1>1, ElementInside
<1> QED BY <1>1 DEF Support, LivesOn

\* The pairs of functions that share an element are those that overlap.
LEMMA ElementPairsOverlap ==
  ASSUME NEW t \in Table, ShapeOK(Shape[t]), NEW i, NEW j
  PROVE  <<i, j>> \in Overlaps[t]
           <=> \E e \in ElementsOf(Shape[t]) : i \in ElementView(Shape[t], e) /\ j \in ElementView(Shape[t], e)
<1>1. PICK shape : shape = Shape[t]
  OBVIOUS
<1> DEFINE Local(pl) == LocalDof(shape, pl.comp, pl.tensor)
           support == [pl \in Places(t) |-> Support(t, pl)]
<1>2. Overlaps[t] = {<<Local(pq[1]), Local(pq[2])>> : pq \in {pq \in Places(t) \X Places(t) :
                       support[pq[1]] \cap support[pq[2]] # {}}}
  BY <1>1 DEF Overlaps
<1>3. <<i, j>> \in Overlaps[t] <=> \E pl, ql \in Places(t) : /\ i = Local(pl) /\ j = Local(ql)
                                                         /\ \E e : e \in Support(t, pl) /\ e \in Support(t, ql)
  <2>1. ASSUME <<i, j>> \in Overlaps[t]
        PROVE  \E pl, ql \in Places(t) : /\ i = Local(pl) /\ j = Local(ql)
                                         /\ \E e : e \in Support(t, pl) /\ e \in Support(t, ql)
    <3>1. PICK pq \in Places(t) \X Places(t) : /\ support[pq[1]] \cap support[pq[2]] # {}
                                              /\ <<i, j>> = <<Local(pq[1]), Local(pq[2])>>
      BY <1>2, <2>1
    <3>2. pq[1] \in Places(t) /\ pq[2] \in Places(t)
      OBVIOUS
    <3>3. \E e : e \in Support(t, pq[1]) /\ e \in Support(t, pq[2])
      BY <3>1, <3>2
    <3>4. i = Local(pq[1]) /\ j = Local(pq[2])
      BY <3>1
    <3> QED BY <3>2, <3>3, <3>4
  <2>2. ASSUME NEW pl \in Places(t), NEW ql \in Places(t), i = Local(pl), j = Local(ql),
               NEW e, e \in Support(t, pl), e \in Support(t, ql)
        PROVE  <<i, j>> \in Overlaps[t]
    <3>1. PICK pq : pq = <<pl, ql>>
      OBVIOUS
    <3>2. pq \in Places(t) \X Places(t) /\ pq[1] = pl /\ pq[2] = ql
      BY <3>1
    <3>3. support[pq[1]] \cap support[pq[2]] # {}
      BY <2>2, <3>2
    <3>4. <<Local(pq[1]), Local(pq[2])>> \in Overlaps[t]
      BY <1>2, <3>2, <3>3
    <3> QED BY <2>2, <3>2, <3>4
  <2> QED BY <2>1, <2>2
<1>4. \A k, e : e \in ElementsOf(shape) =>
        (k \in ElementView(shape, e) <=> \E c \in Comps(shape) : \E tensor : LivesOn(shape, c, tensor, e) /\ k = LocalDof(shape, c, tensor))
  BY <1>1, ElementViewExact
<1>5. \A k, e : (\E pl \in Places(t) : k = Local(pl) /\ e \in Support(t, pl))
                  <=> e \in ElementsOf(shape) /\ k \in ElementView(shape, e)
  <2>1. ASSUME NEW k, NEW e, NEW pl \in Places(t), k = Local(pl), e \in Support(t, pl)
        PROVE  e \in ElementsOf(shape) /\ k \in ElementView(shape, e)
    <3>1a. PICK c \in Comps(shape) : \E tensor : InBoxOf(shape, c, tensor) /\ pl = [comp |-> c, tensor |-> tensor]
      BY <1>1, PlacesInBox
    <3>1. PICK tensor : InBoxOf(shape, c, tensor) /\ pl = [comp |-> c, tensor |-> tensor]
      BY <3>1a
    <3>2. e \in ElementsOf(shape) /\ LivesOn(shape, c, tensor, e)
      BY <1>1, <2>1, <3>1, SupportLives
    <3>3. k = LocalDof(shape, c, tensor)
      BY <2>1, <3>1
    <3> QED BY <1>4, <3>2, <3>3
  <2>2. ASSUME NEW k, NEW e \in ElementsOf(shape), k \in ElementView(shape, e)
        PROVE  \E pl \in Places(t) : k = Local(pl) /\ e \in Support(t, pl)
    <3>1a. PICK c \in Comps(shape) : \E tensor : LivesOn(shape, c, tensor, e) /\ k = LocalDof(shape, c, tensor)
      BY <1>4, <2>2
    <3>1. PICK tensor : LivesOn(shape, c, tensor, e) /\ k = LocalDof(shape, c, tensor)
      BY <3>1a
    <3>2. InBoxOf(shape, c, tensor)
      BY <3>1 DEF LivesOn
    <3>3. PICK pl : pl = [comp |-> c, tensor |-> tensor]
      OBVIOUS
    <3>4. pl \in Places(t)
      BY <1>1, <3>2, <3>3, PlacesInBox
    <3>5. e \in Support(t, pl)
      BY <1>1, <2>2, <3>1, <3>2, <3>3, SupportLives
    <3> QED BY <3>1, <3>3, <3>4, <3>5
  <2> QED BY <2>1, <2>2
<1> HIDE DEF Local, support
<1>6. <<i, j>> \in Overlaps[t] <=> \E e : /\ \E pl \in Places(t) : i = Local(pl) /\ e \in Support(t, pl)
                                        /\ \E ql \in Places(t) : j = Local(ql) /\ e \in Support(t, ql)
  BY <1>3
<1> QED BY <1>1, <1>5, <1>6

\* The pairs of a space are those of its elements.
LEMMA PairsOfElements ==
  ASSUME NEW s, NEW x
  PROVE  x \in ElementPairs(s)
           <=> \E v \in Elements[TableOf[s]] : \E i, j \in v : x = <<index_table[TableOf[s]][i], index_table[TableOf[s]][j]>>
<1>1. PICK table : table = index_table[TableOf[s]]
  OBVIOUS
<1>2. x \in ElementPairs(s) <=> \E v \in Elements[TableOf[s]] : x \in {<<table[i], table[j]>> : i, j \in v}
  BY <1>1 DEF ElementPairs
<1>3. \A v : x \in {<<table[i], table[j]>> : i, j \in v} <=> \E i, j \in v : x = <<table[i], table[j]>>
  OBVIOUS
<1> QED BY <1>1, <1>2, <1>3

\* The pattern of the elements of a patch is that of its overlapping functions.
LEMMA PatternOfPatch ==
  ASSUME SpaceManagerAssumption, MultiPatchAssumption, NEW p \in Space
  PROVE  ElementPairs(p)
           = {<<index_table[TableOf[p]][ij[1]], index_table[TableOf[p]][ij[2]]>> : ij \in Overlaps[TableOf[p]]}
<1>1. PICK t, table : t = TableOf[p] /\ table = index_table[t]
  OBVIOUS
<1>2. t \in Table
  BY <1>1 DEF SpaceManagerAssumption
<1>3. ShapeOK(Shape[t]) /\ Elements[t] = {ElementView(Shape[t], e) : e \in ElementsOf(Shape[t])}
  BY <1>2 DEF MultiPatchAssumption
<1> DEFINE Pattern == {<<table[ij[1]], table[ij[2]]>> : ij \in Overlaps[t]}
<1>4. \A x : x \in ElementPairs(p) <=> \E v \in Elements[t] : \E i, j \in v : x = <<table[i], table[j]>>
  BY <1>1, PairsOfElements
<1>5. ASSUME NEW x \in ElementPairs(p)
      PROVE  x \in Pattern
  <2>1. PICK v \in Elements[t] : \E i, j \in v : x = <<table[i], table[j]>>
    BY <1>4
  <2>2. PICK i \in v, j \in v : x = <<table[i], table[j]>>
    BY <2>1
  <2>3. PICK e \in ElementsOf(Shape[t]) : v = ElementView(Shape[t], e)
    BY <1>3
  <2>4. <<i, j>> \in Overlaps[t]
    BY <1>2, <1>3, <2>3, ElementPairsOverlap
  <2> QED BY <2>2, <2>4
<1>6. ASSUME NEW x \in Pattern
      PROVE  x \in ElementPairs(p)
  <2>1. PICK ij \in Overlaps[t] : x = <<table[ij[1]], table[ij[2]]>>
    BY <1>6
  <2>2. PICK i, j : ij = <<i, j>>
    <3>1. \A o \in Overlaps[t] : o = <<o[1], o[2]>>
      BY <1>2 DEF Overlaps
    <3> QED BY <3>1
  <2>3. PICK e \in ElementsOf(Shape[t]) : i \in ElementView(Shape[t], e) /\ j \in ElementView(Shape[t], e)
    BY <1>2, <1>3, <2>2, ElementPairsOverlap
  <2>4. PICK v : v = ElementView(Shape[t], e)
    OBVIOUS
  <2>5. v \in Elements[t] /\ i \in v /\ j \in v
    BY <1>3, <2>3, <2>4
  <2>6. x = <<table[i], table[j]>>
    BY <2>1, <2>2
  <2> QED BY <1>4, <2>5, <2>6
<1> HIDE DEF Pattern
<1>7. ElementPairs(p) = Pattern
  BY <1>5, <1>6
<1> QED BY <1>1, <1>7 DEF Pattern

-----------------------------------------------------------------------------
(* The inductive invariant of the coupled system.  What a call in progress   *)
(* has still to do is in todo; the blocks, the face pairs and the            *)
(* constraints of the interfaces are there or still to be made.              *)

\* The calls still to be made, with this name.
Pending(name) == {c \in {todo[i] : i \in 1 .. Len(todo)} : c.call = name}

\* A call gathers spaces, then numbers them, then makes blocks, then the rest.
Stage(c) ==
  IF c.call \in {"spaces_insertion_open", "add_space"} THEN 1
  ELSE IF c.call = "spaces_insertion_close" THEN 2
  ELSE IF c.call \in {"spaces_connectivity_open", "add_spaces_connection", "spaces_connectivity_close"} THEN 3
  ELSE 4

CallsInOrder ==
  \A i, j \in 1 .. Len(todo) :
    i < j => /\ Stage(todo[i]) <= Stage(todo[j])
             /\ todo[i].call = "connect_face" /\ todo[j].call = "connect_face" =>
                  todo[i].side[1] # todo[j].side[1]
             /\ ~(todo[i].call = "add_linear_constraints" /\ todo[j].call = "add_linear_constraints")

\* Face pairs and constraints are those of a mortar interface.
CallsOfInterfaces ==
  /\ \A c \in Pending("connect_face") : \E i \in AllInterfaces :
       c.multiplier \in i.multiplier /\ c.side \in {i.patch_and_side[1], i.patch_and_side[2]}
  /\ \A c \in Pending("add_linear_constraints") : \E i \in AllInterfaces :
       c.multiplier \in i.multiplier /\ c.sides = i.patch_and_side

\* They are made when every space has its ids.
NumbersFirst ==
  Pending("connect_face") # {} \/ Pending("add_linear_constraints") # {} =>
    /\ \A c \in Pending("spaces_insertion_close") : c.renumber
    /\ \/ Pending("spaces_insertion_close") # {}
       \/ Pending("add_space") = {} /\ (closing \/ spaces_with_original_dofs = << >>)

\* A multiplier space belongs to one interface.
MultipliersOnce ==
  \A i, j \in AllInterfaces : \A s \in i.multiplier :
    i.type = "Mortar" /\ (s \in j.multiplier => i = j)

\* Blocks are of spaces the manager has.
BlocksManaged ==
  /\ Blocks \subseteq AddedSpaces \X AddedSpaces
  /\ spaces_connections =
       [b \in Blocks |-> [use |-> spaces_connections[b].use, extra |-> spaces_connections[b].extra]]
  /\ extra_dofs_connectivity = {}

ClosedPatches ==
  UNION {Patches(m) : m \in {m \in MultiPatchSpaces :
           ~is_patch_insertion_open[m] \/ \E c \in Pending("patches_inserted") : c.of = m}}

BlocksOf(i) ==
  LET p == i.patch_and_side[1][1]
      q == i.patch_and_side[2][1]
  IN  IF i.multiplier = {} THEN {<<p, q>>, <<q, p>>}
      ELSE UNION {{<<p, s>>, <<s, p>>, <<q, s>>, <<s, q>>} : s \in i.multiplier}

\* The blocks are those of patches and interfaces.
BlocksExpected ==
  Blocks \cup {<<c.row, c.col>> : c \in Pending("add_spaces_connection")}
    = {<<p, p>> : p \in ClosedPatches} \cup UNION {BlocksOf(i) : i \in AllInterfaces}

\* The ones of patches, and no others, use the elements of their space.
PatchesUsed ==
  /\ \A b \in Blocks : spaces_connections[b].use <=> b[1] = b[2]
  /\ \A c \in Pending("add_spaces_connection") : c.use <=> c.row = c.col

Extra(r, c) == IF <<r, c>> \in Blocks THEN spaces_connections[<<r, c>>].extra ELSE {}

\* The pairs of patches are those of their elements.
PatchesPlain == \A p, q \in Patch : Extra(p, q) = {}

\* A multiplier and a face, with no pairs yet, with those of one block, and with
\* those of both blocks.
FacePairs(side, s) == FaceDofs(side[1], side[2]) \X GlobalDofs(s)
MultiplierPairs(side, s) == GlobalDofs(s) \X FaceDofs(side[1], side[2])

Connecting(side, s) ==
  /\ Extra(side[1], s) = {}
  /\ \/ Extra(s, side[1]) = {}
     \/ Extra(s, side[1]) = MultiplierPairs(side, s) /\ {s, side[1]} \subseteq RenumberedSpaces

Connected(side, s) ==
  /\ Extra(side[1], s) = FacePairs(side, s)
  /\ Extra(s, side[1]) = MultiplierPairs(side, s)
  /\ {s, side[1]} \subseteq RenumberedSpaces

\* The pairs of a multiplier and a face are all there, but for a call in progress.
FacesConnected ==
  \A i \in AllInterfaces, k \in {1, 2} : \A s \in i.multiplier :
    IF \E c \in Pending("connect_face") : c.side[1] = i.patch_and_side[k][1] /\ c.multiplier = s
    THEN Connecting(i.patch_and_side[k], s)
    ELSE Connected(i.patch_and_side[k], s)

\* The dofs of both faces of an interface.
BothFaces(sides) == UNION {FaceDofs(sides[k][1], sides[k][2]) : k \in {1, 2}}

\* An interface whose spaces have their ids.
Numbered(i) == {i.patch_and_side[1][1], i.patch_and_side[2][1]} \cup i.multiplier \subseteq RenumberedSpaces

\* Linear constraints are those of multipliers of interfaces.
ConstraintsOfMortars ==
  \A l \in linear_constraints : \E i \in AllInterfaces : \E s \in i.multiplier :
    Numbered(i) /\ l[1] \in GlobalDofs(s) /\ l = <<l[1], BothFaces(i.patch_and_side)>>

\* All multipliers are constrained, but for those of a call in progress ...
MultipliersConstrained ==
  \A i \in AllInterfaces : \A s \in i.multiplier :
    (\A c \in Pending("add_linear_constraints") : c.multiplier # s) =>
      /\ Numbered(i)
      /\ \A d \in GlobalDofs(s) : <<d, BothFaces(i.patch_and_side)>> \in linear_constraints

\* ... which has at least one left.
OneLeft ==
  \A c \in Pending("add_linear_constraints") :
    c.multiplier \in RenumberedSpaces =>
      \E d \in GlobalDofs(c.multiplier) : \A l \in linear_constraints : l[1] # d

CouplingInv ==
  /\ CallsInOrder /\ CallsOfInterfaces /\ NumbersFirst /\ MultipliersOnce
  /\ BlocksManaged /\ BlocksExpected /\ PatchesUsed /\ PatchesPlain
  /\ FacesConnected
  /\ ConstraintsOfMortars /\ MultipliersConstrained /\ OneLeft

-----------------------------------------------------------------------------
(* The calls left, when one is made.                                         *)

\* The first call is of the earliest stage of all.
LEMMA HeadFirst ==
  ASSUME MultiPatchTypeOK, CallsInOrder, todo # << >>
  PROVE  /\ Head(todo) \in Pending(Head(todo).call)
         /\ \A name : \A c \in Pending(name) : Stage(Head(todo)) <= Stage(c) \/ c = Head(todo)
         /\ Head(todo).call = "add_linear_constraints" => Pending("add_linear_constraints") = {Head(todo)}
<1>1. Len(todo) \in Nat /\ Len(todo) > 0 /\ Head(todo) = todo[1]
  BY DEF MultiPatchTypeOK
<1>2. 1 \in 1 .. Len(todo)
  BY <1>1
<1>3. Head(todo) \in Pending(Head(todo).call)
  BY <1>1, <1>2 DEF Pending
<1>4. ASSUME NEW i \in 1 .. Len(todo), i # 1
      PROVE  /\ Stage(Head(todo)) <= Stage(todo[i])
             /\ ~(Head(todo).call = "add_linear_constraints" /\ todo[i].call = "add_linear_constraints")
  <2>1. 1 < i
    BY <1>1, <1>4
  <2> QED BY <1>1, <1>2, <2>1 DEF CallsInOrder
<1>5. \A name : \A c \in Pending(name) : Stage(Head(todo)) <= Stage(c) \/ c = Head(todo)
  BY <1>1, <1>4 DEF Pending
<1>6. Head(todo).call = "add_linear_constraints" => Pending("add_linear_constraints") = {Head(todo)}
  <2>1. ASSUME Head(todo).call = "add_linear_constraints", NEW c \in Pending("add_linear_constraints")
        PROVE  c = Head(todo)
    <3>1. PICK i \in 1 .. Len(todo) : c = todo[i] /\ c.call = "add_linear_constraints"
      BY DEF Pending
    <3> QED BY <1>1, <1>4, <2>1, <3>1
  <2> QED BY <1>3, <2>1
<1> QED BY <1>3, <1>5, <1>6

\* What is pending once the first call is made.
LEMMA Popped ==
  ASSUME MultiPatchTypeOK, CallsInOrder, todo # << >>, todo' = Tail(todo)
  PROVE  /\ CallsInOrder'
         /\ \A name : Pending(name)' \subseteq Pending(name)
         /\ \A name : Pending(name) \subseteq Pending(name)' \cup {Head(todo)}
         /\ \A name : name # Head(todo).call => Pending(name)' = Pending(name)
         /\ Head(todo).call = "connect_face" =>
              \A c \in Pending("connect_face")' : c.side[1] # Head(todo).side[1]
         /\ Head(todo).call = "add_linear_constraints" => Pending("add_linear_constraints")' = {}
<1>1. PICK n \in Nat : n = Len(todo) /\ n > 0
  BY DEF MultiPatchTypeOK
<1>2. /\ Len(todo') = n - 1
      /\ \A i \in 1 .. n - 1 : todo'[i] = todo[i + 1]
      /\ Head(todo) = todo[1]
  BY <1>1 DEF MultiPatchTypeOK
<1>3. \A i \in 1 .. n - 1 : i + 1 \in 1 .. n /\ 1 < i + 1
  BY <1>1
<1>4. \A i \in 1 .. n : i = 1 \/ (i - 1 \in 1 .. n - 1 /\ (i - 1) + 1 = i)
  BY <1>1
<1>5. CallsInOrder'
  <2>1. ASSUME NEW i \in 1 .. n - 1, NEW j \in 1 .. n - 1, i < j
        PROVE  /\ Stage(todo[i + 1]) <= Stage(todo[j + 1])
               /\ todo[i + 1].call = "connect_face" /\ todo[j + 1].call = "connect_face" =>
                    todo[i + 1].side[1] # todo[j + 1].side[1]
               /\ ~(todo[i + 1].call = "add_linear_constraints" /\ todo[j + 1].call = "add_linear_constraints")
    <3>1. i + 1 \in 1 .. n /\ j + 1 \in 1 .. n /\ i + 1 < j + 1
      BY <1>1, <2>1
    <3> QED BY <1>1, <3>1 DEF CallsInOrder
  <2> QED BY <1>2, <2>1 DEF CallsInOrder, Stage
<1>6. ASSUME NEW name
      PROVE  /\ Pending(name)' \subseteq Pending(name)
             /\ Pending(name) \subseteq Pending(name)' \cup {Head(todo)}
  <2>1. ASSUME NEW c \in Pending(name)'
        PROVE  c \in Pending(name)
    <3>1. PICK i \in 1 .. n - 1 : c = todo'[i] /\ c.call = name
      BY <1>2, <2>1 DEF Pending
    <3> QED BY <1>1, <1>2, <1>3, <3>1 DEF Pending
  <2>2. ASSUME NEW c \in Pending(name), c # Head(todo)
        PROVE  c \in Pending(name)'
    <3>1. PICK i \in 1 .. n : c = todo[i] /\ c.call = name
      BY <1>1 DEF Pending
    <3>2. i - 1 \in 1 .. n - 1 /\ todo'[i - 1] = c
      BY <1>2, <1>4, <2>2, <3>1
    <3> QED BY <1>2, <3>1, <3>2 DEF Pending
  <2> QED BY <2>1, <2>2
<1>7. \A name : \A c \in Pending(name) : c.call = name
  BY DEF Pending
<1>8. ASSUME NEW name, name # Head(todo).call
      PROVE  Pending(name)' = Pending(name)
  <2>1. Pending(name)' \subseteq Pending(name)
    BY <1>6
  <2>2. ASSUME NEW c \in Pending(name)
        PROVE  c \in Pending(name)'
    BY <1>6, <1>7, <1>8
  <2> QED BY <2>1, <2>2
<1>9. ASSUME NEW name, NEW c \in Pending(name)'
      PROVE  \E i \in 2 .. n : c = todo[i] /\ c.call = name
  <2>1. PICK i \in 1 .. n - 1 : c = todo'[i] /\ c.call = name
    BY <1>2, <1>9 DEF Pending
  <2>2. i + 1 \in 2 .. n
    BY <1>1
  <2> QED BY <1>2, <2>1, <2>2
<1>10. ASSUME Head(todo).call = "connect_face", NEW c \in Pending("connect_face")'
       PROVE  c.side[1] # Head(todo).side[1]
  <2>1. PICK i \in 2 .. n : c = todo[i] /\ c.call = "connect_face"
    BY <1>9
  <2>2. 1 \in 1 .. n /\ i \in 1 .. n /\ 1 < i
    BY <1>1
  <2>3. todo[1].side[1] # todo[i].side[1]
    BY <1>1, <1>2, <1>10, <2>1, <2>2 DEF CallsInOrder
  <2> QED BY <1>2, <2>1, <2>3
<1>11. ASSUME Head(todo).call = "add_linear_constraints", NEW c \in Pending("add_linear_constraints")'
       PROVE  FALSE
  <2>1. PICK i \in 2 .. n : c = todo[i] /\ c.call = "add_linear_constraints"
    BY <1>9
  <2>2. 1 \in 1 .. n /\ i \in 1 .. n /\ 1 < i
    BY <1>1
  <2> QED BY <1>1, <1>2, <1>11, <2>1, <2>2 DEF CallsInOrder
<1> QED BY <1>5, <1>6, <1>8, <1>10, <1>11

\* Nothing else is pending that the first call should have waited for.
LEMMA EarlierDone ==
  ASSUME MultiPatchTypeOK, CallsInOrder, todo # << >>
  PROVE  /\ Head(todo).call = "spaces_insertion_close" => Pending("add_space") = {}
         /\ Head(todo).call \in {"connect_face", "add_linear_constraints"} =>
              /\ Pending("add_space") = {}
              /\ Pending("spaces_insertion_close") = {}
              /\ Pending("add_spaces_connection") = {}
<1>1. \A name : \A c \in Pending(name) : c.call = name /\ (Stage(Head(todo)) <= Stage(c) \/ c = Head(todo))
  BY HeadFirst DEF Pending
<1>2. ASSUME NEW name, NEW c \in Pending(name)
      PROVE  /\ name = "add_space" => Stage(c) = 1
             /\ name = "spaces_insertion_close" => Stage(c) = 2
             /\ name = "add_spaces_connection" => Stage(c) = 3
  BY <1>1 DEF Stage
<1>3. /\ Head(todo).call = "spaces_insertion_close" => Stage(Head(todo)) = 2
      /\ Head(todo).call \in {"connect_face", "add_linear_constraints"} => Stage(Head(todo)) = 4
  BY DEF Stage
<1> QED BY <1>1, <1>2, <1>3

-----------------------------------------------------------------------------
(* What a step leaves alone.                                                 *)

\* Renumbered spaces keep their ids, and so do the faces of patches.
IdsStay ==
  /\ RenumberedSpaces \subseteq RenumberedSpaces'
  /\ \A r \in RenumberedSpaces :
       /\ GlobalDofs(r)' = GlobalDofs(r)
       /\ \A face : FaceDofs(r, face)' = FaceDofs(r, face)

\* The steps that change ids are those of the renumbering.
LEMMA StepsOfNumbering ==
  ASSUME SpaceManagerAssumption, MultiPatchAssumption, MultiPatchTypeOK, [MultiPatchNext]_mvars
  PROVE  UNCHANGED <<index_table, spaces_with_renumbered_dofs>> \/ RenumberSpace
<1>1. CASE UNCHANGED mvars
  BY <1>1 DEF mvars, vars, numbering_vars
<1>2. ASSUME NEW m \in MultiPatchSpaces,
             \/ PatchInsertionOpen(m)
             \/ \E p \in Patch : AddPatch(m, p)
             \/ \E renumber \in CloseArgs : PatchInsertionClose(m, renumber)
             \/ InterfaceInsertionOpen(m)
             \/ InterfaceInsertionClose(m)
             \/ \E type \in InterfaceTypes, c \in Contact : AddInterface(m, type, c)
             \/ \E c \in Contact : \E multiplier \in MultiplierFor[c] : AddInterfaceMortar(m, c, multiplier)
      PROVE  UNCHANGED <<index_table, spaces_with_renumbered_dofs>>
  <2>1. UNCHANGED vars
    BY <1>2, ClientTypes
  <2> QED BY <2>1 DEF vars, numbering_vars
<1>3. CASE Continue
  <2>1. CASE RenumberingDone \/ UNCHANGED vars
    BY <2>1 DEF RenumberingDone, numbering_vars, vars
  <2>2. CASE ManagerCall(Head(todo))
    BY <2>2 DEF ManagerCall, SpacesInsertionOpen, AddSpace, SpacesInsertionClose, SpacesConnectivityOpen,
                AddSpacesConnection, SpacesConnectivityClose, LinearConstraintsOpen, LinearConstraintsClose,
                numbering_vars
  <2>3. CASE ConnectFace(Head(todo)) \/ AddMortarConstraint(Head(todo))
    BY <2>3 DEF ConnectFace, AddBlockPairs, AddMortarConstraint, AddConstraintOn, numbering_vars
  <2> QED BY <1>3, <2>1, <2>2, <2>3 DEF Continue
<1> QED BY <1>1, <1>2, <1>3 DEF MultiPatchNext

\* No step changes the ids of renumbered spaces.
LEMMA StepsKeepIds ==
  ASSUME SpaceManagerAssumption, MultiPatchAssumption, TablesDistinct, MultiPatchTypeOK, IInv, [MultiPatchNext]_mvars
  PROVE  IdsStay
<1>1. CASE UNCHANGED <<index_table, spaces_with_renumbered_dofs>>
  BY <1>1 DEF IdsStay, RenumberedSpaces, SpacesIn, GlobalDofs, GlobalDofsOfTable, FaceDofs
<1>2. CASE RenumberSpace
  <2>1. PICK s : s = Head(spaces_with_original_dofs)
    OBVIOUS
  <2>2. ShiftedAbove(s)
    BY <1>2, <2>1, RenumberSpaceIInv
  <2>3. /\ SpacesIn(spaces_with_renumbered_dofs) \subseteq SpacesIn(spaces_with_renumbered_dofs)'
        /\ s \notin SpacesIn(spaces_with_renumbered_dofs)
        /\ \A r \in Space \ {s} : index_table'[TableOf[r]] = index_table[TableOf[r]]
    BY <2>2 DEF ShiftedAbove
  <2>4. SpacesIn(spaces_with_renumbered_dofs) \subseteq Space
    BY DEF IInv, NumberingTypeOK, SpacesIn
  <2>5. ASSUME NEW r \in RenumberedSpaces
        PROVE  /\ GlobalDofs(r)' = GlobalDofs(r)
               /\ \A face : FaceDofs(r, face)' = FaceDofs(r, face)
    <3>1. index_table'[TableOf[r]] = index_table[TableOf[r]]
      BY <2>3, <2>4 DEF RenumberedSpaces
    <3>2. GlobalDofs(r)' = GlobalDofs(r)
      BY <3>1 DEF GlobalDofs, GlobalDofsOfTable
    <3>3. ASSUME NEW face
          PROVE  FaceDofs(r, face)' = FaceDofs(r, face)
      BY <3>1 DEF FaceDofs
    <3> QED BY <3>2, <3>3
  <2> QED BY <2>3, <2>5 DEF IdsStay, RenumberedSpaces
<1> QED BY <1>1, <1>2, StepsOfNumbering

\* A connected face stays connected when its blocks stay.
LEMMA ConnectedStays ==
  ASSUME IdsStay, NEW side, NEW s,
         Extra(side[1], s)' = Extra(side[1], s), Extra(s, side[1])' = Extra(s, side[1])
  PROVE  /\ Connected(side, s) => Connected(side, s)'
         /\ Connecting(side, s) => Connecting(side, s)'
<1>1. ASSUME {s, side[1]} \subseteq RenumberedSpaces
      PROVE  /\ FacePairs(side, s)' = FacePairs(side, s)
             /\ MultiplierPairs(side, s)' = MultiplierPairs(side, s)
             /\ {s, side[1]} \subseteq RenumberedSpaces'
  <2>1. GlobalDofs(s)' = GlobalDofs(s) /\ FaceDofs(side[1], side[2])' = FaceDofs(side[1], side[2])
    BY <1>1 DEF IdsStay
  <2> QED BY <1>1, <2>1 DEF IdsStay, FacePairs, MultiplierPairs
<1>2. Connected(side, s) => Connected(side, s)'
  BY <1>1 DEF Connected
<1>3. Connecting(side, s) => Connecting(side, s)'
  BY <1>1 DEF Connecting
<1> QED BY <1>2, <1>3

\* Blocks that stay leave the faces connected.
LEMMA FacesStay ==
  ASSUME IdsStay, FacesConnected, UNCHANGED interfaces,
         \A r, c : Extra(r, c)' = Extra(r, c),
         Pending("connect_face")' = Pending("connect_face")
  PROVE  FacesConnected'
<1>1. AllInterfaces' = AllInterfaces
  BY DEF AllInterfaces
<1>2. ASSUME NEW i \in AllInterfaces, NEW k \in {1, 2}, NEW s \in i.multiplier
      PROVE  IF \E c \in Pending("connect_face") : c.side[1] = i.patch_and_side[k][1] /\ c.multiplier = s
             THEN Connecting(i.patch_and_side[k], s)'
             ELSE Connected(i.patch_and_side[k], s)'
  <2>1. PICK side : side = i.patch_and_side[k]
    OBVIOUS
  <2>2. /\ Connected(side, s) => Connected(side, s)'
        /\ Connecting(side, s) => Connecting(side, s)'
    BY ConnectedStays
  <2> QED BY <2>1, <2>2 DEF FacesConnected
<1> QED BY <1>1, <1>2 DEF FacesConnected

\* An interface whose spaces have ids keeps the dofs of its faces.
LEMMA NumberedStays ==
  ASSUME IdsStay, NEW i, Numbered(i)
  PROVE  /\ Numbered(i)'
         /\ BothFaces(i.patch_and_side)' = BothFaces(i.patch_and_side)
         /\ \A s \in i.multiplier : GlobalDofs(s)' = GlobalDofs(s)
<1>1. Numbered(i)'
  BY DEF Numbered, IdsStay
<1>2. \A k \in {1, 2} : i.patch_and_side[k][1] \in RenumberedSpaces
  BY DEF Numbered
<1>3. ASSUME NEW k \in {1, 2}
      PROVE  FaceDofs(i.patch_and_side[k][1], i.patch_and_side[k][2])'
               = FaceDofs(i.patch_and_side[k][1], i.patch_and_side[k][2])
  <2>1. i.patch_and_side[k][1] \in RenumberedSpaces
    BY <1>2
  <2> QED BY <2>1 DEF IdsStay
<1>4. BothFaces(i.patch_and_side)' = BothFaces(i.patch_and_side)
  BY <1>3 DEF BothFaces
<1>5. \A s \in i.multiplier : GlobalDofs(s)' = GlobalDofs(s)
  BY DEF Numbered, IdsStay
<1> QED BY <1>1, <1>4, <1>5

\* So do constraints that stay with theirs.
LEMMA ConstraintsStay ==
  ASSUME IdsStay, UNCHANGED <<interfaces, linear_constraints>>,
         Pending("add_linear_constraints")' = Pending("add_linear_constraints")
  PROVE  /\ ConstraintsOfMortars => ConstraintsOfMortars'
         /\ MultipliersConstrained => MultipliersConstrained'
<1>1. AllInterfaces' = AllInterfaces
  BY DEF AllInterfaces
<1>2. ASSUME NEW i \in AllInterfaces, Numbered(i)
      PROVE  /\ Numbered(i)'
             /\ BothFaces(i.patch_and_side)' = BothFaces(i.patch_and_side)
             /\ \A s \in i.multiplier : GlobalDofs(s)' = GlobalDofs(s)
  BY <1>2, NumberedStays
<1>3. ASSUME ConstraintsOfMortars PROVE ConstraintsOfMortars'
  <2>1. ASSUME NEW l \in linear_constraints
        PROVE  \E i \in AllInterfaces : \E s \in i.multiplier :
                 Numbered(i)' /\ l[1] \in GlobalDofs(s)' /\ l = <<l[1], BothFaces(i.patch_and_side)'>>
    <3>1. PICK i \in AllInterfaces : \E s \in i.multiplier :
                 Numbered(i) /\ l[1] \in GlobalDofs(s) /\ l = <<l[1], BothFaces(i.patch_and_side)>>
      BY <1>3 DEF ConstraintsOfMortars
    <3> QED BY <1>2, <3>1
  <2> QED BY <1>1, <2>1 DEF ConstraintsOfMortars
<1>4. ASSUME MultipliersConstrained PROVE MultipliersConstrained'
  <2>1. ASSUME NEW i \in AllInterfaces, NEW s \in i.multiplier,
               \A c \in Pending("add_linear_constraints") : c.multiplier # s
        PROVE  /\ Numbered(i)'
               /\ \A d \in GlobalDofs(s)' : <<d, BothFaces(i.patch_and_side)'>> \in linear_constraints
    <3>1. /\ Numbered(i)
          /\ \A d \in GlobalDofs(s) : <<d, BothFaces(i.patch_and_side)>> \in linear_constraints
      BY <1>4, <2>1 DEF MultipliersConstrained
    <3> QED BY <1>2, <3>1
  <2> QED BY <1>1, <2>1 DEF MultipliersConstrained
<1> QED BY <1>3, <1>4

\* A call of the manager that neither makes blocks nor numbers spaces.
LEMMA BlocksStay ==
  ASSUME UNCHANGED <<spaces_connections, extra_dofs_connectivity, interfaces>>,
         Pending("add_spaces_connection")' = Pending("add_spaces_connection"),
         ClosedPatches' = ClosedPatches, AddedSpaces \subseteq AddedSpaces'
  PROVE  /\ \A r, c : Extra(r, c)' = Extra(r, c)
         /\ BlocksManaged => BlocksManaged'
         /\ BlocksExpected => BlocksExpected'
         /\ PatchesUsed => PatchesUsed'
<1>1. AllInterfaces' = AllInterfaces /\ Blocks' = Blocks
  BY DEF AllInterfaces, Blocks
<1>2. \A r, c : Extra(r, c)' = Extra(r, c)
  BY <1>1 DEF Extra
<1>3. BlocksManaged => BlocksManaged'
  BY <1>1 DEF BlocksManaged
<1>4. BlocksExpected => BlocksExpected'
  BY <1>1 DEF BlocksExpected, BlocksOf
<1>5. PatchesUsed => PatchesUsed'
  BY <1>1 DEF PatchesUsed
<1> QED BY <1>2, <1>3, <1>4, <1>5

\* A call in progress has a multiplier left as long as its space keeps its ids.
LEMMA OneLeftStays ==
  ASSUME IdsStay, OneLeft, UNCHANGED linear_constraints, RenumberedSpaces' = RenumberedSpaces,
         Pending("add_linear_constraints")' = Pending("add_linear_constraints")
  PROVE  OneLeft'
<1>1. ASSUME NEW c \in Pending("add_linear_constraints"), c.multiplier \in RenumberedSpaces
      PROVE  \E d \in GlobalDofs(c.multiplier)' : \A l \in linear_constraints : l[1] # d
  <2>1. GlobalDofs(c.multiplier)' = GlobalDofs(c.multiplier)
    BY <1>1 DEF IdsStay
  <2> QED BY <1>1, <2>1 DEF OneLeft
<1> QED BY <1>1 DEF OneLeft

\* A step that makes no blocks, no pairs and no constraints.
LEMMA QuietStep ==
  ASSUME CouplingInv, IdsStay,
         UNCHANGED <<spaces_connections, extra_dofs_connectivity, interfaces, linear_constraints>>,
         Pending("connect_face")' = Pending("connect_face"),
         Pending("add_linear_constraints")' = Pending("add_linear_constraints"),
         Pending("add_spaces_connection")' = Pending("add_spaces_connection"),
         ClosedPatches' = ClosedPatches, AddedSpaces \subseteq AddedSpaces',
         CallsInOrder', NumbersFirst', OneLeft'
  PROVE  CouplingInv'
<1>1. AllInterfaces' = AllInterfaces
  BY DEF AllInterfaces
<1>2. CallsOfInterfaces'
  BY <1>1 DEF CouplingInv, CallsOfInterfaces
<1>3. MultipliersOnce'
  BY <1>1 DEF CouplingInv, MultipliersOnce
<1>4. (\A r, c : Extra(r, c)' = Extra(r, c)) /\ BlocksManaged' /\ BlocksExpected' /\ PatchesUsed'
  BY BlocksStay DEF CouplingInv
<1>5. PatchesPlain'
  BY <1>4 DEF CouplingInv, PatchesPlain
<1>6. FacesConnected'
  BY <1>4, FacesStay DEF CouplingInv
<1>7. ConstraintsOfMortars' /\ MultipliersConstrained'
  BY ConstraintsStay DEF CouplingInv
<1> QED BY <1>2, <1>3, <1>4, <1>5, <1>6, <1>7 DEF CouplingInv

\* Two spaces with ids have none in common.
LEMMA ApartIds ==
  ASSUME SpaceManagerAssumption, IInv, NEW r \in RenumberedSpaces, NEW s \in RenumberedSpaces, NEW d \in GlobalDofs(r)
  PROVE  (d \in GlobalDofs(s) => r = s) /\ d \in Nat
<1>1. r = s \/ GlobalDofs(r) \cap GlobalDofs(s) = {}
  BY DEF IInv, RenumberedDisjoint, RenumberedSpaces
<1>2. r \in Space
  BY DEF IInv, NumberingTypeOK, RenumberedSpaces, SpacesIn
<1>3. TableOf[r] \in Table /\ index_table[TableOf[r]] \in [LocalDofs(TableOf[r]) -> Nat]
  BY <1>2, TableOfSpace DEF IInv, NumberingTypeOK
<1>4. d \in Nat
  BY <1>3 DEF GlobalDofs, GlobalDofsOfTable
<1> QED BY <1>1, <1>4

\* Every space has ids.
LEMMA SomeId ==
  ASSUME SpaceManagerAssumption, IInv, NEW s \in Space
  PROVE  GlobalDofs(s) # {}
<1>1. 0 \in LocalDofs(TableOf[s])
  BY TableOfSpace DEF IInv, LocalDofs
<1>2. index_table[TableOf[s]][0] \in GlobalDofs(s)
  BY <1>1 DEF GlobalDofs, GlobalDofsOfTable
<1> QED BY <1>2

\* One space gets its ids: its multipliers are all to be constrained.
LEMMA RenumberSpaceCouples ==
  ASSUME SpaceManagerAssumption, TablesDistinct, IInv, CouplingInv, IdsStay, RenumberSpace, UNCHANGED <<mp_vars, todo>>
  PROVE  CouplingInv'
<1>1. PICK s : s = Head(spaces_with_original_dofs)
  OBVIOUS
<1>2. IInv' /\ ShiftedAbove(s)
  BY <1>1, RenumberSpaceIInv
<1>3. /\ s \in Space /\ s \notin RenumberedSpaces
      /\ RenumberedSpaces' = RenumberedSpaces \cup {s}
  BY <1>2 DEF ShiftedAbove, RenumberedSpaces, IInv, NumberingTypeOK
<1>4. /\ UNCHANGED <<spaces_connections, extra_dofs_connectivity, linear_constraints, interfaces, patches,
                     is_patch_insertion_open, closing>>
      /\ closing
      /\ AddedSpaces' = AddedSpaces
  <2>1. spaces_info' = [spaces_info EXCEPT ![s] = OffsetInfo(s, space_dofs_offset)]
    BY <1>1 DEF RenumberSpace
  <2> QED BY <2>1 DEF RenumberSpace, block_vars, constraint_vars, insertion_vars, mp_vars, AddedSpaces
<1>5. \A name : Pending(name)' = Pending(name)
  BY DEF Pending
<1>6. CallsInOrder'
  BY DEF CouplingInv, CallsInOrder, Stage
<1>7. NumbersFirst'
  BY <1>4, <1>5 DEF CouplingInv, NumbersFirst
<1>8. ClosedPatches' = ClosedPatches
  <2>1. \A m : Patches(m)' = Patches(m)
    BY <1>4 DEF Patches
  <2>2. is_patch_insertion_open' = is_patch_insertion_open /\ Pending("patches_inserted")' = Pending("patches_inserted")
    BY <1>4, <1>5
  <2> QED BY <2>1, <2>2 DEF ClosedPatches
<1>9. ASSUME NEW c \in Pending("add_linear_constraints"), c.multiplier \in RenumberedSpaces'
      PROVE  \E d \in GlobalDofs(c.multiplier)' : \A l \in linear_constraints : l[1] # d
  <2>1. CASE c.multiplier \in RenumberedSpaces
    <3>1. GlobalDofs(c.multiplier)' = GlobalDofs(c.multiplier)
      BY <2>1 DEF IdsStay
    <3> QED BY <2>1, <3>1 DEF CouplingInv, OneLeft
  <2>2. CASE c.multiplier = s
    <3>1. PICK d : d \in GlobalDofs(s)'
      <4>1. 0 \in LocalDofs(TableOf[s])
        BY <1>3, TableOfSpace DEF IInv, LocalDofs
      <4>2. index_table'[TableOf[s]][0] \in GlobalDofs(s)'
        BY <4>1 DEF GlobalDofs, GlobalDofsOfTable
      <4> QED BY <4>2
    <3>2. ASSUME NEW l \in linear_constraints
          PROVE  l[1] # d
      <4>1. PICK i \in AllInterfaces : \E r \in i.multiplier : Numbered(i) /\ l[1] \in GlobalDofs(r)
        BY DEF CouplingInv, ConstraintsOfMortars
      <4>2. PICK r \in i.multiplier : Numbered(i) /\ l[1] \in GlobalDofs(r)
        BY <4>1
      <4>3. r \in RenumberedSpaces /\ r \in RenumberedSpaces' /\ r # s /\ s \in RenumberedSpaces'
        BY <1>3, <4>2 DEF Numbered
      <4>4. l[1] \in GlobalDofs(r)'
        BY <4>2, <4>3 DEF IdsStay
      <4>5. GlobalDofs(r)' \cap GlobalDofs(s)' = {}
        BY <1>2, <4>3 DEF IInv, RenumberedDisjoint, RenumberedSpaces
      <4> QED BY <3>1, <4>4, <4>5
    <3> QED BY <2>2, <3>1, <3>2
  <2> QED BY <1>3, <1>9, <2>1, <2>2
<1>10. OneLeft'
  BY <1>4, <1>5, <1>9 DEF OneLeft
<1> QED BY <1>4, <1>5, <1>6, <1>7, <1>8, <1>10, QuietStep

\* The renumbering ends: every space has ids.
LEMMA RenumberingDoneCouples ==
  ASSUME CouplingInv, IdsStay, RenumberingDone, UNCHANGED <<mp_vars, todo>>
  PROVE  CouplingInv'
<1>1. /\ UNCHANGED <<spaces_connections, extra_dofs_connectivity, linear_constraints, interfaces, patches,
                     is_patch_insertion_open, spaces_with_original_dofs, spaces_with_renumbered_dofs, spaces_info>>
      /\ spaces_with_original_dofs = << >>
  BY DEF RenumberingDone, block_vars, constraint_vars, numbering_vars, mp_vars
<1>2. AddedSpaces' = AddedSpaces /\ RenumberedSpaces' = RenumberedSpaces
  BY <1>1 DEF AddedSpaces, RenumberedSpaces, SpacesIn
<1>3. \A name : Pending(name)' = Pending(name)
  BY DEF Pending
<1>4. CallsInOrder'
  BY DEF CouplingInv, CallsInOrder, Stage
<1>5. NumbersFirst'
  BY <1>1, <1>3 DEF CouplingInv, NumbersFirst
<1>6. ClosedPatches' = ClosedPatches
  BY <1>1, <1>3 DEF ClosedPatches, Patches
<1>7. OneLeft'
  BY <1>1, <1>2, <1>3, OneLeftStays DEF CouplingInv
<1> QED BY <1>1, <1>2, <1>3, <1>4, <1>5, <1>6, <1>7, QuietStep

\* A call that opens or closes a phase, or adds a space.
LEMMA PhaseCallCouples ==
  ASSUME MultiPatchTypeOK, CouplingInv, IdsStay, todo # << >>,
         ManagerCall(Head(todo)), Head(todo).call # "add_spaces_connection",
         todo' = Tail(todo), UNCHANGED mp_vars
  PROVE  CouplingInv'
<1>1. PICK c : c = Head(todo)
  OBVIOUS
<1>2. /\ CallsInOrder'
      /\ \A name : Pending(name)' \subseteq Pending(name)
      /\ \A name : name # c.call => Pending(name)' = Pending(name)
  BY <1>1, Popped DEF CouplingInv
<1>3. \/ c.call = "add_space" /\ AddSpace(c.space)
      \/ c.call = "spaces_insertion_close" /\ SpacesInsertionClose(c.renumber)
      \/ /\ c.call \in {"spaces_insertion_open", "spaces_connectivity_open", "spaces_connectivity_close",
                         "linear_constraints_open", "linear_constraints_close"}
         /\ UNCHANGED numbering_vars
         /\ UNCHANGED closing
         /\ UNCHANGED <<spaces_connections, extra_dofs_connectivity, linear_constraints>>
  BY <1>1 DEF ManagerCall, SpacesInsertionOpen, SpacesConnectivityOpen, SpacesConnectivityClose,
              LinearConstraintsOpen, LinearConstraintsClose, insertion_vars, block_vars, constraint_vars
<1>4. /\ UNCHANGED <<spaces_connections, extra_dofs_connectivity, linear_constraints, spaces_with_renumbered_dofs>>
      /\ AddedSpaces \subseteq AddedSpaces'
  BY <1>3 DEF AddSpace, SpacesInsertionClose, numbering_vars, block_vars, constraint_vars, AddedSpaces
<1>5. UNCHANGED <<interfaces, patches, is_patch_insertion_open>> /\ RenumberedSpaces' = RenumberedSpaces
  BY <1>4 DEF mp_vars, RenumberedSpaces, SpacesIn
<1>6. c.call \notin {"connect_face", "add_linear_constraints", "add_spaces_connection", "patches_inserted"}
  BY <1>3, <1>1
<1>7. /\ Pending("connect_face")' = Pending("connect_face")
      /\ Pending("add_linear_constraints")' = Pending("add_linear_constraints")
      /\ Pending("add_spaces_connection")' = Pending("add_spaces_connection")
      /\ Pending("patches_inserted")' = Pending("patches_inserted")
  BY <1>2, <1>6
<1>8. c \in Pending(c.call)
  BY <1>1, HeadFirst DEF CouplingInv
<1>9. NumbersFirst'
  <2>1. CASE c.call = "add_space" /\ AddSpace(c.space)
    <3>1. Pending("spaces_insertion_close")' = Pending("spaces_insertion_close")
      BY <1>2, <2>1
    <3>2. Pending("add_space") # {}
      BY <1>8, <2>1
    <3> QED BY <1>7, <3>1, <3>2 DEF CouplingInv, NumbersFirst
  <2>2. CASE c.call = "spaces_insertion_close" /\ SpacesInsertionClose(c.renumber)
    <3>1. Pending("add_space") = {} /\ Pending("add_space")' = {}
      BY <1>1, <1>2, <2>2, EarlierDone DEF CouplingInv
    <3>2. closing' = c.renumber /\ Pending("spaces_insertion_close")' \subseteq Pending("spaces_insertion_close")
      BY <1>2, <2>2 DEF SpacesInsertionClose
    <3>3. c \in Pending("spaces_insertion_close")
      BY <1>8, <2>2
    <3>4. ASSUME Pending("connect_face") # {} \/ Pending("add_linear_constraints") # {}
          PROVE  c.renumber /\ \A b \in Pending("spaces_insertion_close") : b.renumber
      BY <3>3, <3>4 DEF CouplingInv, NumbersFirst
    <3> QED BY <1>7, <3>1, <3>2, <3>4 DEF NumbersFirst
  <2>3. CASE /\ c.call \notin {"add_space", "spaces_insertion_close"}
             /\ UNCHANGED numbering_vars
             /\ UNCHANGED closing
    <3>1. /\ Pending("spaces_insertion_close")' = Pending("spaces_insertion_close")
          /\ Pending("add_space")' = Pending("add_space")
      BY <1>2, <2>3
    <3> QED BY <1>7, <2>3, <3>1 DEF CouplingInv, NumbersFirst, numbering_vars
  <2> QED BY <1>3, <2>1, <2>2, <2>3
<1>10. ClosedPatches' = ClosedPatches
  BY <1>5, <1>7 DEF ClosedPatches, Patches
<1>11. OneLeft'
  BY <1>4, <1>5, <1>7, OneLeftStays DEF CouplingInv
<1> QED BY <1>2, <1>4, <1>5, <1>7, <1>9, <1>10, <1>11, QuietStep

\* The end of patch_insertion_close: the patches were closed before.
LEMMA PatchesInsertedCouples ==
  ASSUME MultiPatchTypeOK, CouplingInv, IdsStay, todo # << >>, Head(todo).call = "patches_inserted",
         is_patch_insertion_open' = [is_patch_insertion_open EXCEPT ![Head(todo).of] = FALSE],
         todo' = Tail(todo), UNCHANGED <<patches, interfaces, vars>>
  PROVE  CouplingInv'
<1>1. PICK c : c = Head(todo)
  OBVIOUS
<1>2. /\ CallsInOrder'
      /\ \A name : Pending(name)' \subseteq Pending(name)
      /\ \A name : Pending(name) \subseteq Pending(name)' \cup {c}
      /\ \A name : name # "patches_inserted" => Pending(name)' = Pending(name)
  BY <1>1, Popped DEF CouplingInv
<1>3. UNCHANGED <<spaces_connections, extra_dofs_connectivity, linear_constraints, spaces_with_renumbered_dofs,
                  spaces_with_original_dofs, spaces_info, closing>>
  BY DEF vars, numbering_vars, insertion_vars, block_vars, constraint_vars
<1>4. AddedSpaces' = AddedSpaces /\ RenumberedSpaces' = RenumberedSpaces
  BY <1>3 DEF AddedSpaces, RenumberedSpaces, SpacesIn
<1>5. NumbersFirst'
  BY <1>2, <1>3 DEF CouplingInv, NumbersFirst
<1>6. c \in Pending("patches_inserted")
  BY <1>1, HeadFirst DEF CouplingInv
<1>7. ASSUME NEW m \in MultiPatchSpaces
      PROVE  (~is_patch_insertion_open'[m] \/ \E b \in Pending("patches_inserted")' : b.of = m)
               <=> (~is_patch_insertion_open[m] \/ \E b \in Pending("patches_inserted") : b.of = m)
  <2>1. is_patch_insertion_open'[m] = IF m = c.of THEN FALSE ELSE is_patch_insertion_open[m]
    BY <1>1 DEF MultiPatchTypeOK
  <2>2. CASE m = c.of
    BY <1>6, <2>1, <2>2
  <2>3. CASE m # c.of
    BY <1>2, <2>1, <2>3
  <2> QED BY <2>2, <2>3
<1>8. ClosedPatches' = ClosedPatches
  BY <1>7 DEF ClosedPatches, Patches
<1>9. OneLeft'
  BY <1>2, <1>3, <1>4, OneLeftStays DEF CouplingInv
<1> QED BY <1>2, <1>3, <1>4, <1>5, <1>8, <1>9, QuietStep

\* A block, with no pairs yet, is made of what is left to be made.
LEMMA BlockCallCouples ==
  ASSUME MultiPatchTypeOK, CouplingInv, IdsStay, todo # << >>, Head(todo).call = "add_spaces_connection",
         AddSpacesConnection(Head(todo).row, Head(todo).col, Head(todo).use),
         todo' = Tail(todo), UNCHANGED mp_vars
  PROVE  CouplingInv'
<1>1. PICK c : c = Head(todo)
  OBVIOUS
<1>2. PICK b : b = <<c.row, c.col>>
  OBVIOUS
<1>3. /\ CallsInOrder'
      /\ \A name : Pending(name)' \subseteq Pending(name)
      /\ \A name : Pending(name) \subseteq Pending(name)' \cup {c}
      /\ \A name : name # "add_spaces_connection" => Pending(name)' = Pending(name)
  BY <1>1, Popped DEF CouplingInv
<1>4. /\ UNCHANGED <<extra_dofs_connectivity, linear_constraints, spaces_with_renumbered_dofs,
                     spaces_with_original_dofs, spaces_info, closing, interfaces, patches, is_patch_insertion_open>>
      /\ b \notin Blocks /\ b \in AddedSpaces \X AddedSpaces
      /\ spaces_connections' = [a \in Blocks \cup {b} |->
                                  IF a = b THEN [use |-> c.use, extra |-> {}] ELSE spaces_connections[a]]
  BY <1>1, <1>2 DEF AddSpacesConnection, numbering_vars, insertion_vars, constraint_vars, mp_vars
<1>5. AddedSpaces' = AddedSpaces /\ RenumberedSpaces' = RenumberedSpaces /\ AllInterfaces' = AllInterfaces
  BY <1>4 DEF AddedSpaces, RenumberedSpaces, SpacesIn, AllInterfaces
<1>6. /\ Blocks' = Blocks \cup {b}
      /\ spaces_connections'[b].use = c.use /\ spaces_connections'[b].extra = {}
      /\ \A a \in Blocks : spaces_connections'[a] = spaces_connections[a] /\ a # b
  BY <1>4 DEF Blocks
<1>7. c \in Pending("add_spaces_connection")
  BY <1>1, HeadFirst DEF CouplingInv
<1>8. \A r, q : Extra(r, q)' = Extra(r, q)
  <2>1. ASSUME NEW r, NEW q
        PROVE  Extra(r, q)' = Extra(r, q)
    <3>1. CASE <<r, q>> \in Blocks
      BY <1>6, <3>1 DEF Extra
    <3>2. CASE <<r, q>> = b
      BY <1>4, <1>6, <3>2 DEF Extra
    <3>3. CASE <<r, q>> \notin Blocks /\ <<r, q>> # b
      BY <1>6, <3>3 DEF Extra
    <3> QED BY <3>1, <3>2, <3>3
  <2> QED BY <2>1
<1>9. BlocksManaged'
  <2>1. Blocks' \subseteq AddedSpaces' \X AddedSpaces' /\ extra_dofs_connectivity' = {}
    BY <1>4, <1>5, <1>6 DEF CouplingInv, BlocksManaged
  <2>2. \A a \in Blocks : spaces_connections[a] = [use |-> spaces_connections[a].use, extra |-> spaces_connections[a].extra]
    BY DEF CouplingInv, BlocksManaged
  <2>3. \A a \in Blocks' : spaces_connections'[a] = [use |-> spaces_connections'[a].use, extra |-> spaces_connections'[a].extra]
    <3>1. spaces_connections'[b] = [use |-> c.use, extra |-> {}]
      BY <1>4
    <3> QED BY <1>6, <2>2, <3>1
  <2>4. spaces_connections' = [a \in Blocks' |-> spaces_connections'[a]]
    BY <1>4, <1>6
  <2>5. spaces_connections' =
          [a \in Blocks' |-> [use |-> spaces_connections'[a].use, extra |-> spaces_connections'[a].extra]]
    BY <2>3, <2>4
  <2> QED BY <2>1, <2>5 DEF BlocksManaged
<1>10. Blocks' \cup {<<a.row, a.col>> : a \in Pending("add_spaces_connection")'}
         = Blocks \cup {<<a.row, a.col>> : a \in Pending("add_spaces_connection")}
  <2> DEFINE old == {<<a.row, a.col>> : a \in Pending("add_spaces_connection")}
             new == {<<a.row, a.col>> : a \in Pending("add_spaces_connection")'}
  <2>1. new \subseteq old
    BY <1>3
  <2>2. old \subseteq new \cup {b}
    BY <1>2, <1>3
  <2>3. b \in old
    BY <1>2, <1>7
  <2> HIDE DEF old, new
  <2>4. Blocks' \cup new = Blocks \cup old
    BY <1>6, <2>1, <2>2, <2>3
  <2> QED BY <2>4 DEF old, new
<1>11. ClosedPatches' = ClosedPatches
  BY <1>3, <1>4 DEF ClosedPatches, Patches
<1>12. BlocksExpected'
  <2>1. Blocks' \cup {<<a.row, a.col>> : a \in Pending("add_spaces_connection")'}
          = {<<p, p>> : p \in ClosedPatches'} \cup UNION {BlocksOf(i) : i \in AllInterfaces'}
    BY <1>5, <1>10, <1>11 DEF CouplingInv, BlocksExpected
  <2> QED BY <2>1 DEF BlocksExpected, BlocksOf
<1>13. PatchesUsed'
  <2>1. c.use <=> c.row = c.col
    BY <1>7 DEF CouplingInv, PatchesUsed
  <2>2. \A a \in Blocks' : spaces_connections'[a].use <=> a[1] = a[2]
    <3>1. spaces_connections'[b].use <=> b[1] = b[2]
      BY <1>2, <1>6, <2>1
    <3> QED BY <1>6, <3>1 DEF CouplingInv, PatchesUsed
  <2>3. \A a \in Pending("add_spaces_connection")' : a.use <=> a.row = a.col
    BY <1>3 DEF CouplingInv, PatchesUsed
  <2> QED BY <2>2, <2>3 DEF PatchesUsed
<1>14. PatchesPlain'
  BY <1>8 DEF CouplingInv, PatchesPlain
<1>15. FacesConnected'
  BY <1>3, <1>4, <1>8, FacesStay DEF CouplingInv
<1>16. ConstraintsOfMortars' /\ MultipliersConstrained'
  BY <1>3, <1>4, ConstraintsStay DEF CouplingInv
<1>17. OneLeft'
  BY <1>3, <1>4, <1>5, OneLeftStays DEF CouplingInv
<1>18. CallsOfInterfaces' /\ NumbersFirst' /\ MultipliersOnce'
  <2>1. CallsOfInterfaces'
    BY <1>3, <1>5 DEF CouplingInv, CallsOfInterfaces
  <2>2. NumbersFirst'
    BY <1>3, <1>4 DEF CouplingInv, NumbersFirst
  <2>3. MultipliersOnce'
    BY <1>5 DEF CouplingInv, MultipliersOnce
  <2> QED BY <2>1, <2>2, <2>3
<1> QED BY <1>3, <1>9, <1>12, <1>13, <1>14, <1>15, <1>16, <1>17, <1>18 DEF CouplingInv

-----------------------------------------------------------------------------
(* Faces and constraints of an interface.                                    *)

\* An interface joins faces of two patches, with one multiplier at most.
LEMMA InterfaceTyped ==
  ASSUME MultiPatchAssumption, MultiPatchTypeOK, NEW i \in AllInterfaces
  PROVE  /\ i.patch_and_side \in SidePairs
         /\ \A k \in {1, 2} : i.patch_and_side[k] \in Sides /\ i.patch_and_side[k][1] \in Patch
         /\ i.patch_and_side[1][1] # i.patch_and_side[2][1]
         /\ i.multiplier \subseteq Multiplier
         /\ \A s \in i.multiplier : i.multiplier = {s}
<1>1. i \in Interfaces
  BY DEF MultiPatchTypeOK, AllInterfaces
<1>2. i.patch_and_side \in SidePairs /\ i.multiplier \in {{}} \cup {{s} : s \in Multiplier}
  BY <1>1 DEF Interfaces
<1>3. PICK c \in Contact : i.patch_and_side = << <<c[1], c[2]>>, <<c[3], c[4]>> >>
  BY <1>2 DEF SidePairs
<1>4. c[1] \in Patch /\ c[3] \in Patch /\ c[1] # c[3]
  BY DEF MultiPatchAssumption
<1>5. <<c[1], c[2]>> \in Sides /\ <<c[3], c[4]>> \in Sides
  BY DEF Sides
<1> QED BY <1>2, <1>3, <1>4, <1>5

\* When a face is connected or a constraint made, every space has its ids and
\* every block is there.
LEMMA InterfaceReady ==
  ASSUME MultiPatchAssumption, MultiPatchTypeOK, IInv, CouplingInv, todo # << >>, ~closing,
         Head(todo).call \in {"connect_face", "add_linear_constraints"},
         NEW i \in AllInterfaces, NEW s \in i.multiplier
  PROVE  /\ Numbered(i)
         /\ \A k \in {1, 2} : <<i.patch_and_side[k][1], s>> \in Blocks /\ <<s, i.patch_and_side[k][1]>> \in Blocks
<1>1. /\ Pending("add_space") = {} /\ Pending("spaces_insertion_close") = {}
      /\ Pending("add_spaces_connection") = {}
  BY EarlierDone DEF CouplingInv
<1>2. Pending("connect_face") # {} \/ Pending("add_linear_constraints") # {}
  BY HeadFirst DEF CouplingInv
<1>3. spaces_with_original_dofs = << >>
  BY <1>1, <1>2 DEF CouplingInv, NumbersFirst
<1>4. SpacesIn(spaces_with_original_dofs) = {}
  BY <1>3 DEF SpacesIn
<1>5. AddedSpaces \subseteq RenumberedSpaces
  BY <1>4 DEF IInv, EveryAddedListed, RenumberedSpaces
<1>6. BlocksOf(i) \subseteq Blocks
  BY <1>1 DEF CouplingInv, BlocksExpected
<1>7. /\ <<i.patch_and_side[1][1], s>> \in BlocksOf(i) /\ <<s, i.patch_and_side[1][1]>> \in BlocksOf(i)
      /\ <<i.patch_and_side[2][1], s>> \in BlocksOf(i) /\ <<s, i.patch_and_side[2][1]>> \in BlocksOf(i)
  BY DEF BlocksOf
<1>8. Blocks \subseteq AddedSpaces \X AddedSpaces
  BY DEF CouplingInv, BlocksManaged
<1>9. i.multiplier = {s}
  BY InterfaceTyped
<1>10. Numbered(i)
  <2>1. <<i.patch_and_side[1][1], s>> \in AddedSpaces \X AddedSpaces
        /\ <<i.patch_and_side[2][1], s>> \in AddedSpaces \X AddedSpaces
    BY <1>6, <1>7, <1>8
  <2> QED BY <1>5, <1>9, <2>1 DEF Numbered
<1> QED BY <1>6, <1>7, <1>10

\* Pairs enter one block.
LEMMA BlockPairsEnter ==
  ASSUME NEW r, NEW q, NEW pairs, BlocksManaged, PatchesUsed, AddBlockPairs(r, q, pairs)
  PROVE  /\ Extra(r, q)' = Extra(r, q) \cup pairs
         /\ \A a, b : <<a, b>> # <<r, q>> => Extra(a, b)' = Extra(a, b)
         /\ Blocks' = Blocks
         /\ \A b \in Blocks : spaces_connections'[b].use = spaces_connections[b].use
         /\ spaces_connections' =
              [b \in Blocks |-> [use |-> spaces_connections'[b].use, extra |-> spaces_connections'[b].extra]]
<1>1. PICK t : t = <<r, q>>
  OBVIOUS
<1>2. /\ t \in Blocks
      /\ spaces_connections' = [spaces_connections EXCEPT ![t].extra = @ \cup pairs]
  BY <1>1 DEF AddBlockPairs
<1>3. PICK f : f = [b \in Blocks |-> [use |-> spaces_connections[b].use, extra |-> spaces_connections[b].extra]]
  OBVIOUS
<1>4. spaces_connections = f
  BY <1>3 DEF BlocksManaged
<1>5. spaces_connections' = [b \in Blocks |->
         IF b = t THEN [use |-> spaces_connections[t].use, extra |-> spaces_connections[t].extra \cup pairs]
                  ELSE [use |-> spaces_connections[b].use, extra |-> spaces_connections[b].extra]]
  <2>1. spaces_connections' = [f EXCEPT ![t].extra = f[t].extra \cup pairs]
    BY <1>2, <1>4
  <2>2. f[t] = [use |-> spaces_connections[t].use, extra |-> spaces_connections[t].extra]
    BY <1>2, <1>3
  <2>3. [f EXCEPT ![t].extra = f[t].extra \cup pairs] =
          [b \in Blocks |-> IF b = t THEN [use |-> spaces_connections[t].use, extra |-> f[t].extra \cup pairs]
             ELSE [use |-> spaces_connections[b].use, extra |-> spaces_connections[b].extra]]
    <3>1. PICK v : v = f[t].extra \cup pairs
      OBVIOUS
    <3>2. PICK g : g = [f[t] EXCEPT !.extra = v]
      OBVIOUS
    <3>3. g = [use |-> spaces_connections[t].use, extra |-> v]
      BY <2>2, <3>2
    <3>4. [f EXCEPT ![t].extra = v] = [f EXCEPT ![t] = g]
      BY <3>2, Zenon
    <3>5. [f EXCEPT ![t] = g] = [b \in Blocks |-> IF b = t THEN g ELSE f[b]]
      BY <1>2, <1>3
    <3>6. \A b \in Blocks : f[b] = [use |-> spaces_connections[b].use, extra |-> spaces_connections[b].extra]
      BY <1>3
    <3> QED BY <3>1, <3>3, <3>4, <3>5, <3>6
  <2>4. f[t].extra = spaces_connections[t].extra
    BY <2>2
  <2> QED BY <2>1, <2>3, <2>4
<1>6. Blocks' = Blocks
  BY <1>5 DEF Blocks
<1>7. /\ spaces_connections'[t].extra = spaces_connections[t].extra \cup pairs
      /\ spaces_connections'[t].use = spaces_connections[t].use
      /\ \A b \in Blocks : b # t => /\ spaces_connections'[b].extra = spaces_connections[b].extra
                                    /\ spaces_connections'[b].use = spaces_connections[b].use
  BY <1>2, <1>5
<1>8. Extra(r, q)' = Extra(r, q) \cup pairs
  BY <1>1, <1>2, <1>6, <1>7 DEF Extra
<1>9. \A a, b : <<a, b>> # <<r, q>> => Extra(a, b)' = Extra(a, b)
  BY <1>1, <1>6, <1>7 DEF Extra
<1>10. spaces_connections' =
         [b \in Blocks |-> [use |-> spaces_connections'[b].use, extra |-> spaces_connections'[b].extra]]
  <2>1. ASSUME NEW b \in Blocks
        PROVE  spaces_connections'[b] = [use |-> spaces_connections'[b].use, extra |-> spaces_connections'[b].extra]
    BY <1>5
  <2>2. spaces_connections' = [b \in Blocks |-> spaces_connections'[b]]
    BY <1>5
  <2> QED BY <2>1, <2>2
<1> QED BY <1>2, <1>6, <1>7, <1>8, <1>9, <1>10

\* Pairs of a face change nothing but its blocks.
LEMMA PairsCouple ==
  ASSUME MultiPatchTypeOK, CouplingInv, IdsStay, todo # << >>, Head(todo).call = "connect_face",
         NEW r, NEW q, NEW pairs, AddBlockPairs(r, q, pairs), ~(r \in Patch /\ q \in Patch),
         todo' = todo \/ todo' = Tail(todo), UNCHANGED mp_vars, FacesConnected'
  PROVE  CouplingInv'
<1>1. /\ CallsInOrder'
      /\ \A name : Pending(name)' \subseteq Pending(name)
      /\ \A name : name # "connect_face" => Pending(name)' = Pending(name)
  <2>1. CASE todo' = todo
    <3>1. CallsInOrder'
      BY <2>1 DEF CouplingInv, CallsInOrder, Stage
    <3>2. \A name : Pending(name)' = Pending(name)
      BY <2>1 DEF Pending
    <3> QED BY <3>1, <3>2
  <2>2. CASE todo' = Tail(todo)
    BY <2>2, Popped DEF CouplingInv
  <2> QED BY <2>1, <2>2
<1>2. UNCHANGED <<extra_dofs_connectivity, linear_constraints, spaces_with_renumbered_dofs,
                  spaces_with_original_dofs, spaces_info, closing, interfaces, patches, is_patch_insertion_open>>
  BY DEF AddBlockPairs, numbering_vars, insertion_vars, constraint_vars, mp_vars
<1>3. AddedSpaces' = AddedSpaces /\ RenumberedSpaces' = RenumberedSpaces /\ AllInterfaces' = AllInterfaces
  BY <1>2 DEF AddedSpaces, RenumberedSpaces, SpacesIn, AllInterfaces
<1>4. /\ \A a, b : <<a, b>> # <<r, q>> => Extra(a, b)' = Extra(a, b)
      /\ Blocks' = Blocks
      /\ \A b \in Blocks : spaces_connections'[b].use = spaces_connections[b].use
      /\ spaces_connections' =
           [b \in Blocks |-> [use |-> spaces_connections'[b].use, extra |-> spaces_connections'[b].extra]]
  BY BlockPairsEnter DEF CouplingInv
<1>5. BlocksManaged'
  <2>1. Blocks' \subseteq AddedSpaces' \X AddedSpaces' /\ extra_dofs_connectivity' = {}
    BY <1>2, <1>3, <1>4 DEF CouplingInv, BlocksManaged
  <2> QED BY <1>4, <2>1 DEF BlocksManaged
<1>6. ClosedPatches' = ClosedPatches
  BY <1>1, <1>2 DEF ClosedPatches, Patches
<1>7. BlocksExpected'
  BY <1>1, <1>3, <1>4, <1>6 DEF CouplingInv, BlocksExpected, BlocksOf
<1>8. PatchesUsed'
  BY <1>1, <1>4 DEF CouplingInv, PatchesUsed
<1>9. PatchesPlain'
  <2>1. ASSUME NEW a \in Patch, NEW b \in Patch
        PROVE  Extra(a, b)' = {}
    <3>1. <<a, b>> # <<r, q>>
      OBVIOUS
    <3> QED BY <1>4, <3>1 DEF CouplingInv, PatchesPlain
  <2> QED BY <2>1 DEF PatchesPlain
<1>10. ConstraintsOfMortars' /\ MultipliersConstrained'
  BY <1>1, <1>2, ConstraintsStay DEF CouplingInv
<1>11. OneLeft'
  BY <1>1, <1>2, <1>3, OneLeftStays DEF CouplingInv
<1>12. CallsOfInterfaces'
  BY <1>1, <1>3 DEF CouplingInv, CallsOfInterfaces
<1>13. NumbersFirst'
  <2>1. Pending("connect_face") # {}
    BY HeadFirst DEF CouplingInv
  <2> QED BY <1>1, <1>2, <2>1 DEF CouplingInv, NumbersFirst
<1>14. MultipliersOnce'
  BY <1>3 DEF CouplingInv, MultipliersOnce
<1> QED BY <1>1, <1>5, <1>7, <1>8, <1>9, <1>10, <1>11, <1>12, <1>13, <1>14 DEF CouplingInv

\* Blocks of a face with a multiplier, and those of another.
Apart(side, s, other, r) ==
  \/ other = side /\ r = s
  \/ /\ ~(other[1] = side[1] /\ r = s)
     /\ <<other[1], r>> # <<side[1], s>> /\ <<other[1], r>> # <<s, side[1]>>
     /\ <<r, other[1]>> # <<s, side[1]>> /\ <<r, other[1]>> # <<side[1], s>>

\* A multiplier and a patch meet on one face.
LEMMA FacesApart ==
  ASSUME MultiPatchAssumption, MultiPatchTypeOK, MultipliersOnce,
         NEW i \in AllInterfaces, NEW k \in {1, 2}, NEW s \in i.multiplier,
         NEW j \in AllInterfaces, NEW h \in {1, 2}, NEW r \in j.multiplier,
         NEW side, side = i.patch_and_side[k], NEW other, other = j.patch_and_side[h]
  PROVE  Apart(side, s, other, r)
<1>1. /\ side[1] \in Patch /\ other[1] \in Patch
      /\ i.patch_and_side[1][1] # i.patch_and_side[2][1]
      /\ i.multiplier \subseteq Multiplier /\ j.multiplier \subseteq Multiplier
  BY InterfaceTyped
<1>2. s \in Multiplier /\ r \in Multiplier
  BY <1>1
<1>3. Patch \cap Multiplier = {}
  BY DEF MultiPatchAssumption
<1>4. r = s => i = j
  BY DEF MultipliersOnce
<1>5. CASE r = s /\ other[1] = side[1]
  <2>1. i = j /\ h = k
    BY <1>1, <1>4, <1>5
  <2> QED BY <1>5, <2>1 DEF Apart
<1>6. CASE ~(r = s /\ other[1] = side[1])
  BY <1>1, <1>2, <1>3, <1>6 DEF Apart
<1> QED BY <1>5, <1>6

\* What is known of the face of an interface.
LEMMA FaceState ==
  ASSUME FacesConnected, NEW i \in AllInterfaces, NEW k \in {1, 2}, NEW s \in i.multiplier,
         NEW side, side = i.patch_and_side[k]
  PROVE  /\ (\E c \in Pending("connect_face") : c.side[1] = side[1] /\ c.multiplier = s) => Connecting(side, s)
         /\ ~(\E c \in Pending("connect_face") : c.side[1] = side[1] /\ c.multiplier = s) => Connected(side, s)
<1>1. IF \E c \in Pending("connect_face") : c.side[1] = i.patch_and_side[k][1] /\ c.multiplier = s
      THEN Connecting(i.patch_and_side[k], s)
      ELSE Connected(i.patch_and_side[k], s)
  BY DEF FacesConnected
<1> QED BY <1>1

\* Either block of a face gets its pairs, the one of the multiplier first.
LEMMA ConnectFaceCouples ==
  ASSUME SpaceManagerAssumption, MultiPatchAssumption, MultiPatchTypeOK, IInv, CouplingInv, IdsStay,
         todo # << >>, Head(todo).call = "connect_face", ConnectFace(Head(todo)), UNCHANGED mp_vars
  PROVE  CouplingInv'
<1>1. PICK c : c = Head(todo)
  OBVIOUS
<1>2. c \in Pending("connect_face")
  BY <1>1, HeadFirst DEF CouplingInv
<1>3. PICK i \in AllInterfaces : c.multiplier \in i.multiplier /\ c.side \in {i.patch_and_side[1], i.patch_and_side[2]}
  BY <1>2 DEF CouplingInv, CallsOfInterfaces
<1>4. PICK k \in {1, 2} : c.side = i.patch_and_side[k]
  BY <1>3
<1>5. PICK side : side = c.side
  OBVIOUS
<1>6. PICK s : s = c.multiplier
  OBVIOUS
<1>7. PICK p : p = side[1]
  OBVIOUS
<1>8. s \in i.multiplier /\ side = i.patch_and_side[k] /\ s \in Multiplier /\ p \in Patch
  <2>1. i.multiplier \subseteq Multiplier /\ i.patch_and_side[k][1] \in Patch
    BY InterfaceTyped
  <2> QED BY <1>3, <1>4, <1>5, <1>6, <1>7, <2>1
<1>9. s \notin Patch /\ p \notin Multiplier
  BY <1>8 DEF MultiPatchAssumption
<1>10. /\ ~closing
       /\ \/ /\ MultiplierPairs(side, s) \subseteq spaces_connections[<<s, p>>].extra
             /\ AddBlockPairs(p, s, FacePairs(side, s)) /\ todo' = Tail(todo)
          \/ AddBlockPairs(s, p, MultiplierPairs(side, s)) /\ todo' = todo
  BY <1>1, <1>5, <1>6, <1>7 DEF ConnectFace, AddBlockPairs, MultiplierPairs, FacePairs
<1>11. Numbered(i) /\ <<p, s>> \in Blocks /\ <<s, p>> \in Blocks
  BY <1>1, <1>7, <1>8, <1>10, InterfaceReady
<1>12. {s, p} \subseteq RenumberedSpaces
  BY <1>7, <1>8, <1>11 DEF Numbered
<1>13. /\ FacePairs(side, s)' = FacePairs(side, s) /\ MultiplierPairs(side, s)' = MultiplierPairs(side, s)
       /\ {s, p} \subseteq RenumberedSpaces'
  <2>1. GlobalDofs(s)' = GlobalDofs(s) /\ FaceDofs(side[1], side[2])' = FaceDofs(side[1], side[2])
    BY <1>7, <1>12 DEF IdsStay
  <2> QED BY <1>12, <2>1 DEF IdsStay, FacePairs, MultiplierPairs
<1>14. Connecting(side, s)
  <2>1. FacesConnected
    BY DEF CouplingInv
  <2>2. \E d \in Pending("connect_face") : d.side[1] = side[1] /\ d.multiplier = s
    BY <1>2, <1>5, <1>6
  <2> QED BY <1>8, <2>1, <2>2, FaceState
<1>15. AllInterfaces' = AllInterfaces
  BY DEF AllInterfaces, mp_vars
<1>16. ASSUME NEW j \in AllInterfaces, NEW h \in {1, 2}, NEW r \in j.multiplier, NEW other,
              other = j.patch_and_side[h]
       PROVE  \/ other = side /\ r = s
              \/ /\ ~(other[1] = p /\ r = s)
                 /\ <<other[1], r>> # <<p, s>> /\ <<other[1], r>> # <<s, p>>
                 /\ <<r, other[1]>> # <<s, p>> /\ <<r, other[1]>> # <<p, s>>
  <2>1. MultipliersOnce
    BY DEF CouplingInv
  <2>2. Apart(side, s, other, r)
    BY <1>8, <1>16, <2>1, FacesApart
  <2> QED BY <1>7, <2>2 DEF Apart
<1>17. ASSUME \A a, b : <<a, b>> # <<s, p>> /\ <<a, b>> # <<p, s>> => Extra(a, b)' = Extra(a, b),
              \A d \in Pending("connect_face")' \cup {c} : d \in Pending("connect_face"),
              Pending("connect_face") \subseteq Pending("connect_face")' \cup {c},
              IF \E d \in Pending("connect_face")' : d.side[1] = p /\ d.multiplier = s
              THEN Connecting(side, s)' ELSE Connected(side, s)'
       PROVE  FacesConnected'
  <2>1. ASSUME NEW j \in AllInterfaces, NEW h \in {1, 2}, NEW r \in j.multiplier
        PROVE  IF \E d \in Pending("connect_face")' : d.side[1] = j.patch_and_side[h][1] /\ d.multiplier = r
               THEN Connecting(j.patch_and_side[h], r)'
               ELSE Connected(j.patch_and_side[h], r)'
    <3>1. PICK other : other = j.patch_and_side[h]
      OBVIOUS
    <3>2. CASE other = side /\ r = s
      BY <1>7, <1>17, <3>1, <3>2
    <3>3. CASE ~(other = side /\ r = s)
      <4>1. /\ ~(other[1] = p /\ r = s)
            /\ <<other[1], r>> # <<p, s>> /\ <<other[1], r>> # <<s, p>>
            /\ <<r, other[1]>> # <<s, p>> /\ <<r, other[1]>> # <<p, s>>
        BY <1>16, <3>1, <3>3, ZenonT(30)
      <4>2. Extra(other[1], r)' = Extra(other[1], r) /\ Extra(r, other[1])' = Extra(r, other[1])
        BY <1>17, <4>1
      <4>3. /\ Connected(other, r) => Connected(other, r)'
            /\ Connecting(other, r) => Connecting(other, r)'
        BY <4>2, ConnectedStays
      <4>4. (\E d \in Pending("connect_face")' : d.side[1] = other[1] /\ d.multiplier = r)
              <=> (\E d \in Pending("connect_face") : d.side[1] = other[1] /\ d.multiplier = r)
        BY <1>5, <1>6, <1>7, <1>17, <4>1
      <4>5. IF \E d \in Pending("connect_face") : d.side[1] = other[1] /\ d.multiplier = r
            THEN Connecting(other, r) ELSE Connected(other, r)
        <5>1. FacesConnected
          BY DEF CouplingInv
        <5> QED BY <3>1, <5>1, FaceState
      <4> QED BY <3>1, <4>3, <4>4, <4>5
    <3> QED BY <3>2, <3>3
  <2> QED BY <1>15, <2>1 DEF FacesConnected
<1>18. CASE AddBlockPairs(s, p, MultiplierPairs(side, s)) /\ todo' = todo
  <2>1. /\ Extra(s, p)' = Extra(s, p) \cup MultiplierPairs(side, s)
        /\ \A a, b : <<a, b>> # <<s, p>> => Extra(a, b)' = Extra(a, b)
    BY <1>18, BlockPairsEnter DEF CouplingInv
  <2>2. Pending("connect_face")' = Pending("connect_face")
    BY <1>18 DEF Pending
  <2>3. Extra(p, s)' = Extra(p, s)
    BY <1>8, <1>9, <2>1
  <2>4. Connecting(side, s)'
    <3>1. Extra(p, s)' = {} /\ Extra(s, p)' = MultiplierPairs(side, s)
      BY <1>7, <1>14, <2>1, <2>3 DEF Connecting
    <3> QED BY <1>7, <1>13, <3>1 DEF Connecting
  <2>5. \E d \in Pending("connect_face")' : d.side[1] = p /\ d.multiplier = s
    BY <1>2, <1>5, <1>6, <1>7, <2>2
  <2>6. FacesConnected'
    BY <1>2, <1>17, <2>1, <2>2, <2>4, <2>5
  <2> QED BY <1>9, <1>18, <2>6, PairsCouple
<1>19. CASE /\ MultiplierPairs(side, s) \subseteq spaces_connections[<<s, p>>].extra
            /\ AddBlockPairs(p, s, FacePairs(side, s)) /\ todo' = Tail(todo)
  <2>1. /\ Extra(p, s)' = Extra(p, s) \cup FacePairs(side, s)
        /\ \A a, b : <<a, b>> # <<p, s>> => Extra(a, b)' = Extra(a, b)
    BY <1>19, BlockPairsEnter DEF CouplingInv
  <2>2. /\ Pending("connect_face")' \subseteq Pending("connect_face")
        /\ Pending("connect_face") \subseteq Pending("connect_face")' \cup {c}
        /\ \A d \in Pending("connect_face")' : d.side[1] # p
    BY <1>1, <1>5, <1>7, <1>19, Popped DEF CouplingInv
  <2>3. Extra(s, p)' = Extra(s, p)
    BY <1>8, <1>9, <2>1
  <2>4. Connected(side, s)'
    <3>1. MultiplierPairs(side, s) \subseteq Extra(s, p)
      BY <1>11, <1>19 DEF Extra
    <3>2. Extra(s, p) = MultiplierPairs(side, s) /\ Extra(p, s) = {}
      BY <1>7, <1>14, <3>1 DEF Connecting
    <3>3. Extra(p, s)' = FacePairs(side, s) /\ Extra(s, p)' = MultiplierPairs(side, s)
      BY <2>1, <2>3, <3>2
    <3> QED BY <1>7, <1>13, <3>3 DEF Connected
  <2>5. FacesConnected'
    BY <1>2, <1>17, <2>1, <2>2, <2>4
  <2> QED BY <1>9, <1>19, <2>5, PairsCouple
<1> QED BY <1>10, <1>18, <1>19

\* A set of naturals has a least element.
LEMMA LeastIsIn ==
  ASSUME NEW S \in SUBSET Nat, S # {}
  PROVE  LeastOf(S) \in S
<1> DEFINE T == {x \in Nat : \A y \in S : x <= y}
<1>1. \E x \in S : \A y \in S : x <= y
  <2>1. SUFFICES ASSUME \A x \in S : \E y \in S : ~(x <= y)
                 PROVE  FALSE
    OBVIOUS
  <2>2. 0 \in T
    OBVIOUS
  <2>3. ASSUME NEW n \in Nat, n \in T
        PROVE  n + 1 \in T
    <3>1. \A v \in S : n <= v /\ v \in Nat
      BY <2>3
    <3>2. n \notin S
      BY <2>1, <3>1
    <3>3. \A v \in S : n + 1 <= v
      BY <3>1, <3>2
    <3> QED BY <3>3
  <2>4. \A n \in Nat : n \in T
    <3> HIDE DEF T
    <3> QED BY <2>2, <2>3, NatInSet
  <2>5. PICK z \in S : z \in Nat
    OBVIOUS
  <2>6. z + 1 \in T
    BY <2>4, <2>5
  <2> QED BY <2>5, <2>6
<1> QED BY <1>1 DEF LeastOf

\* The ids of a space are finitely many.
LEMMA FiniteIds ==
  ASSUME SpaceManagerAssumption, IInv, NEW s \in Space
  PROVE  IsFiniteSet(GlobalDofs(s)) /\ GlobalDofs(s) \subseteq Nat
<1>1. PICK t : t = TableOf[s]
  OBVIOUS
<1>2. t \in Table /\ index_table[t][0] \in Nat /\ Size[t] \in Nat
  BY <1>1, TableOfSpace DEF IInv
<1>3. PICK a \in Nat, n \in Nat : a = index_table[t][0] /\ n = Size[t]
  BY <1>2
<1>4. GlobalDofs(s) = {x \in Nat : a <= x /\ x <= a + n - 1}
  BY <1>1, <1>2, <1>3, GlobalDofsInterval DEF IInv, GlobalDofs
<1>5. GlobalDofs(s) \subseteq 0 .. a + n /\ GlobalDofs(s) \subseteq Nat
  BY <1>4
<1>6. IsFiniteSet(0 .. a + n)
  BY FS_Interval
<1> QED BY <1>5, <1>6, FS_Subset

\* One multiplier is constrained: its call is done when it was the last.
LEMMA MortarConstraintCouples ==
  ASSUME SpaceManagerAssumption, MultiPatchAssumption, MultiPatchTypeOK, IInv, CouplingInv, IdsStay,
         todo # << >>, Head(todo).call = "add_linear_constraints", AddMortarConstraint(Head(todo)), UNCHANGED mp_vars
  PROVE  CouplingInv'
<1>1. PICK c : c = Head(todo)
  OBVIOUS
<1>2. Pending("add_linear_constraints") = {c}
  BY <1>1, HeadFirst DEF CouplingInv
<1>3. PICK i \in AllInterfaces : c.multiplier \in i.multiplier /\ c.sides = i.patch_and_side
  BY <1>2 DEF CouplingInv, CallsOfInterfaces
<1>4. PICK s : s = c.multiplier
  OBVIOUS
<1>5. PICK rest : rest = {d \in GlobalDofs(s) : \A l \in linear_constraints : l[1] # d}
  OBVIOUS
<1>6. PICK dofs : dofs = BothFaces(i.patch_and_side)
  OBVIOUS
<1>7. PICK x : x = LeastOf(rest)
  OBVIOUS
<1>8. /\ AddConstraintOn(x, dofs)
      /\ IF Cardinality(rest) = 1 THEN todo' = Tail(todo) ELSE UNCHANGED todo
  <2>1. BothFaces(c.sides) = dofs
    BY <1>3, <1>6
  <2>2. PICK both : both = UNION {FaceDofs(c.sides[k][1], c.sides[k][2]) : k \in {1, 2}}
    OBVIOUS
  <2>3. both = dofs
    BY <2>1, <2>2 DEF BothFaces
  <2>4. /\ AddConstraintOn(LeastOf(rest), both)
        /\ IF Cardinality(rest) = 1 THEN todo' = Tail(todo) ELSE UNCHANGED todo
    BY <1>1, <1>4, <1>5, <2>2 DEF AddMortarConstraint
  <2> QED BY <1>7, <2>3, <2>4
<1>9. /\ ~closing /\ linear_constraints' = linear_constraints \cup {<<x, dofs>>}
      /\ UNCHANGED <<spaces_connections, extra_dofs_connectivity, interfaces, patches, is_patch_insertion_open,
                     spaces_with_original_dofs, spaces_with_renumbered_dofs, spaces_info, closing>>
  BY <1>8 DEF AddConstraintOn, numbering_vars, insertion_vars, block_vars, mp_vars
<1>10. s \in i.multiplier /\ s \in Multiplier /\ s \in Space
  <2>1. i.multiplier \subseteq Multiplier
    BY InterfaceTyped
  <2> QED BY <1>3, <1>4, <2>1 DEF MultiPatchAssumption
<1>11. Numbered(i)
  BY <1>1, <1>9, <1>10, InterfaceReady
<1>12. s \in RenumberedSpaces
  BY <1>10, <1>11 DEF Numbered
<1>13. rest # {}
  BY <1>2, <1>4, <1>5, <1>12 DEF CouplingInv, OneLeft
<1>14. IsFiniteSet(rest) /\ rest \subseteq Nat
  <2>1. IsFiniteSet(GlobalDofs(s)) /\ GlobalDofs(s) \subseteq Nat /\ rest \subseteq GlobalDofs(s)
    BY <1>5, <1>10, FiniteIds
  <2> QED BY <2>1, FS_Subset
<1>15. x \in rest
  BY <1>7, <1>13, <1>14, LeastIsIn
<1>16. AddedSpaces' = AddedSpaces /\ RenumberedSpaces' = RenumberedSpaces /\ AllInterfaces' = AllInterfaces
  BY <1>9 DEF AddedSpaces, RenumberedSpaces, SpacesIn, AllInterfaces
<1>17. /\ CallsInOrder'
       /\ \A name : Pending(name)' \subseteq Pending(name)
       /\ \A name : name # "add_linear_constraints" => Pending(name)' = Pending(name)
  <2>1. CASE todo' = todo
    <3>1. CallsInOrder'
      BY <2>1 DEF CouplingInv, CallsInOrder, Stage
    <3>2. \A name : Pending(name)' = Pending(name)
      BY <2>1 DEF Pending
    <3> QED BY <3>1, <3>2
  <2>2. CASE todo' = Tail(todo)
    BY <1>1, <2>2, Popped DEF CouplingInv
  <2> QED BY <1>8, <2>1, <2>2
<1>18. \/ Pending("add_linear_constraints")' = {c} /\ \E y \in rest : y # x
       \/ Pending("add_linear_constraints")' = {} /\ rest = {x}
  <2>1. CASE Cardinality(rest) = 1
    <3>1. rest = {x}
      BY <1>14, <1>15, <2>1, FS_Singleton
    <3>2. todo' = Tail(todo)
      BY <1>8, <2>1
    <3>3. Pending("add_linear_constraints")' = {}
      BY <1>1, <3>2, Popped DEF CouplingInv
    <3> QED BY <3>1, <3>3
  <2>2. CASE Cardinality(rest) # 1
    <3>1. rest # {x}
      BY <1>14, <2>2, FS_Singleton
    <3>2. todo' = todo
      BY <1>8, <2>2
    <3>3. Pending("add_linear_constraints")' = Pending("add_linear_constraints")
      BY <3>2 DEF Pending
    <3> QED BY <1>2, <1>15, <3>1, <3>3
  <2> QED BY <2>1, <2>2
<1>19. GlobalDofs(s)' = GlobalDofs(s) /\ dofs = BothFaces(i.patch_and_side)' /\ Numbered(i)'
  BY <1>6, <1>10, <1>11, NumberedStays
<1>20. ConstraintsOfMortars'
  <2>1. ASSUME NEW l \in linear_constraints
        PROVE  \E j \in AllInterfaces : \E r \in j.multiplier :
                 Numbered(j)' /\ l[1] \in GlobalDofs(r)' /\ l = <<l[1], BothFaces(j.patch_and_side)'>>
    <3>1. PICK j \in AllInterfaces : \E r \in j.multiplier :
                 Numbered(j) /\ l[1] \in GlobalDofs(r) /\ l = <<l[1], BothFaces(j.patch_and_side)>>
      BY DEF CouplingInv, ConstraintsOfMortars
    <3>2. Numbered(j)
      BY <3>1
    <3> QED BY <3>1, <3>2, NumberedStays
  <2>2. ASSUME NEW l, l = <<x, dofs>>
        PROVE  \E j \in AllInterfaces : \E r \in j.multiplier :
                 Numbered(j)' /\ l[1] \in GlobalDofs(r)' /\ l = <<l[1], BothFaces(j.patch_and_side)'>>
    <3>1. x \in GlobalDofs(s)'
      BY <1>5, <1>15, <1>19
    <3>2. l[1] = x
      BY <2>2
    <3> QED BY <1>10, <1>19, <2>2, <3>1, <3>2
  <2> QED BY <1>9, <1>16, <2>1, <2>2 DEF ConstraintsOfMortars
<1>21. MultipliersConstrained'
  <2>1. ASSUME NEW j \in AllInterfaces, NEW r \in j.multiplier,
               \A b \in Pending("add_linear_constraints")' : b.multiplier # r
        PROVE  /\ Numbered(j)'
               /\ \A d \in GlobalDofs(r)' : <<d, BothFaces(j.patch_and_side)'>> \in linear_constraints'
    <3>1. CASE r # s
      <4>1. /\ Numbered(j)
            /\ \A d \in GlobalDofs(r) : <<d, BothFaces(j.patch_and_side)>> \in linear_constraints
        BY <1>2, <1>4, <3>1 DEF CouplingInv, MultipliersConstrained
      <4> QED BY <1>9, <4>1, NumberedStays
    <3>2. CASE r = s
      <4>1. j = i
        BY <1>10, <3>2 DEF CouplingInv, MultipliersOnce
      <4>2. rest = {x}
        BY <1>4, <1>18, <2>1, <3>2
      <4>3. ASSUME NEW d \in GlobalDofs(s)
            PROVE  <<d, dofs>> \in linear_constraints'
        <5>1. CASE d = x
          BY <1>9, <5>1
        <5>2. CASE d # x
          <6>1. d \notin rest
            BY <4>2, <5>2
          <6>2. PICK l \in linear_constraints : l[1] = d
            BY <1>5, <6>1
          <6>3. PICK h \in AllInterfaces : \E q \in h.multiplier :
                  Numbered(h) /\ l[1] \in GlobalDofs(q) /\ l = <<l[1], BothFaces(h.patch_and_side)>>
            BY DEF CouplingInv, ConstraintsOfMortars
          <6>4. PICK q \in h.multiplier : Numbered(h) /\ l[1] \in GlobalDofs(q) /\ l = <<l[1], BothFaces(h.patch_and_side)>>
            BY <6>3
          <6>5. q \in RenumberedSpaces
            BY <6>4 DEF Numbered
          <6>6. q = s
            BY <1>12, <6>2, <6>4, <6>5, ApartIds
          <6>7. h = i
            BY <1>10, <6>6 DEF CouplingInv, MultipliersOnce
          <6> QED BY <1>6, <1>9, <6>2, <6>4, <6>7
        <5> QED BY <5>1, <5>2
      <4> QED BY <1>19, <3>2, <4>1, <4>3
    <3> QED BY <3>1, <3>2
  <2> QED BY <1>16, <2>1 DEF MultipliersConstrained
<1>22. OneLeft'
  <2>1. ASSUME NEW b \in Pending("add_linear_constraints")'
        PROVE  \E d \in GlobalDofs(b.multiplier)' : \A l \in linear_constraints' : l[1] # d
    <3>1. b = c /\ \E y \in rest : y # x
      BY <1>18, <2>1
    <3>2. PICK y \in rest : y # x
      BY <3>1
    <3>3. y \in GlobalDofs(s)' /\ \A l \in linear_constraints : l[1] # y
      BY <1>5, <1>19
    <3>4. \A l \in linear_constraints' : l[1] # y
      <4>1. \A l : l = <<x, dofs>> => l[1] # y
        BY <3>2
      <4> QED BY <1>9, <3>3, <4>1
    <3> QED BY <1>4, <3>1, <3>3, <3>4
  <2> QED BY <2>1 DEF OneLeft
<1>23. ClosedPatches' = ClosedPatches
  <2>1. Pending("patches_inserted")' = Pending("patches_inserted")
    BY <1>17
  <2> QED BY <1>9, <2>1 DEF ClosedPatches, Patches
<1>24. (\A r, q : Extra(r, q)' = Extra(r, q)) /\ BlocksManaged' /\ BlocksExpected' /\ PatchesUsed'
  BY <1>9, <1>16, <1>17, <1>23, BlocksStay DEF CouplingInv
<1>25. PatchesPlain' /\ FacesConnected'
  <2>1. PatchesPlain'
    BY <1>24 DEF CouplingInv, PatchesPlain
  <2>2. FacesConnected'
    BY <1>9, <1>17, <1>24, FacesStay DEF CouplingInv
  <2> QED BY <2>1, <2>2
<1>26. CallsOfInterfaces' /\ NumbersFirst' /\ MultipliersOnce'
  <2>1. CallsOfInterfaces'
    BY <1>16, <1>17 DEF CouplingInv, CallsOfInterfaces
  <2>2. NumbersFirst'
    BY <1>2, <1>9, <1>17 DEF CouplingInv, NumbersFirst
  <2>3. MultipliersOnce'
    BY <1>16 DEF CouplingInv, MultipliersOnce
  <2> QED BY <2>1, <2>2, <2>3
<1> QED BY <1>17, <1>20, <1>21, <1>22, <1>24, <1>25, <1>26 DEF CouplingInv

-----------------------------------------------------------------------------
(* The calls of clients.                                                     *)

\* Between calls nothing is pending.
LEMMA NothingPending ==
  ASSUME todo = << >>
  PROVE  \A name : Pending(name) = {}
  BY DEF Pending

\* A client does what leaves the manager and the interfaces alone.
LEMMA QuietClient ==
  ASSUME CouplingInv, IdsStay, todo = << >>, UNCHANGED <<vars, interfaces>>, CallsInOrder', ClosedPatches' = ClosedPatches,
         Pending("connect_face")' = {}, Pending("add_linear_constraints")' = {}, Pending("add_spaces_connection")' = {}
  PROVE  CouplingInv'
<1>1. UNCHANGED <<spaces_connections, extra_dofs_connectivity, linear_constraints, spaces_info>>
  BY DEF vars, numbering_vars, block_vars, constraint_vars
<1>2. AddedSpaces' = AddedSpaces
  BY <1>1 DEF AddedSpaces
<1>3. NumbersFirst'
  BY DEF NumbersFirst
<1>4. OneLeft'
  BY DEF OneLeft
<1> QED BY <1>1, <1>2, <1>3, <1>4, NothingPending, QuietStep

\* The calls of opening a phase, and of adding a patch.
LEMMA OneCall ==
  ASSUME NEW c, todo' = << c >>, c.call \in {"spaces_insertion_open", "add_space"}
  PROVE  /\ CallsInOrder'
         /\ \A name : name \notin {"spaces_insertion_open", "add_space"} => Pending(name)' = {}
<1>1. Len(todo') = 1 /\ todo'[1] = c
  OBVIOUS
<1>2. CallsInOrder'
  <2>1. \A i, j \in 1 .. Len(todo') : ~(i < j)
    BY <1>1
  <2> QED BY <2>1 DEF CallsInOrder
<1>3. ASSUME NEW name, name \notin {"spaces_insertion_open", "add_space"}
      PROVE  Pending(name)' = {}
  BY <1>1, <1>3 DEF Pending
<1> QED BY <1>2, <1>3

\* Patches are closed only by the call that closes them.
LEMMA OpeningCouples ==
  ASSUME MultiPatchTypeOK, CouplingInv, IdsStay, NEW m \in MultiPatchSpaces,
         \/ PatchInsertionOpen(m)
         \/ \E p \in Patch : AddPatch(m, p)
         \/ InterfaceInsertionOpen(m)
         \/ InterfaceInsertionClose(m)
  PROVE  CouplingInv'
<1>1. CASE PatchInsertionOpen(m)
  <2>1. /\ todo = << >> /\ UNCHANGED <<vars, interfaces, patches>> /\ patches[m] = << >>
        /\ is_patch_insertion_open' = [is_patch_insertion_open EXCEPT ![m] = TRUE]
        /\ todo' = << [call |-> "spaces_insertion_open"] >>
    BY <1>1 DEF PatchInsertionOpen, Idle
  <2>2. CallsInOrder' /\ \A name : name \notin {"spaces_insertion_open", "add_space"} => Pending(name)' = {}
    BY <2>1, OneCall
  <2>3. Patches(m) = {} /\ \A n : Patches(n)' = Patches(n)
    BY <2>1 DEF Patches
  <2>4. ClosedPatches' = ClosedPatches
    <3>1. Pending("patches_inserted") = {} /\ Pending("patches_inserted")' = {}
      BY <2>1, <2>2, NothingPending
    <3>2. ASSUME NEW n \in MultiPatchSpaces, n # m
          PROVE  is_patch_insertion_open'[n] = is_patch_insertion_open[n]
      BY <2>1, <3>2 DEF MultiPatchTypeOK
    <3>3. ASSUME NEW p
          PROVE  p \in ClosedPatches' <=> p \in ClosedPatches
      <4>1. p \in ClosedPatches <=> \E n \in MultiPatchSpaces : n # m /\ ~is_patch_insertion_open[n] /\ p \in Patches(n)
        BY <2>3, <3>1 DEF ClosedPatches
      <4>2. p \in ClosedPatches' <=> \E n \in MultiPatchSpaces : n # m /\ ~is_patch_insertion_open'[n] /\ p \in Patches(n)'
        BY <2>3, <3>1 DEF ClosedPatches
      <4> QED BY <2>3, <3>2, <4>1, <4>2
    <3> QED BY <3>3
  <2> QED BY <2>1, <2>2, <2>4, QuietClient
<1>2. ASSUME NEW p \in Patch, AddPatch(m, p)
      PROVE  CouplingInv'
  <2>1. /\ todo = << >> /\ UNCHANGED <<vars, interfaces, is_patch_insertion_open>>
        /\ is_patch_insertion_open[m]
        /\ \A n \in MultiPatchSpaces : n # m => patches'[n] = patches[n]
        /\ todo' = << [call |-> "add_space", space |-> p] >>
    BY <1>2 DEF AddPatch, Idle, MultiPatchTypeOK
  <2>2. CallsInOrder' /\ \A name : name \notin {"spaces_insertion_open", "add_space"} => Pending(name)' = {}
    BY <2>1, OneCall
  <2>3. \A n \in MultiPatchSpaces : n # m => Patches(n)' = Patches(n)
    BY <2>1 DEF Patches
  <2>4. ClosedPatches' = ClosedPatches
    <3>1. Pending("patches_inserted") = {} /\ Pending("patches_inserted")' = {}
      BY <2>1, <2>2, NothingPending
    <3>2. ASSUME NEW q
          PROVE  q \in ClosedPatches' <=> q \in ClosedPatches
      <4>1. q \in ClosedPatches <=> \E n \in MultiPatchSpaces : n # m /\ ~is_patch_insertion_open[n] /\ q \in Patches(n)
        BY <2>1, <3>1 DEF ClosedPatches
      <4>2. q \in ClosedPatches' <=> \E n \in MultiPatchSpaces : n # m /\ ~is_patch_insertion_open'[n] /\ q \in Patches(n)'
        BY <2>1, <3>1 DEF ClosedPatches
      <4> QED BY <2>1, <2>3, <4>1, <4>2
    <3> QED BY <3>2
  <2> QED BY <2>1, <2>2, <2>4, QuietClient
<1>3. CASE InterfaceInsertionOpen(m) \/ InterfaceInsertionClose(m)
  <2>1. todo = << >> /\ todo' = todo /\ UNCHANGED <<vars, interfaces, patches, is_patch_insertion_open>>
    BY <1>3 DEF InterfaceInsertionOpen, InterfaceInsertionClose, Idle
  <2>2. (\A name : Pending(name)' = Pending(name)) /\ \A name : Pending(name) = {}
    BY <2>1, NothingPending DEF Pending
  <2>3. CallsInOrder'
    BY <2>1 DEF CouplingInv, CallsInOrder, Stage
  <2>4. ClosedPatches' = ClosedPatches
    <3>1. Pending("patches_inserted")' = Pending("patches_inserted")
      BY <2>2
    <3> QED BY <2>1, <3>1 DEF ClosedPatches, Patches
  <2> QED BY <2>1, <2>2, <2>3, <2>4, QuietClient
<1> QED BY <1>1, <1>2, <1>3

\* A sequence and one more element, at its end and at its beginning.
LEMMA OneMore ==
  ASSUME NEW C, NEW k \in Nat, NEW s \in Seq(C), Len(s) = k, NEW x \in C
  PROVE  /\ s \o << x >> \in Seq(C) /\ Len(s \o << x >>) = k + 1
         /\ (s \o << x >>)[k + 1] = x /\ \A i \in 1 .. k : (s \o << x >>)[i] = s[i]
         /\ << x >> \o s \in Seq(C) /\ Len(<< x >> \o s) = k + 1
         /\ (<< x >> \o s)[1] = x /\ \A i \in 1 .. k : (<< x >> \o s)[i + 1] = s[i]
<1>1. PICK t : t = << x >>
  OBVIOUS
<1>2. t \in Seq(C) /\ Len(t) = 1 /\ t[1] = x
  BY <1>1
<1>3. /\ s \o t \in Seq(C) /\ Len(s \o t) = k + 1
      /\ \A i \in 1 .. k + 1 : (s \o t)[i] = IF i <= k THEN s[i] ELSE t[i - k]
  <2>1. /\ s \o t \in Seq(C) /\ Len(s \o t) = Len(s) + Len(t)
        /\ \A i \in 1 .. Len(s) + Len(t) : (s \o t)[i] = IF i <= Len(s) THEN s[i] ELSE t[i - Len(s)]
    <3>1. s \in Seq(C) /\ t \in Seq(C)
      BY <1>2
    <3> QED BY <3>1, ConcatProperties
  <2> QED BY <1>2, <2>1
<1>4. /\ t \o s \in Seq(C) /\ Len(t \o s) = 1 + k
      /\ \A i \in 1 .. 1 + k : (t \o s)[i] = IF i <= 1 THEN t[i] ELSE s[i - 1]
  <2>1. /\ t \o s \in Seq(C) /\ Len(t \o s) = Len(t) + Len(s)
        /\ \A i \in 1 .. Len(t) + Len(s) : (t \o s)[i] = IF i <= Len(t) THEN t[i] ELSE s[i - Len(t)]
    <3>1. t \in Seq(C) /\ s \in Seq(C)
      BY <1>2
    <3> QED BY <3>1, ConcatProperties
  <2> QED BY <1>2, <2>1
<1>5. (s \o t)[k + 1] = x /\ \A i \in 1 .. k : (s \o t)[i] = s[i]
  <2>1. k + 1 \in 1 .. k + 1 /\ ~(k + 1 <= k) /\ (k + 1) - k = 1
    OBVIOUS
  <2>2. \A i \in 1 .. k : i \in 1 .. k + 1 /\ i <= k
    OBVIOUS
  <2> QED BY <1>2, <1>3, <2>1, <2>2
<1>6. (t \o s)[1] = x /\ \A i \in 1 .. k : (t \o s)[i + 1] = s[i]
  <2>1. 1 \in 1 .. 1 + k
    OBVIOUS
  <2>2. \A i \in 1 .. k : i + 1 \in 1 .. 1 + k /\ ~(i + 1 <= 1) /\ (i + 1) - 1 = i
    OBVIOUS
  <2> QED BY <1>2, <1>4, <2>1, <2>2
<1> QED BY <1>1, <1>3, <1>4, <1>5, <1>6

\* So it is when the end is named.
LEMMA OneAtEnd ==
  ASSUME NEW C, NEW k \in Nat, NEW s \in Seq(C), Len(s) = k, NEW x \in C, NEW t, t = s \o << x >>
  PROVE  t \in Seq(C) /\ Len(t) = k + 1 /\ t[k + 1] = x /\ \A i \in 1 .. k : t[i] = s[i]
  BY OneMore

\* A sequence between four elements, and what is where in it.
Around(b, u, v, w, x) == << u >> \o (<< v >> \o b \o << w >>) \o << x >>

Between(q, n, u, v, b, w, x) ==
  /\ Len(q) = n + 4
  /\ q[1] = u /\ q[2] = v /\ q[n + 3] = w /\ q[n + 4] = x
  /\ \A i \in 1 .. n : q[i + 2] = b[i]

\* A sequence between four elements.
LEMMA SequenceBetween ==
  ASSUME NEW C, NEW n \in Nat, NEW b \in [1 .. n -> C], NEW u \in C, NEW v \in C, NEW w \in C, NEW x \in C,
         NEW q, q = Around(b, u, v, w, x)
  PROVE  Between(q, n, u, v, b, w, x)
<1>1. b \in Seq(C) /\ Len(b) = n
  OBVIOUS
<1>2. PICK vb : vb = << v >> \o b
  OBVIOUS
<1>3. vb \in Seq(C) /\ Len(vb) = n + 1 /\ vb[1] = v /\ \A i \in 1 .. n : vb[i + 1] = b[i]
  BY <1>1, <1>2, OneMore
<1>4. PICK vbw : vbw = vb \o << w >>
  OBVIOUS
<1>5. vbw \in Seq(C) /\ Len(vbw) = n + 2 /\ vbw[n + 2] = w /\ \A i \in 1 .. n + 1 : vbw[i] = vb[i]
  <2>1. PICK k \in Nat : k = n + 1 /\ k + 1 = n + 2
    OBVIOUS
  <2>2. vb \in Seq(C) /\ Len(vb) = k
    BY <1>3, <2>1
  <2>3. vbw \in Seq(C) /\ Len(vbw) = k + 1 /\ vbw[k + 1] = w /\ \A i \in 1 .. k : vbw[i] = vb[i]
    BY <1>4, <2>2, OneAtEnd
  <2> QED BY <1>3, <1>4, <2>1, <2>3
<1>6. PICK uvbw : uvbw = << u >> \o vbw
  OBVIOUS
<1>7. uvbw \in Seq(C) /\ Len(uvbw) = n + 3 /\ uvbw[1] = u /\ \A i \in 1 .. n + 2 : uvbw[i + 1] = vbw[i]
  <2>1. n + 2 \in Nat /\ (n + 2) + 1 = n + 3
    OBVIOUS
  <2> QED BY <1>5, <1>6, <2>1, OneMore
<1>8. q = uvbw \o << x >>
  BY <1>2, <1>4, <1>6 DEF Around
<1>9. Len(q) = n + 4 /\ q[n + 4] = x /\ \A i \in 1 .. n + 3 : q[i] = uvbw[i]
  <2>1. PICK k \in Nat : k = n + 3 /\ k + 1 = n + 4
    OBVIOUS
  <2>2. uvbw \in Seq(C) /\ Len(uvbw) = k
    BY <1>7, <2>1
  <2>3. q \in Seq(C) /\ Len(q) = k + 1 /\ q[k + 1] = x /\ \A i \in 1 .. k : q[i] = uvbw[i]
    BY <1>8, <2>2, OneAtEnd
  <2> QED BY <1>7, <1>8, <2>1, <2>3
<1>10. q[1] = u
  BY <1>7, <1>9
<1>11. \A i \in 1 .. n + 2 : q[i + 1] = vbw[i]
  <2>1. \A i \in 1 .. n + 2 : i + 1 \in 1 .. n + 3
    OBVIOUS
  <2> QED BY <1>7, <1>9, <2>1
<1>12. q[2] = v
  <2>1. q[1 + 1] = vbw[1] /\ 1 + 1 = 2 /\ vbw[1] = vb[1]
    BY <1>5, <1>11
  <2> QED BY <1>3, <2>1
<1>13. q[n + 3] = w
  <2>1. n + 2 \in 1 .. n + 2 /\ (n + 2) + 1 = n + 3
    OBVIOUS
  <2> QED BY <1>5, <1>11, <2>1
<1>14. ASSUME NEW i \in 1 .. n
       PROVE  q[i + 2] = b[i]
  <2>1. i + 1 \in 1 .. n + 1 /\ i + 1 \in 1 .. n + 2 /\ (i + 1) + 1 = i + 2
    OBVIOUS
  <2> QED BY <1>3, <1>5, <1>11, <2>1
<1> QED BY <1>9, <1>10, <1>12, <1>13, <1>14 DEF Between

\* The calls of patch_insertion_close: the spaces are numbered, then each patch
\* gets its block.
LEMMA CallsOfClosing ==
  ASSUME MultiPatchTypeOK, NEW m \in MultiPatchSpaces, NEW renumber,
         todo' = << [call |-> "spaces_insertion_close", renumber |-> renumber] >>
                   \o PatchBlocks(m) \o << [call |-> "patches_inserted", of |-> m] >>
  PROVE  /\ CallsInOrder'
         /\ Pending("connect_face")' = {} /\ Pending("add_linear_constraints")' = {}
         /\ \A c \in Pending("add_spaces_connection")' : c.use = TRUE /\ c.row = c.col
         /\ {<<c.row, c.col>> : c \in Pending("add_spaces_connection")'} = {<<p, p>> : p \in Patches(m)}
         /\ Pending("patches_inserted")' = {[call |-> "patches_inserted", of |-> m]}
<1>1. PICK n \in Nat : n = Len(patches[m])
  BY DEF MultiPatchTypeOK
<1>19. PICK p : p = patches[m]
  OBVIOUS
<1>2. PICK b : b = [i \in 1 .. n |-> [call |-> "add_spaces_connection", row |-> p[i], col |-> p[i], use |-> TRUE]]
  OBVIOUS
<1>3. PICK first : first = [call |-> "spaces_insertion_close", renumber |-> renumber]
  OBVIOUS
<1>4. PICK last : last = [call |-> "patches_inserted", of |-> m]
  OBVIOUS
<1>5. PICK open : open = [call |-> "spaces_connectivity_open"]
  OBVIOUS
<1>6. PICK close : close = [call |-> "spaces_connectivity_close"]
  OBVIOUS
<1>7. todo' = << first >> \o (<< open >> \o b \o << close >>) \o << last >>
  BY <1>1, <1>2, <1>3, <1>4, <1>5, <1>6, <1>19 DEF PatchBlocks
<1>8. PICK C : /\ first \in C /\ open \in C /\ close \in C /\ last \in C
              /\ b \in [1 .. n -> C]
  <2>1. PICK C : C = {first, open, close, last} \cup {b[i] : i \in 1 .. n}
    OBVIOUS
  <2>2. b \in [1 .. n -> C]
    BY <1>2, <2>1
  <2> QED BY <2>1, <2>2
<1>20. PICK made : made = todo'
  OBVIOUS
<1>9. /\ Len(todo') = n + 4
      /\ todo'[1] = first /\ todo'[2] = open /\ todo'[n + 3] = close /\ todo'[n + 4] = last
      /\ \A i \in 1 .. n : todo'[i + 2] = b[i]
  <2>1. made = Around(b, first, open, close, last)
    BY <1>20, <1>7 DEF Around
  <2>2. Between(made, n, first, open, b, close, last)
    BY <1>8, <2>1, SequenceBetween
  <2> QED BY <1>20, <2>2 DEF Between
<1>10. ASSUME NEW i \in 1 .. n + 4
       PROVE  \/ i = 1 /\ todo'[i] = first
              \/ i = 2 /\ todo'[i] = open
              \/ i \in 3 .. n + 2 /\ \E k \in 1 .. n : todo'[i] = b[k]
              \/ i = n + 3 /\ todo'[i] = close
              \/ i = n + 4 /\ todo'[i] = last
  <2>1. CASE i \in 3 .. n + 2
    <3>1. i - 2 \in 1 .. n /\ (i - 2) + 2 = i
      BY <2>1
    <3> QED BY <1>9, <2>1, <3>1
  <2>2. CASE i \notin 3 .. n + 2
    <3>1. i = 1 \/ i = 2 \/ i = n + 3 \/ i = n + 4
      BY <2>2
    <3> QED BY <1>9, <3>1
  <2> QED BY <2>1, <2>2
<1>11. /\ first.call = "spaces_insertion_close" /\ open.call = "spaces_connectivity_open"
       /\ close.call = "spaces_connectivity_close" /\ last.call = "patches_inserted"
       /\ \A i \in 1 .. n : b[i].call = "add_spaces_connection" /\ b[i].use = TRUE /\ b[i].row = p[i] /\ b[i].col = p[i]
  BY <1>2, <1>3, <1>4, <1>5, <1>6
<1>12. CallsInOrder'
  <2>1. /\ Stage(first) = 2 /\ Stage(open) = 3 /\ Stage(close) = 3 /\ Stage(last) = 4
        /\ \A i \in 1 .. n : Stage(b[i]) = 3
    BY <1>11 DEF Stage
  <2>2. ASSUME NEW i \in 1 .. n + 4
        PROVE  /\ Stage(todo'[i]) = IF i = 1 THEN 2 ELSE IF i = n + 4 THEN 4 ELSE 3
               /\ todo'[i].call \notin {"connect_face", "add_linear_constraints"}
    <3>0. PICK c : c = todo'[i]
      OBVIOUS
    <3>1. CASE i = 1 /\ c = first
      BY <1>11, <2>1, <3>0, <3>1
    <3>2. CASE i = n + 4 /\ c = last
      <4>1. i # 1
        BY <3>2
      <4> QED BY <1>11, <2>1, <3>0, <3>2, <4>1
    <3>3. CASE i # 1 /\ i # n + 4 /\ (c = open \/ c = close \/ \E k \in 1 .. n : c = b[k])
      BY <1>11, <2>1, <3>0, <3>3
    <3>4. /\ i \in 3 .. n + 2 => i # 1 /\ i # n + 4
          /\ i = 2 => i # 1 /\ i # n + 4
          /\ i = n + 3 => i # 1 /\ i # n + 4
      OBVIOUS
    <3>5. \/ i = 1 /\ c = first
          \/ i = n + 4 /\ c = last
          \/ i # 1 /\ i # n + 4 /\ (c = open \/ c = close \/ \E k \in 1 .. n : c = b[k])
      BY <1>10, <3>0, <3>4
    <3> QED BY <3>1, <3>2, <3>3, <3>5
  <2>3. ASSUME NEW i \in 1 .. n + 4, NEW j \in 1 .. n + 4, i < j
        PROVE  Stage(todo'[i]) <= Stage(todo'[j])
    <3>1. j # 1 /\ i # n + 4
      BY <2>3
    <3>2. PICK x, y : x = Stage(todo'[i]) /\ y = Stage(todo'[j])
      OBVIOUS
    <3>3. x = (IF i = 1 THEN 2 ELSE 3) /\ y = (IF j = n + 4 THEN 4 ELSE 3)
      BY <2>2, <3>1, <3>2
    <3>4. x <= y
      BY <3>3
    <3> QED BY <3>2, <3>4
  <2>4. ASSUME NEW i \in 1 .. n + 4, NEW j \in 1 .. n + 4, i < j
        PROVE  /\ Stage(todo'[i]) <= Stage(todo'[j])
               /\ todo'[i].call = "connect_face" /\ todo'[j].call = "connect_face" =>
                    todo'[i].side[1] # todo'[j].side[1]
               /\ ~(todo'[i].call = "add_linear_constraints" /\ todo'[j].call = "add_linear_constraints")
    BY <2>2, <2>3, <2>4
  <2> QED BY <1>9, <2>4 DEF CallsInOrder, Stage
<1>13. ASSUME NEW name, NEW c \in Pending(name)'
       PROVE  \/ c = first /\ name = "spaces_insertion_close"
              \/ c = open /\ name = "spaces_connectivity_open"
              \/ (\E i \in 1 .. n : c = b[i]) /\ name = "add_spaces_connection"
              \/ c = close /\ name = "spaces_connectivity_close"
              \/ c = last /\ name = "patches_inserted"
  <2>1. PICK i \in 1 .. n + 4 : c = todo'[i] /\ c.call = name
    BY <1>9, <1>13 DEF Pending
  <2> QED BY <1>10, <1>11, <2>1
<1>14. Pending("connect_face")' = {} /\ Pending("add_linear_constraints")' = {}
  BY <1>13
<1>15. Pending("patches_inserted")' = {last}
  <2>1. n + 4 \in 1 .. n + 4
    BY <1>1
  <2>2. last \in Pending("patches_inserted")'
    BY <1>9, <1>11, <2>1 DEF Pending
  <2>3. \A c \in Pending("patches_inserted")' : c = last
    BY <1>13
  <2> QED BY <2>2, <2>3
<1>16. ASSUME NEW i \in 1 .. n
       PROVE  b[i] \in Pending("add_spaces_connection")'
  <2>1. i + 2 \in 1 .. n + 4
    OBVIOUS
  <2>2. b[i] \in {todo'[k] : k \in 1 .. Len(todo')}
    BY <1>9, <2>1
  <2> QED BY <1>11, <2>2 DEF Pending
<1>17. \A c \in Pending("add_spaces_connection")' : \E i \in 1 .. n : c = b[i]
  BY <1>13
<1>18. {<<c.row, c.col>> : c \in Pending("add_spaces_connection")'} = {<<q, q>> : q \in Patches(m)}
  <2>1. ASSUME NEW c \in Pending("add_spaces_connection")'
        PROVE  \E q \in Patches(m) : <<c.row, c.col>> = <<q, q>>
    <3>1. PICK i \in 1 .. n : c = b[i]
      BY <1>17
    <3> QED BY <1>1, <1>11, <1>19, <3>1 DEF Patches
  <2>2. ASSUME NEW q \in Patches(m)
        PROVE  \E c \in Pending("add_spaces_connection")' : <<c.row, c.col>> = <<q, q>>
    <3>1. PICK i \in 1 .. n : q = p[i]
      BY <1>1, <1>19 DEF Patches
    <3> QED BY <1>11, <1>16, <3>1
  <2>3. PICK P : P = Pending("add_spaces_connection")'
    OBVIOUS
  <2>4. PICK Q : Q = Patches(m)
    OBVIOUS
  <2>5. {<<c.row, c.col>> : c \in P} = {<<q, q>> : q \in Q}
    BY <2>1, <2>2, <2>3, <2>4
  <2> QED BY <2>3, <2>4, <2>5
<1> QED BY <1>4, <1>11, <1>12, <1>14, <1>15, <1>17, <1>18

\* The patches get their blocks.
LEMMA ClosingCouples ==
  ASSUME MultiPatchTypeOK, CouplingInv, IdsStay, NEW m \in MultiPatchSpaces, NEW renumber, PatchInsertionClose(m, renumber)
  PROVE  CouplingInv'
<1>1. /\ todo = << >> /\ UNCHANGED <<vars, interfaces, patches, is_patch_insertion_open>>
      /\ todo' = << [call |-> "spaces_insertion_close", renumber |-> renumber] >>
                   \o PatchBlocks(m) \o << [call |-> "patches_inserted", of |-> m] >>
  BY DEF PatchInsertionClose, Idle, mp_vars
<1>2. PICK last : last = [call |-> "patches_inserted", of |-> m]
  OBVIOUS
<1>3. PICK made : made = {<<p, p>> : p \in Patches(m)}
  OBVIOUS
<1>4. /\ CallsInOrder'
      /\ Pending("connect_face")' = {} /\ Pending("add_linear_constraints")' = {}
      /\ \A c \in Pending("add_spaces_connection")' : c.use = TRUE /\ c.row = c.col
      /\ {<<c.row, c.col>> : c \in Pending("add_spaces_connection")'} = made
      /\ Pending("patches_inserted")' = {last} /\ last.of = m
  BY <1>1, <1>2, <1>3, CallsOfClosing
<1>5. \A name : Pending(name) = {}
  BY <1>1, NothingPending
<1>6. /\ UNCHANGED <<spaces_connections, extra_dofs_connectivity, linear_constraints, spaces_info,
                     spaces_with_renumbered_dofs>>
      /\ AddedSpaces' = AddedSpaces /\ AllInterfaces' = AllInterfaces /\ Blocks' = Blocks
  BY <1>1 DEF vars, numbering_vars, block_vars, constraint_vars, AddedSpaces, AllInterfaces, Blocks
<1>7. ClosedPatches' = ClosedPatches \cup Patches(m)
  <2>1. ASSUME NEW q
        PROVE  q \in ClosedPatches' <=> q \in ClosedPatches \/ q \in Patches(m)
    <3>1. \A n : Patches(n)' = Patches(n)
      BY <1>1 DEF Patches
    <3>2. q \in ClosedPatches <=> \E n \in MultiPatchSpaces : ~is_patch_insertion_open[n] /\ q \in Patches(n)
      BY <1>5 DEF ClosedPatches
    <3>3. q \in ClosedPatches' <=>
            \E n \in MultiPatchSpaces : (~is_patch_insertion_open'[n] \/ n = m) /\ q \in Patches(n)'
      BY <1>4 DEF ClosedPatches
    <3> QED BY <1>1, <3>1, <3>2, <3>3
  <2> QED BY <2>1
<1>8. BlocksExpected'
  <2>1. {<<p, p>> : p \in ClosedPatches \cup Patches(m)} = {<<p, p>> : p \in ClosedPatches} \cup made
    BY <1>3
  <2>2. Blocks = {<<p, p>> : p \in ClosedPatches} \cup UNION {BlocksOf(i) : i \in AllInterfaces}
    BY <1>5 DEF CouplingInv, BlocksExpected
  <2>3. Blocks' \cup {<<c.row, c.col>> : c \in Pending("add_spaces_connection")'}
          = {<<p, p>> : p \in ClosedPatches'} \cup UNION {BlocksOf(i) : i \in AllInterfaces'}
    BY <1>4, <1>6, <1>7, <2>1, <2>2
  <2> QED BY <2>3 DEF BlocksExpected, BlocksOf
<1>9. PatchesUsed'
  BY <1>4, <1>6 DEF CouplingInv, PatchesUsed
<1>10. \A r, c : Extra(r, c)' = Extra(r, c)
  BY <1>6 DEF Extra
<1>11. BlocksManaged' /\ PatchesPlain'
  BY <1>6, <1>10 DEF CouplingInv, BlocksManaged, PatchesPlain
<1>12. FacesConnected'
  BY <1>1, <1>4, <1>5, <1>10, FacesStay DEF CouplingInv
<1>13. ConstraintsOfMortars' /\ MultipliersConstrained'
  BY <1>1, <1>4, <1>5, <1>6, ConstraintsStay DEF CouplingInv
<1>14. CallsOfInterfaces' /\ NumbersFirst' /\ MultipliersOnce' /\ OneLeft'
  BY <1>4, <1>6 DEF CouplingInv, CallsOfInterfaces, NumbersFirst, MultipliersOnce, OneLeft
<1> QED BY <1>4, <1>8, <1>9, <1>11, <1>12, <1>13, <1>14 DEF CouplingInv

\* The pairs of a face and a multiplier are all still to be made.
Unconnected(side, s) ==
  /\ \E c \in Pending("connect_face") : c.side[1] = side[1] /\ c.multiplier = s
  /\ Extra(side[1], s) = {} /\ Extra(s, side[1]) = {}

\* An interface whose calls are all still to be made.
LEMMA NewInterfaceCouples ==
  ASSUME CouplingInv, IdsStay, todo = << >>, UNCHANGED <<vars, patches, is_patch_insertion_open>>,
         NEW i, AllInterfaces' = AllInterfaces \cup {i},
         \A j \in AllInterfaces : j.multiplier \cap i.multiplier = {},
         i.multiplier # {} => i.type = "Mortar",
         CallsInOrder', CallsOfInterfaces', NumbersFirst', Pending("patches_inserted")' = {},
         {<<c.row, c.col>> : c \in Pending("add_spaces_connection")'} = BlocksOf(i),
         \A c \in Pending("add_spaces_connection")' : c.use <=> c.row = c.col,
         \A k \in {1, 2} : \A s \in i.multiplier : Unconnected(i.patch_and_side[k], s)',
         \A c \in Pending("connect_face")' : c.multiplier \in i.multiplier,
         \A s \in i.multiplier : \E c \in Pending("add_linear_constraints")' : c.multiplier = s,
         \A c \in Pending("add_linear_constraints")' : c.multiplier \in i.multiplier /\ c.multiplier \notin RenumberedSpaces
  PROVE  CouplingInv'
<1>1. /\ UNCHANGED <<spaces_connections, extra_dofs_connectivity, linear_constraints, spaces_info,
                     spaces_with_renumbered_dofs>>
      /\ AddedSpaces' = AddedSpaces /\ Blocks' = Blocks /\ RenumberedSpaces' = RenumberedSpaces
  BY DEF vars, numbering_vars, block_vars, constraint_vars, AddedSpaces, Blocks, RenumberedSpaces, SpacesIn
<1>2. \A name : Pending(name) = {}
  BY NothingPending
<1>3. \A r, c : Extra(r, c)' = Extra(r, c)
  BY <1>1 DEF Extra
<1>4. BlocksManaged' /\ PatchesPlain'
  BY <1>1, <1>3 DEF CouplingInv, BlocksManaged, PatchesPlain
<1>5. PatchesUsed'
  BY <1>1 DEF CouplingInv, PatchesUsed
<1>6. ClosedPatches' = ClosedPatches
  BY <1>2 DEF ClosedPatches, Patches
<1>7. BlocksExpected'
  <2>1. Blocks = {<<p, p>> : p \in ClosedPatches} \cup UNION {BlocksOf(j) : j \in AllInterfaces}
    BY <1>2 DEF CouplingInv, BlocksExpected
  <2>2. UNION {BlocksOf(j) : j \in AllInterfaces \cup {i}} = (UNION {BlocksOf(j) : j \in AllInterfaces}) \cup BlocksOf(i)
    OBVIOUS
  <2>3. Blocks' \cup {<<c.row, c.col>> : c \in Pending("add_spaces_connection")'}
          = {<<p, p>> : p \in ClosedPatches'} \cup UNION {BlocksOf(j) : j \in AllInterfaces'}
    BY <1>1, <1>6, <2>1, <2>2
  <2> QED BY <2>3 DEF BlocksExpected, BlocksOf
<1>8. MultipliersOnce'
  <2>1. ASSUME NEW j \in AllInterfaces \cup {i}, NEW h \in AllInterfaces \cup {i}, NEW s \in j.multiplier
        PROVE  j.type = "Mortar" /\ (s \in h.multiplier => j = h)
    <3>1. CASE j \in AllInterfaces /\ h \in AllInterfaces
      BY <3>1 DEF CouplingInv, MultipliersOnce
    <3>2. CASE j \in AllInterfaces /\ h = i
      <4>1. j.type = "Mortar"
        BY <3>2 DEF CouplingInv, MultipliersOnce
      <4> QED BY <3>2, <4>1
    <3>3. CASE j = i
      BY <3>3
    <3> QED BY <3>1, <3>2, <3>3
  <2> QED BY <2>1 DEF MultipliersOnce
<1>9. FacesConnected'
  <2>1. ASSUME NEW j \in AllInterfaces \cup {i}, NEW k \in {1, 2}, NEW s \in j.multiplier
        PROVE  IF \E c \in Pending("connect_face")' : c.side[1] = j.patch_and_side[k][1] /\ c.multiplier = s
               THEN Connecting(j.patch_and_side[k], s)'
               ELSE Connected(j.patch_and_side[k], s)'
    <3>1. PICK side : side = j.patch_and_side[k]
      OBVIOUS
    <3>2. CASE s \in i.multiplier
      <4>1. j = i
        BY <2>1, <3>2
      <4>2. Unconnected(side, s)'
        BY <3>1, <3>2, <4>1
      <4>3. \E c \in Pending("connect_face")' : c.side[1] = side[1] /\ c.multiplier = s
        BY <4>2 DEF Unconnected
      <4>4. Connecting(side, s)'
        BY <4>2 DEF Connecting, Unconnected
      <4> QED BY <3>1, <4>3, <4>4
    <3>3. CASE s \notin i.multiplier
      <4>1. j \in AllInterfaces
        BY <3>3
      <4>2. FacesConnected
        BY DEF CouplingInv
      <4>3. Connected(side, s)
        BY <1>2, <3>1, <4>1, <4>2, FaceState
      <4>4. Connected(side, s)'
        BY <1>3, <4>3, ConnectedStays
      <4> QED BY <3>1, <3>3, <4>4
    <3> QED BY <3>2, <3>3
  <2> QED BY <2>1 DEF FacesConnected
<1>10. ConstraintsOfMortars'
  <2>1. ASSUME NEW l \in linear_constraints
        PROVE  \E j \in AllInterfaces : \E r \in j.multiplier :
                 Numbered(j)' /\ l[1] \in GlobalDofs(r)' /\ l = <<l[1], BothFaces(j.patch_and_side)'>>
    <3>1. PICK j \in AllInterfaces : \E r \in j.multiplier :
                 Numbered(j) /\ l[1] \in GlobalDofs(r) /\ l = <<l[1], BothFaces(j.patch_and_side)>>
      BY DEF CouplingInv, ConstraintsOfMortars
    <3>2. Numbered(j)
      BY <3>1
    <3> QED BY <3>1, <3>2, NumberedStays
  <2>2. AllInterfaces \subseteq AllInterfaces'
    OBVIOUS
  <2> QED BY <1>1, <2>1, <2>2 DEF ConstraintsOfMortars
<1>11. MultipliersConstrained'
  <2>1. ASSUME NEW j \in AllInterfaces \cup {i}, NEW s \in j.multiplier,
               \A c \in Pending("add_linear_constraints")' : c.multiplier # s
        PROVE  /\ Numbered(j)'
               /\ \A d \in GlobalDofs(s)' : <<d, BothFaces(j.patch_and_side)'>> \in linear_constraints
    <3>1. s \notin i.multiplier
      BY <2>1
    <3>2. j \in AllInterfaces
      BY <3>1
    <3>3. /\ Numbered(j)
          /\ \A d \in GlobalDofs(s) : <<d, BothFaces(j.patch_and_side)>> \in linear_constraints
      BY <1>2, <3>2 DEF CouplingInv, MultipliersConstrained
    <3> QED BY <3>3, NumberedStays
  <2> QED BY <1>1, <2>1 DEF MultipliersConstrained
<1>12. OneLeft'
  BY <1>1 DEF OneLeft
<1> QED BY <1>4, <1>5, <1>7, <1>8, <1>9, <1>10, <1>11, <1>12 DEF CouplingInv

\* An interface more.
LEMMA InterfacesGrow ==
  ASSUME MultiPatchTypeOK, NEW m \in MultiPatchSpaces, NEW i, interfaces' = [interfaces EXCEPT ![m] = @ \cup {i}]
  PROVE  AllInterfaces' = AllInterfaces \cup {i}
<1>1. /\ interfaces'[m] = interfaces[m] \cup {i}
      /\ \A n \in MultiPatchSpaces : n # m => interfaces'[n] = interfaces[n]
  BY DEF MultiPatchTypeOK
<1>2. ASSUME NEW j
      PROVE  j \in AllInterfaces' <=> j \in AllInterfaces \cup {i}
  <2>1. j \in AllInterfaces <=> \E n \in MultiPatchSpaces : j \in interfaces[n]
    BY DEF AllInterfaces
  <2>2. j \in AllInterfaces' <=> \E n \in MultiPatchSpaces : j \in interfaces'[n]
    BY DEF AllInterfaces
  <2> QED BY <1>1, <2>1, <2>2
<1> QED BY <1>2

\* A gluing without multipliers: two blocks.
LEMMA GluingCouples ==
  ASSUME MultiPatchAssumption, MultiPatchTypeOK, CouplingInv, IdsStay,
         NEW m \in MultiPatchSpaces, NEW type \in InterfaceTypes, NEW c \in Contact, AddInterface(m, type, c)
  PROVE  CouplingInv'
<1>1. PICK i : i = NewInterface(type, c, {})
  OBVIOUS
<1>2. PICK p, q : p = c[1] /\ q = c[3]
  OBVIOUS
<1>3. PICK open : open = [call |-> "spaces_connectivity_open"]
  OBVIOUS
<1>4. PICK there : there = [call |-> "add_spaces_connection", row |-> p, col |-> q, use |-> FALSE]
  OBVIOUS
<1>5. PICK back : back = [call |-> "add_spaces_connection", row |-> q, col |-> p, use |-> FALSE]
  OBVIOUS
<1>6. PICK close : close = [call |-> "spaces_connectivity_close"]
  OBVIOUS
<1>7. /\ todo = << >> /\ UNCHANGED <<vars, patches, is_patch_insertion_open>>
      /\ interfaces' = [interfaces EXCEPT ![m] = @ \cup {i}]
      /\ todo' = << open, there, back, close >>
  BY <1>1, <1>2, <1>3, <1>4, <1>5, <1>6 DEF AddInterface, Idle
<1>8. p # q
  BY <1>2 DEF MultiPatchAssumption
<1>9. i.multiplier = {} /\ i.patch_and_side[1][1] = p /\ i.patch_and_side[2][1] = q
  BY <1>1, <1>2 DEF NewInterface
<1>10. /\ Len(todo') = 4
       /\ todo'[1] = open /\ todo'[2] = there /\ todo'[3] = back /\ todo'[4] = close
  BY <1>7
<1>11. /\ open.call = "spaces_connectivity_open" /\ close.call = "spaces_connectivity_close"
       /\ there.call = "add_spaces_connection" /\ there.row = p /\ there.col = q /\ there.use = FALSE
       /\ back.call = "add_spaces_connection" /\ back.row = q /\ back.col = p /\ back.use = FALSE
  BY <1>3, <1>4, <1>5, <1>6
<1>12. ASSUME NEW k \in 1 .. Len(todo')
       PROVE  todo'[k] \in {open, there, back, close}
  BY <1>10, <1>12
<1>13. ASSUME NEW name, NEW a \in Pending(name)'
       PROVE  a \in {open, there, back, close} /\ a.call = name
  BY <1>12, <1>13 DEF Pending
<1>14. \A name : name \notin {"spaces_connectivity_open", "add_spaces_connection", "spaces_connectivity_close"} =>
         Pending(name)' = {}
  BY <1>11, <1>13
<1>15. Pending("add_spaces_connection")' = {there, back}
  <2>1. there \in {todo'[k] : k \in 1 .. Len(todo')} /\ back \in {todo'[k] : k \in 1 .. Len(todo')}
    BY <1>10
  <2>2. {there, back} \subseteq Pending("add_spaces_connection")'
    BY <1>11, <2>1 DEF Pending
  <2>3. \A a \in Pending("add_spaces_connection")' : a \in {there, back}
    BY <1>11, <1>13
  <2> QED BY <2>2, <2>3
<1>16. CallsInOrder'
  <2>1. ASSUME NEW k \in 1 .. Len(todo')
        PROVE  /\ Stage(todo'[k]) = 3
               /\ todo'[k].call \notin {"connect_face", "add_linear_constraints"}
    <3>1. PICK a : a = todo'[k]
      OBVIOUS
    <3>2. a.call \in {"spaces_connectivity_open", "add_spaces_connection", "spaces_connectivity_close"}
      BY <1>11, <1>12, <3>1
    <3> QED BY <3>1, <3>2 DEF Stage
  <2> QED BY <2>1 DEF CallsInOrder, Stage
<1>17. /\ Pending("connect_face")' = {} /\ Pending("add_linear_constraints")' = {} /\ Pending("patches_inserted")' = {}
  BY <1>14
<1>18. {<<a.row, a.col>> : a \in Pending("add_spaces_connection")'} = BlocksOf(i)
  <2>1. BlocksOf(i) = {<<p, q>>, <<q, p>>}
    BY <1>9 DEF BlocksOf
  <2>2. {<<a.row, a.col>> : a \in {there, back}} = {<<p, q>>, <<q, p>>}
    BY <1>11
  <2> QED BY <1>15, <2>1, <2>2
<1>19. \A a \in Pending("add_spaces_connection")' : a.use <=> a.row = a.col
  BY <1>8, <1>11, <1>15
<1>20. CallsOfInterfaces' /\ NumbersFirst'
  BY <1>17 DEF CallsOfInterfaces, NumbersFirst
<1>21. AllInterfaces' = AllInterfaces \cup {i}
  BY <1>7, InterfacesGrow
<1> QED BY <1>7, <1>9, <1>16, <1>17, <1>18, <1>19, <1>20, <1>21, NewInterfaceCouples

\* Nine calls, and five after them.
Joined(t, f, g) ==
  /\ Len(t) = 14
  /\ \A k \in 1 .. 14 : t[k] = IF k <= 9 THEN f[k] ELSE g[k - 9]

\* What appending five calls to nine gives.
LEMMA NineAndFive ==
  ASSUME NEW C, NEW f \in Seq(C), NEW g \in Seq(C), Len(f) = 9, Len(g) = 5, NEW t, t = f \o g
  PROVE  Joined(t, f, g)
<1>1. /\ Len(f \o g) = Len(f) + Len(g)
      /\ \A k \in 1 .. Len(f) + Len(g) : (f \o g)[k] = IF k <= Len(f) THEN f[k] ELSE g[k - Len(f)]
  BY ConcatProperties
<1>2. Len(t) = 14
  BY <1>1
<1>3. ASSUME NEW k \in 1 .. 14
      PROVE  t[k] = IF k <= 9 THEN f[k] ELSE g[k - 9]
  <2>1. k \in 1 .. Len(f) + Len(g)
    OBVIOUS
  <2>2. (f \o g)[k] = IF k <= Len(f) THEN f[k] ELSE g[k - Len(f)]
    BY <1>1, <2>1
  <2> QED BY <2>2
<1> QED BY <1>2, <1>3 DEF Joined

\* A gluing with a multiplier: the space is added and numbered, then it gets its
\* blocks, the pairs of both faces, and constraints.
LEMMA MortarCouples ==
  ASSUME MultiPatchAssumption, MultiPatchTypeOK, IInv, CouplingInv, IdsStay,
         NEW m \in MultiPatchSpaces, NEW c \in Contact, NEW s \in MultiplierFor[c], AddInterfaceMortar(m, c, s)
  PROVE  CouplingInv'
<1>1. PICK i : i = NewInterface("Mortar", c, {s})
  OBVIOUS
<1>2. PICK p, q : p = c[1] /\ q = c[3]
  OBVIOUS
<1>3. PICK pas : pas = << <<c[1], c[2]>>, <<c[3], c[4]>> >>
  OBVIOUS
<1>4. /\ pas[1][1] = p /\ pas[2][1] = q
      /\ i.multiplier = {s} /\ i.patch_and_side = pas /\ i.type = "Mortar"
  BY <1>1, <1>2, <1>3 DEF NewInterface
<1>5. PICK c1 : c1 = [call |-> "spaces_insertion_open"]
  OBVIOUS
<1>6. PICK c2 : c2 = [call |-> "add_space", space |-> s]
  OBVIOUS
<1>7. PICK c3 : c3 = [call |-> "spaces_insertion_close", renumber |-> TRUE]
  OBVIOUS
<1>8. PICK c4 : c4 = [call |-> "spaces_connectivity_open"]
  OBVIOUS
<1>9. PICK c5, c6, c7, c8 :
        /\ c5 = [call |-> "add_spaces_connection", row |-> p, col |-> s, use |-> FALSE]
        /\ c6 = [call |-> "add_spaces_connection", row |-> s, col |-> p, use |-> FALSE]
        /\ c7 = [call |-> "add_spaces_connection", row |-> q, col |-> s, use |-> FALSE]
        /\ c8 = [call |-> "add_spaces_connection", row |-> s, col |-> q, use |-> FALSE]
  OBVIOUS
<1>10. PICK c9 : c9 = [call |-> "spaces_connectivity_close"]
  OBVIOUS
<1>11. PICK d1, d2 : /\ d1 = [call |-> "connect_face", side |-> pas[1], multiplier |-> s]
                     /\ d2 = [call |-> "connect_face", side |-> pas[2], multiplier |-> s]
  OBVIOUS
<1>12. PICK d3 : d3 = [call |-> "linear_constraints_open"]
  OBVIOUS
<1>13. PICK d4 : d4 = [call |-> "add_linear_constraints", sides |-> pas, multiplier |-> s]
  OBVIOUS
<1>14. PICK d5 : d5 = [call |-> "linear_constraints_close"]
  OBVIOUS
<1>15. PICK first : first = << c1, c2, c3, c4, c5, c6, c7, c8, c9 >>
  OBVIOUS
<1>16. PICK second : second = << d1, d2, d3, d4, d5 >>
  OBVIOUS
<1>17. /\ todo = << >> /\ UNCHANGED <<vars, patches, is_patch_insertion_open>>
       /\ s \notin AddedSpaces
       /\ interfaces' = [interfaces EXCEPT ![m] = @ \cup {i}]
  BY <1>1 DEF AddInterfaceMortar, Idle
<1>18. todo' = first \o second
  <2>1. second = FillConnectivity(pas, s)
    BY <1>11, <1>12, <1>13, <1>14, <1>16 DEF FillConnectivity
  <2>2. todo' = << [call |-> "spaces_insertion_open"],
                   [call |-> "add_space", space |-> s],
                   [call |-> "spaces_insertion_close", renumber |-> TRUE],
                   [call |-> "spaces_connectivity_open"],
                   [call |-> "add_spaces_connection", row |-> c[1], col |-> s, use |-> FALSE],
                   [call |-> "add_spaces_connection", row |-> s, col |-> c[1], use |-> FALSE],
                   [call |-> "add_spaces_connection", row |-> c[3], col |-> s, use |-> FALSE],
                   [call |-> "add_spaces_connection", row |-> s, col |-> c[3], use |-> FALSE],
                   [call |-> "spaces_connectivity_close"] >>
                 \o FillConnectivity(i.patch_and_side, s)
    BY <1>1 DEF AddInterfaceMortar
  <2> QED BY <1>2, <1>4, <1>5, <1>6, <1>7, <1>8, <1>9, <1>10, <1>15, <2>1, <2>2
<1>19. p # q /\ p \in Patch /\ q \in Patch /\ s \in Multiplier /\ p # s /\ q # s
  BY <1>2 DEF MultiPatchAssumption
<1>20. /\ c1.call = "spaces_insertion_open" /\ c2.call = "add_space"
       /\ c3.call = "spaces_insertion_close" /\ c3.renumber = TRUE
       /\ c4.call = "spaces_connectivity_open" /\ c9.call = "spaces_connectivity_close"
       /\ d3.call = "linear_constraints_open" /\ d5.call = "linear_constraints_close"
  BY <1>5, <1>6, <1>7, <1>8, <1>10, <1>12, <1>14
<1>21. /\ c5.call = "add_spaces_connection" /\ c5.row = p /\ c5.col = s /\ c5.use = FALSE
       /\ c6.call = "add_spaces_connection" /\ c6.row = s /\ c6.col = p /\ c6.use = FALSE
       /\ c7.call = "add_spaces_connection" /\ c7.row = q /\ c7.col = s /\ c7.use = FALSE
       /\ c8.call = "add_spaces_connection" /\ c8.row = s /\ c8.col = q /\ c8.use = FALSE
  BY <1>9
<1>22. /\ d1.call = "connect_face" /\ d1.side = pas[1] /\ d1.multiplier = s
       /\ d2.call = "connect_face" /\ d2.side = pas[2] /\ d2.multiplier = s
       /\ d4.call = "add_linear_constraints" /\ d4.sides = pas /\ d4.multiplier = s
  BY <1>11, <1>13
<1>23. PICK C : C = {c1, c2, c3, c4, c5, c6, c7, c8, c9, d1, d2, d3, d4, d5}
  OBVIOUS
<1>24. PICK t : t = todo'
  OBVIOUS
<1>25. /\ Len(t) = 14
       /\ t[1] = c1 /\ t[2] = c2 /\ t[3] = c3 /\ t[4] = c4 /\ t[5] = c5 /\ t[6] = c6 /\ t[7] = c7
       /\ t[8] = c8 /\ t[9] = c9 /\ t[10] = d1 /\ t[11] = d2 /\ t[12] = d3 /\ t[13] = d4 /\ t[14] = d5
  <2>1. first \in Seq(C) /\ Len(first) = 9 /\ second \in Seq(C) /\ Len(second) = 5
    BY <1>15, <1>16, <1>23
  <2>2. Joined(t, first, second)
    BY <1>18, <1>24, <2>1, NineAndFive
  <2>3. /\ t[1] = first[1] /\ t[2] = first[2] /\ t[3] = first[3] /\ t[4] = first[4] /\ t[5] = first[5]
        /\ t[6] = first[6] /\ t[7] = first[7] /\ t[8] = first[8] /\ t[9] = first[9]
    BY <2>2 DEF Joined
  <2>4. /\ t[10] = second[1] /\ t[11] = second[2] /\ t[12] = second[3] /\ t[13] = second[4] /\ t[14] = second[5]
    BY <2>2 DEF Joined
  <2> QED BY <1>15, <1>16, <2>2, <2>3, <2>4 DEF Joined
<1>26. ASSUME NEW k \in 1 .. 14
       PROVE  \/ (k = 1 /\ t[k] = c1) \/ (k = 2 /\ t[k] = c2) \/ (k = 3 /\ t[k] = c3)
              \/ (k \in 4 .. 9 /\ t[k] \in {c4, c5, c6, c7, c8, c9})
              \/ (k = 10 /\ t[k] = d1) \/ (k = 11 /\ t[k] = d2)
              \/ (k = 12 /\ t[k] = d3) \/ (k = 13 /\ t[k] = d4) \/ (k = 14 /\ t[k] = d5)
  <2>1. CASE k \in 4 .. 9
    <3>1. k = 4 \/ k = 5 \/ k = 6 \/ k = 7 \/ k = 8 \/ k = 9
      BY <2>1
    <3>2. t[k] \in {c4, c5, c6, c7, c8, c9}
      BY <1>25, <3>1
    <3> QED BY <2>1, <3>2
  <2>2. CASE k \notin 4 .. 9
    <3>1. k = 1 \/ k = 2 \/ k = 3 \/ k = 10 \/ k = 11 \/ k = 12 \/ k = 13 \/ k = 14
      BY <2>2
    <3> QED BY <1>25, <3>1
  <2> QED BY <2>1, <2>2
<1>27. /\ Stage(c1) = 1 /\ Stage(c2) = 1 /\ Stage(c3) = 2
       /\ \A a \in {c4, c5, c6, c7, c8, c9} :
            Stage(a) = 3 /\ a.call \notin {"connect_face", "add_linear_constraints"}
       /\ Stage(d1) = 4 /\ Stage(d2) = 4 /\ Stage(d3) = 4 /\ Stage(d4) = 4 /\ Stage(d5) = 4
  <2>1. \A a \in {c4, c5, c6, c7, c8, c9} :
          a.call \in {"spaces_connectivity_open", "add_spaces_connection", "spaces_connectivity_close"}
    BY <1>20, <1>21
  <2>2. \A a \in {c4, c5, c6, c7, c8, c9} :
          Stage(a) = 3 /\ a.call \notin {"connect_face", "add_linear_constraints"}
    BY <2>1 DEF Stage
  <2>3. Stage(c1) = 1 /\ Stage(c2) = 1 /\ Stage(c3) = 2
    BY <1>20 DEF Stage
  <2>4. Stage(d1) = 4 /\ Stage(d2) = 4 /\ Stage(d3) = 4 /\ Stage(d4) = 4 /\ Stage(d5) = 4
    BY <1>20, <1>22 DEF Stage
  <2> QED BY <2>2, <2>3, <2>4
<1>28. ASSUME NEW k \in 1 .. 14
       PROVE  /\ Stage(t[k]) = IF k <= 2 THEN 1 ELSE IF k = 3 THEN 2 ELSE IF k <= 9 THEN 3 ELSE 4
              /\ t[k].call = "connect_face" => k = 10 \/ k = 11
              /\ t[k].call = "add_linear_constraints" => k = 13
  <2>1. CASE k \in 4 .. 9 /\ t[k] \in {c4, c5, c6, c7, c8, c9}
    BY <1>27, <2>1
  <2>2. CASE (k = 1 /\ t[k] = c1) \/ (k = 2 /\ t[k] = c2) \/ (k = 3 /\ t[k] = c3)
    BY <1>20, <1>27, <2>2
  <2>3. CASE (k = 10 /\ t[k] = d1) \/ (k = 11 /\ t[k] = d2)
    BY <1>22, <1>27, <2>3
  <2>4. CASE (k = 12 /\ t[k] = d3) \/ (k = 13 /\ t[k] = d4) \/ (k = 14 /\ t[k] = d5)
    BY <1>20, <1>22, <1>27, <2>4
  <2> QED BY <1>26, <2>1, <2>2, <2>3, <2>4
<1>29. CallsInOrder'
  <2>1. ASSUME NEW k \in 1 .. 14, NEW h \in 1 .. 14, k < h
        PROVE  /\ Stage(t[k]) <= Stage(t[h])
               /\ t[k].call = "connect_face" /\ t[h].call = "connect_face" => t[k].side[1] # t[h].side[1]
               /\ ~(t[k].call = "add_linear_constraints" /\ t[h].call = "add_linear_constraints")
    <3>1. PICK x, y : x = Stage(t[k]) /\ y = Stage(t[h])
      OBVIOUS
    <3>2. /\ x = IF k <= 2 THEN 1 ELSE IF k = 3 THEN 2 ELSE IF k <= 9 THEN 3 ELSE 4
          /\ y = IF h <= 2 THEN 1 ELSE IF h = 3 THEN 2 ELSE IF h <= 9 THEN 3 ELSE 4
      BY <1>28, <3>1
    <3>3. x <= y
      BY <2>1, <3>2
    <3>4. ASSUME t[k].call = "connect_face", t[h].call = "connect_face"
          PROVE  t[k].side[1] # t[h].side[1]
      <4>1. k = 10 /\ h = 11
        BY <1>28, <2>1, <3>4
      <4>2. t[k].side = pas[1] /\ t[h].side = pas[2]
        BY <1>22, <1>25, <4>1
      <4> QED BY <1>4, <1>19, <4>2
    <3>5. ~(t[k].call = "add_linear_constraints" /\ t[h].call = "add_linear_constraints")
      BY <1>28, <2>1
    <3> QED BY <3>1, <3>3, <3>4, <3>5
  <2> QED BY <1>24, <1>25, <2>1, SMTT(30) DEF CallsInOrder, Stage
<1>30. ASSUME NEW name, NEW a \in Pending(name)'
       PROVE  a.call = name /\ a \in {c1, c2, c3, c4, c5, c6, c7, c8, c9, d1, d2, d3, d4, d5}
  <2>1. PICK k \in 1 .. 14 : a = t[k] /\ a.call = name
    BY <1>24, <1>25, <1>30 DEF Pending
  <2> QED BY <1>26, <2>1
<1>31. ASSUME NEW k \in 1 .. 14
       PROVE  t[k] \in Pending(t[k].call)'
  BY <1>24, <1>25 DEF Pending
<1>32. Pending("patches_inserted")' = {}
  BY <1>20, <1>21, <1>22, <1>30
<1>33. Pending("connect_face")' = {d1, d2}
  <2>1. d1 \in Pending("connect_face")' /\ d2 \in Pending("connect_face")'
    <3>1. t[10] \in Pending(t[10].call)' /\ t[11] \in Pending(t[11].call)'
      BY <1>31
    <3> QED BY <1>22, <1>25, <3>1
  <2>2. \A a \in Pending("connect_face")' : a \in {d1, d2}
    BY <1>20, <1>21, <1>22, <1>30
  <2> QED BY <2>1, <2>2
<1>34. Pending("add_linear_constraints")' = {d4}
  <2>1. d4 \in Pending("add_linear_constraints")'
    <3>1. t[13] \in Pending(t[13].call)'
      BY <1>31
    <3> QED BY <1>22, <1>25, <3>1
  <2>2. \A a \in Pending("add_linear_constraints")' : a = d4
    BY <1>20, <1>21, <1>22, <1>30
  <2> QED BY <2>1, <2>2
<1>35. Pending("spaces_insertion_close")' = {c3}
  <2>1. c3 \in Pending("spaces_insertion_close")'
    <3>1. t[3] \in Pending(t[3].call)'
      BY <1>31
    <3> QED BY <1>20, <1>25, <3>1
  <2>2. \A a \in Pending("spaces_insertion_close")' : a = c3
    BY <1>20, <1>21, <1>22, <1>30
  <2> QED BY <2>1, <2>2
<1>36. Pending("add_spaces_connection")' = {c5, c6, c7, c8}
  <2>1. {c5, c6, c7, c8} \subseteq Pending("add_spaces_connection")'
    <3>1. /\ t[5] \in Pending(t[5].call)' /\ t[6] \in Pending(t[6].call)'
          /\ t[7] \in Pending(t[7].call)' /\ t[8] \in Pending(t[8].call)'
      BY <1>31
    <3> QED BY <1>21, <1>25, <3>1
  <2>2. \A a \in Pending("add_spaces_connection")' : a \in {c5, c6, c7, c8}
    BY <1>20, <1>21, <1>22, <1>30
  <2> QED BY <2>1, <2>2
<1>37. {<<a.row, a.col>> : a \in Pending("add_spaces_connection")'} = BlocksOf(i)
  <2>1. BlocksOf(i) = UNION {{<<p, r>>, <<r, p>>, <<q, r>>, <<r, q>>} : r \in {s}}
    BY <1>4 DEF BlocksOf
  <2>2. BlocksOf(i) = {<<p, s>>, <<s, p>>, <<q, s>>, <<s, q>>}
    BY <2>1
  <2>3. {<<a.row, a.col>> : a \in {c5, c6, c7, c8}} = {<<p, s>>, <<s, p>>, <<q, s>>, <<s, q>>}
    BY <1>21
  <2> QED BY <1>36, <2>2, <2>3
<1>38. \A a \in Pending("add_spaces_connection")' : a.use <=> a.row = a.col
  BY <1>19, <1>21, <1>36
<1>39. AllInterfaces' = AllInterfaces \cup {i}
  BY <1>17, InterfacesGrow
<1>40. CallsOfInterfaces'
  <2>1. \A a \in Pending("connect_face")' : a.multiplier \in i.multiplier /\ a.side \in {i.patch_and_side[1], i.patch_and_side[2]}
    BY <1>4, <1>22, <1>33
  <2>2. \A a \in Pending("add_linear_constraints")' : a.multiplier \in i.multiplier /\ a.sides = i.patch_and_side
    BY <1>4, <1>22, <1>34
  <2>3. i \in AllInterfaces'
    BY <1>39
  <2> QED BY <2>1, <2>2, <2>3 DEF CallsOfInterfaces
<1>41. NumbersFirst'
  BY <1>20, <1>35 DEF NumbersFirst
<1>42. Blocks \subseteq AddedSpaces \X AddedSpaces
  BY DEF CouplingInv, BlocksManaged
<1>43. \A j \in AllInterfaces : j.multiplier \cap i.multiplier = {}
  <2>1. ASSUME NEW j \in AllInterfaces, s \in j.multiplier
        PROVE  FALSE
    <3>1. Pending("add_spaces_connection") = {}
      BY <1>17, NothingPending
    <3>2. BlocksOf(j) \subseteq Blocks
      BY <3>1 DEF CouplingInv, BlocksExpected
    <3>3. <<j.patch_and_side[1][1], s>> \in BlocksOf(j)
      BY <2>1 DEF BlocksOf
    <3> QED BY <1>17, <1>42, <3>2, <3>3
  <2> QED BY <1>4, <2>1
<1>44. ASSUME NEW k \in {1, 2}, NEW r \in i.multiplier
       PROVE  Unconnected(i.patch_and_side[k], r)'
  <2>1. r = s
    BY <1>4
  <2>2. PICK x : x = pas[k][1]
    OBVIOUS
  <2>3. \E a \in Pending("connect_face")' : a.side[1] = x /\ a.multiplier = r
    <3>1. CASE k = 1
      BY <1>22, <1>33, <2>1, <2>2, <3>1
    <3>2. CASE k = 2
      BY <1>22, <1>33, <2>1, <2>2, <3>2
    <3> QED BY <3>1, <3>2
  <2>4. <<x, s>> \notin Blocks' /\ <<s, x>> \notin Blocks'
    <3>1. Blocks' = Blocks
      BY <1>17 DEF Blocks, vars, block_vars
    <3> QED BY <1>17, <1>42, <3>1
  <2>5. Extra(x, s)' = {} /\ Extra(s, x)' = {}
    BY <2>4 DEF Extra
  <2> QED BY <1>4, <2>1, <2>2, <2>3, <2>5 DEF Unconnected
<1>45. s \notin RenumberedSpaces
  <2>1. RenumberedSpaces \subseteq AddedSpaces
    BY DEF IInv, NumberingTypeOK, RenumberedSpaces, SpacesIn
  <2> QED BY <1>17, <2>1
<1>46. /\ \A a \in Pending("connect_face")' : a.multiplier \in i.multiplier
       /\ \A r \in i.multiplier : \E a \in Pending("add_linear_constraints")' : a.multiplier = r
       /\ \A a \in Pending("add_linear_constraints")' : a.multiplier \in i.multiplier /\ a.multiplier \notin RenumberedSpaces
  BY <1>4, <1>22, <1>33, <1>34, <1>45
<1>47. i.multiplier # {} => i.type = "Mortar"
  BY <1>4
<1> QED BY <1>17, <1>29, <1>32, <1>37, <1>38, <1>39, <1>40, <1>41, <1>43, <1>44, <1>46, <1>47, NewInterfaceCouples

-----------------------------------------------------------------------------
(* The coupled system.                                                       *)

\* A step that changes nothing.
LEMMA StutterCouples ==
  ASSUME CouplingInv, IdsStay, UNCHANGED mvars
  PROVE  CouplingInv'
<1>1. /\ UNCHANGED <<spaces_connections, extra_dofs_connectivity, interfaces, linear_constraints, todo, patches,
                     is_patch_insertion_open, spaces_info, closing, spaces_with_original_dofs,
                     spaces_with_renumbered_dofs>>
  BY DEF mvars, mp_vars, vars, numbering_vars, insertion_vars, block_vars, constraint_vars
<1>2. \A name : Pending(name)' = Pending(name)
  BY <1>1 DEF Pending
<1>3. ClosedPatches' = ClosedPatches
  <2>1. Pending("patches_inserted")' = Pending("patches_inserted")
    BY <1>2
  <2> QED BY <1>1, <2>1 DEF ClosedPatches, Patches
<1>4. CallsInOrder'
  BY <1>1 DEF CouplingInv, CallsInOrder, Stage
<1>5. NumbersFirst'
  <2>1. /\ Pending("connect_face")' = Pending("connect_face")
        /\ Pending("add_linear_constraints")' = Pending("add_linear_constraints")
        /\ Pending("spaces_insertion_close")' = Pending("spaces_insertion_close")
        /\ Pending("add_space")' = Pending("add_space")
    BY <1>2
  <2> QED BY <1>1, <2>1 DEF CouplingInv, NumbersFirst
<1>6. OneLeft' /\ AddedSpaces' = AddedSpaces
  <2>1. RenumberedSpaces' = RenumberedSpaces
    BY <1>1 DEF RenumberedSpaces, SpacesIn
  <2>2. Pending("add_linear_constraints")' = Pending("add_linear_constraints")
    BY <1>2
  <2> QED BY <1>1, <2>1, <2>2, OneLeftStays DEF CouplingInv, AddedSpaces
<1>7. /\ Pending("connect_face")' = Pending("connect_face")
      /\ Pending("add_linear_constraints")' = Pending("add_linear_constraints")
      /\ Pending("add_spaces_connection")' = Pending("add_spaces_connection")
  BY <1>2
<1> QED BY <1>1, <1>3, <1>4, <1>5, <1>6, <1>7, QuietStep

\* The call in progress goes on.
LEMMA ContinueCouples ==
  ASSUME SpaceManagerAssumption, MultiPatchAssumption, TablesDistinct, MultiPatchTypeOK, IInv, CouplingInv, IdsStay,
         Continue
  PROVE  CouplingInv'
<1>1. todo # << >>
  BY DEF Continue
<1>2. CASE RenumberSpace /\ UNCHANGED <<mp_vars, todo>>
  BY <1>2, RenumberSpaceCouples
<1>3. CASE RenumberingDone /\ UNCHANGED <<mp_vars, todo>>
  BY <1>3, RenumberingDoneCouples
<1>4. CASE ManagerCall(Head(todo)) /\ todo' = Tail(todo) /\ UNCHANGED mp_vars
  <2>1. CASE Head(todo).call # "add_spaces_connection"
    BY <1>1, <1>4, <2>1, PhaseCallCouples
  <2>2. CASE Head(todo).call = "add_spaces_connection"
    <3>1. AddSpacesConnection(Head(todo).row, Head(todo).col, Head(todo).use)
      BY <1>4, <2>2 DEF ManagerCall
    <3> QED BY <1>1, <1>4, <2>2, <3>1, BlockCallCouples
  <2> QED BY <2>1, <2>2
<1>5. CASE Head(todo).call = "connect_face" /\ ConnectFace(Head(todo)) /\ UNCHANGED mp_vars
  BY <1>1, <1>5, ConnectFaceCouples
<1>6. CASE Head(todo).call = "add_linear_constraints" /\ AddMortarConstraint(Head(todo)) /\ UNCHANGED mp_vars
  BY <1>1, <1>6, MortarConstraintCouples
<1>7. CASE /\ Head(todo).call = "patches_inserted"
           /\ is_patch_insertion_open' = [is_patch_insertion_open EXCEPT ![Head(todo).of] = FALSE]
           /\ todo' = Tail(todo)
           /\ UNCHANGED <<is_interface_insertion_open, patches, interfaces, vars>>
  BY <1>1, <1>7, PatchesInsertedCouples
<1> QED BY <1>2, <1>3, <1>4, <1>5, <1>6, <1>7 DEF Continue

\* No step disturbs the invariant.
LEMMA StepCouples ==
  ASSUME SpaceManagerAssumption, MultiPatchAssumption, TablesDistinct, MultiPatchTypeOK, IInv, CouplingInv,
         [MultiPatchNext]_mvars
  PROVE  CouplingInv'
<1>1. IdsStay
  BY StepsKeepIds
<1>2. CASE UNCHANGED mvars
  BY <1>1, <1>2, StutterCouples
<1>3. ASSUME NEW m \in MultiPatchSpaces,
             \/ PatchInsertionOpen(m)
             \/ \E p \in Patch : AddPatch(m, p)
             \/ InterfaceInsertionOpen(m)
             \/ InterfaceInsertionClose(m)
      PROVE  CouplingInv'
  BY <1>1, <1>3, OpeningCouples
<1>4. ASSUME NEW m \in MultiPatchSpaces, NEW renumber \in CloseArgs, PatchInsertionClose(m, renumber)
      PROVE  CouplingInv'
  BY <1>1, <1>4, ClosingCouples
<1>5. ASSUME NEW m \in MultiPatchSpaces, NEW type \in InterfaceTypes, NEW c \in Contact, AddInterface(m, type, c)
      PROVE  CouplingInv'
  BY <1>1, <1>5, GluingCouples
<1>6. ASSUME NEW m \in MultiPatchSpaces, NEW c \in Contact, NEW s \in MultiplierFor[c], AddInterfaceMortar(m, c, s)
      PROVE  CouplingInv'
  BY <1>1, <1>6, MortarCouples
<1>7. CASE Continue
  BY <1>1, <1>7, ContinueCouples
<1> QED BY <1>2, <1>3, <1>4, <1>5, <1>6, <1>7 DEF MultiPatchNext

\* At first there are no objects, no blocks and no constraints.
LEMMA InitCouples ==
  ASSUME MultiPatchInit
  PROVE  CouplingInv
<1>1. /\ todo = << >> /\ Blocks = {} /\ extra_dofs_connectivity = {} /\ linear_constraints = {}
      /\ spaces_connections = [b \in {} |-> [use |-> FALSE, extra |-> {}]]
      /\ \A m \in MultiPatchSpaces : patches[m] = << >> /\ interfaces[m] = {}
  BY DEF MultiPatchInit, Init, Blocks
<1>2. \A name : Pending(name) = {}
  BY <1>1, NothingPending
<1>3. AllInterfaces = {}
  BY <1>1 DEF AllInterfaces
<1>4. ClosedPatches = {}
  BY <1>1 DEF ClosedPatches, Patches
<1>5. CallsInOrder
  BY <1>1 DEF CallsInOrder
<1>6. CallsOfInterfaces /\ NumbersFirst /\ OneLeft
  BY <1>2 DEF CallsOfInterfaces, NumbersFirst, OneLeft
<1>7. MultipliersOnce /\ FacesConnected /\ MultipliersConstrained /\ ConstraintsOfMortars
  BY <1>1, <1>3 DEF MultipliersOnce, FacesConnected, MultipliersConstrained, ConstraintsOfMortars
<1>8. BlocksManaged
  BY <1>1 DEF BlocksManaged
<1>9. BlocksExpected
  BY <1>1, <1>2, <1>3, <1>4 DEF BlocksExpected
<1>10. PatchesUsed /\ PatchesPlain
  BY <1>1, <1>2 DEF PatchesUsed, PatchesPlain, Extra
<1> QED BY <1>5, <1>6, <1>7, <1>8, <1>9, <1>10 DEF CouplingInv

\* Between calls every interface is numbered, connected and constrained, and
\* its dofs are those of the functions of its faces.
LEMMA InterfaceDone ==
  ASSUME SpaceManagerAssumption, MultiPatchAssumption, MultiPatchTypeOK, CouplingInv, todo = << >>, NEW i \in AllInterfaces
  PROVE  /\ BothFaces(i.patch_and_side) = InterfaceDofs(i)
         /\ \A s \in i.multiplier : \A d \in GlobalDofs(s) : <<d, BothFaces(i.patch_and_side)>> \in linear_constraints
         /\ \A k \in {1, 2} : \A s \in i.multiplier : Connected(i.patch_and_side[k], s)
<1>1. \A name : Pending(name) = {}
  BY NothingPending
<1>2. \A k \in {1, 2} : i.patch_and_side[k] \in Sides
  BY InterfaceTyped
<1>3. \A k \in {1, 2} : FaceDofs(i.patch_and_side[k][1], i.patch_and_side[k][2])
                          = Ids(i.patch_and_side[k][1], OnFace[TableOf[i.patch_and_side[k][1]]][i.patch_and_side[k][2]])
  BY <1>2, FaceDofsAreOnFace
<1>4. BothFaces(i.patch_and_side) = InterfaceDofs(i)
  <2> DEFINE Inner(k) == FaceDofs(i.patch_and_side[k][1], i.patch_and_side[k][2])
             Outer(k) == Ids(i.patch_and_side[k][1], OnFace[TableOf[i.patch_and_side[k][1]]][i.patch_and_side[k][2]])
  <2>1. BothFaces(i.patch_and_side) = UNION {Inner(k) : k \in {1, 2}}
    BY Zenon DEF BothFaces
  <2>2. InterfaceDofs(i) = UNION {Outer(k) : k \in {1, 2}}
    BY Zenon DEF InterfaceDofs
  <2>3. \A k \in {1, 2} : Inner(k) = Outer(k)
    BY <1>3
  <2> HIDE DEF Inner, Outer
  <2>4. {Inner(k) : k \in {1, 2}} = {Outer(k) : k \in {1, 2}}
    BY <2>3
  <2> QED BY <2>1, <2>2, <2>4
<1>5. ASSUME NEW s \in i.multiplier, NEW d \in GlobalDofs(s)
      PROVE  <<d, BothFaces(i.patch_and_side)>> \in linear_constraints
  BY <1>1 DEF CouplingInv, MultipliersConstrained
<1>6. ASSUME NEW k \in {1, 2}, NEW s \in i.multiplier
      PROVE  Connected(i.patch_and_side[k], s)
  <2>1. PICK side : side = i.patch_and_side[k]
    OBVIOUS
  <2>2. FacesConnected
    BY DEF CouplingInv
  <2>3. Connected(side, s)
    BY <1>1, <2>1, <2>2, FaceState
  <2> QED BY <2>1, <2>3
<1> QED BY <1>4, <1>5, <1>6

\* The pairs of face k of interface i and its multipliers.
InInterface(x, i, k) ==
  \E s \in i.multiplier : x \in FacePairs(i.patch_and_side[k], s) \/ x \in MultiplierPairs(i.patch_and_side[k], s)

\* The blocks of a face and a multiplier, and the pairs in them.
BlocksOfFace(i, side, s) ==
  /\ side[1] # s /\ <<side[1], s>> \in BlocksOf(i) /\ <<s, side[1]>> \in BlocksOf(i)
  /\ Extra(side[1], s) = FacePairs(side, s)
  /\ Extra(s, side[1]) = MultiplierPairs(side, s)

\* The pattern is that of the elements of patches and of the faces of interfaces.
LEMMA PatternOfBlocks ==
  ASSUME SpaceManagerAssumption, MultiPatchAssumption, MultiPatchTypeOK, CouplingInv, todo = << >>, NEW x
  PROVE  x \in GetSparsityPattern
           <=> \/ \E p \in InsertedPatches : x \in ElementPairs(p)
               \/ \E i \in AllInterfaces : \E k \in {1, 2} : InInterface(x, i, k)
<1>1. \A name : Pending(name) = {}
  BY NothingPending
<1>2. ClosedPatches = InsertedPatches
  BY <1>1 DEF ClosedPatches, InsertedPatches
<1>3. InsertedPatches \subseteq Patch
  BY DEF InsertedPatches, Patches, MultiPatchTypeOK
<1>4. Blocks = {<<p, p>> : p \in InsertedPatches} \cup UNION {BlocksOf(i) : i \in AllInterfaces}
  BY <1>1, <1>2 DEF CouplingInv, BlocksExpected
<1>5. x \in GetSparsityPattern <=> \E b \in Blocks : x \in BlockPattern(b)
  BY DEF GetSparsityPattern, CouplingInv, BlocksManaged
<1>6. ASSUME NEW r, NEW q, <<r, q>> \in Blocks
      PROVE  x \in BlockPattern(<<r, q>>) <=> (r = q /\ x \in ElementPairs(r)) \/ x \in Extra(r, q)
  <2>1. spaces_connections[<<r, q>>].use <=> r = q
    BY <1>6 DEF CouplingInv, PatchesUsed
  <2>2. Extra(r, q) = spaces_connections[<<r, q>>].extra
    BY <1>6 DEF Extra
  <2> QED BY <2>1, <2>2 DEF BlockPattern
<1>7. ASSUME NEW i \in AllInterfaces, NEW k \in {1, 2}, NEW s \in i.multiplier
      PROVE  BlocksOfFace(i, i.patch_and_side[k], s)
  <2>1. i.patch_and_side[k][1] \in Patch /\ i.multiplier \subseteq Multiplier
    BY InterfaceTyped
  <2>2. i.patch_and_side[k][1] # s
    BY <2>1 DEF MultiPatchAssumption
  <2>3. Connected(i.patch_and_side[k], s)
    BY InterfaceDone
  <2>4. <<i.patch_and_side[k][1], s>> \in BlocksOf(i) /\ <<s, i.patch_and_side[k][1]>> \in BlocksOf(i)
    BY DEF BlocksOf
  <2> QED BY <2>2, <2>3, <2>4 DEF Connected, BlocksOfFace
<1>8. ASSUME NEW i \in AllInterfaces, NEW b \in BlocksOf(i), x \in BlockPattern(b)
      PROVE  \E k \in {1, 2} : InInterface(x, i, k)
  <2>1. b \in Blocks
    BY <1>4
  <2>2. PICK p, q : p = i.patch_and_side[1][1] /\ q = i.patch_and_side[2][1]
    OBVIOUS
  <2>3. p \in Patch /\ q \in Patch /\ p # q
    BY <2>2, InterfaceTyped
  <2>4. CASE i.multiplier = {}
    <3>1. b = <<p, q>> \/ b = <<q, p>>
      BY <2>2, <2>4 DEF BlocksOf
    <3>2. Extra(p, q) = {} /\ Extra(q, p) = {}
      BY <2>3 DEF CouplingInv, PatchesPlain
    <3> QED BY <1>6, <1>8, <2>1, <2>3, <3>1, <3>2
  <2>5. CASE i.multiplier # {}
    <3>1. PICK s \in i.multiplier : b \in {<<p, s>>, <<s, p>>, <<q, s>>, <<s, q>>}
      BY <2>2, <2>5 DEF BlocksOf
    <3>2. PICK k \in {1, 2} : b = <<i.patch_and_side[k][1], s>> \/ b = <<s, i.patch_and_side[k][1]>>
      BY <2>2, <3>1
    <3>3. PICK side : side = i.patch_and_side[k]
      OBVIOUS
    <3>4. BlocksOfFace(i, side, s)
      BY <1>7, <3>3
    <3>5. x \in Extra(side[1], s) \/ x \in Extra(s, side[1])
      BY <1>6, <1>8, <2>1, <3>2, <3>3, <3>4 DEF BlocksOfFace
    <3> QED BY <3>3, <3>4, <3>5 DEF InInterface, BlocksOfFace
  <2> QED BY <2>4, <2>5
<1>9. ASSUME NEW i \in AllInterfaces, NEW k \in {1, 2}, InInterface(x, i, k)
      PROVE  \E b \in Blocks : x \in BlockPattern(b)
  <2>1. PICK s \in i.multiplier : x \in FacePairs(i.patch_and_side[k], s) \/ x \in MultiplierPairs(i.patch_and_side[k], s)
    BY <1>9 DEF InInterface
  <2>2. PICK side : side = i.patch_and_side[k]
    OBVIOUS
  <2>3. BlocksOfFace(i, side, s)
    BY <1>7, <2>2
  <2>4. <<side[1], s>> \in Blocks /\ <<s, side[1]>> \in Blocks
    BY <1>4, <2>3 DEF BlocksOfFace
  <2> QED BY <1>6, <2>1, <2>2, <2>3, <2>4 DEF BlocksOfFace
<1>10. ASSUME NEW p \in InsertedPatches
       PROVE  <<p, p>> \in Blocks /\ (x \in BlockPattern(<<p, p>>) <=> x \in ElementPairs(p))
  <2>1. <<p, p>> \in Blocks
    BY <1>4
  <2>2. Extra(p, p) = {}
    BY <1>3 DEF CouplingInv, PatchesPlain
  <2> QED BY <1>6, <2>1, <2>2
<1>11. ASSUME NEW b \in Blocks, x \in BlockPattern(b)
       PROVE  \/ \E p \in InsertedPatches : x \in ElementPairs(p)
              \/ \E i \in AllInterfaces : \E k \in {1, 2} : InInterface(x, i, k)
  <2>1. CASE \E p \in InsertedPatches : b = <<p, p>>
    BY <1>10, <1>11, <2>1
  <2>2. CASE \E i \in AllInterfaces : b \in BlocksOf(i)
    BY <1>8, <1>11, <2>2
  <2> QED BY <1>4, <2>1, <2>2
<1> QED BY <1>5, <1>9, <1>10, <1>11

\* The pairs of an interface, by face and multiplier, and as a product.
LEMMA PairsOfInterface ==
  ASSUME SpaceManagerAssumption, MultiPatchAssumption, MultiPatchTypeOK, CouplingInv, todo = << >>,
         NEW i \in AllInterfaces, NEW x
  PROVE  (\E k \in {1, 2} : InInterface(x, i, k))
           <=> x \in (MultiplierDofs(i) \X InterfaceDofs(i)) \cup (InterfaceDofs(i) \X MultiplierDofs(i))
<1>1. BothFaces(i.patch_and_side) = InterfaceDofs(i)
  BY InterfaceDone
<1>2. PICK side : side = i.patch_and_side
  OBVIOUS
<1>3. \A d : d \in InterfaceDofs(i) <=> \E k \in {1, 2} : d \in FaceDofs(side[k][1], side[k][2])
  BY <1>1, <1>2 DEF BothFaces
<1>4. \A d : d \in MultiplierDofs(i) <=> \E s \in i.multiplier : d \in GlobalDofs(s)
  BY DEF MultiplierDofs
<1>5. ASSUME NEW k \in {1, 2}, InInterface(x, i, k)
      PROVE  x \in (MultiplierDofs(i) \X InterfaceDofs(i)) \cup (InterfaceDofs(i) \X MultiplierDofs(i))
  <2>1. PICK s \in i.multiplier : \/ x \in FaceDofs(side[k][1], side[k][2]) \X GlobalDofs(s)
                                  \/ x \in GlobalDofs(s) \X FaceDofs(side[k][1], side[k][2])
    BY <1>2, <1>5 DEF InInterface, FacePairs, MultiplierPairs
  <2>2. FaceDofs(side[k][1], side[k][2]) \subseteq InterfaceDofs(i) /\ GlobalDofs(s) \subseteq MultiplierDofs(i)
    BY <1>3, <1>4
  <2> QED BY <2>1, <2>2
<1>6. ASSUME x \in (MultiplierDofs(i) \X InterfaceDofs(i)) \cup (InterfaceDofs(i) \X MultiplierDofs(i))
      PROVE  \E k \in {1, 2} : InInterface(x, i, k)
  <2>1. PICK d, e : d \in MultiplierDofs(i) /\ e \in InterfaceDofs(i) /\ (x = <<d, e>> \/ x = <<e, d>>)
    BY <1>6
  <2>2. PICK s \in i.multiplier : d \in GlobalDofs(s)
    BY <1>4, <2>1
  <2>3. PICK k \in {1, 2} : e \in FaceDofs(side[k][1], side[k][2])
    BY <1>3, <2>1
  <2>4. x \in FacePairs(side[k], s) \/ x \in MultiplierPairs(side[k], s)
    BY <2>1, <2>2, <2>3 DEF FacePairs, MultiplierPairs
  <2> QED BY <1>2, <2>2, <2>4 DEF InInterface
<1> QED BY <1>5, <1>6

\* The parts of SystemCoupled.
PatternOf(p) ==
  {<<index_table[TableOf[p]][ij[1]], index_table[TableOf[p]][ij[2]]>> : ij \in Overlaps[TableOf[p]]}

PatternOfMortar(i) == (MultiplierDofs(i) \X InterfaceDofs(i)) \cup (InterfaceDofs(i) \X MultiplierDofs(i))

PatternOfPatches == UNION {PatternOf(p) : p \in InsertedPatches}

PatternOfMortars == UNION {PatternOfMortar(i) : i \in Mortars}

ConstraintsOfAll == UNION {{<<d, InterfaceDofs(i)>> : d \in MultiplierDofs(i)} : i \in Mortars}

\* Between calls the invariant says that the system is coupled.
LEMMA InvariantCouples ==
  ASSUME SpaceManagerAssumption, MultiPatchAssumption, MultiPatchTypeOK, CouplingInv
  PROVE  SystemCoupled
<1>1. SUFFICES ASSUME todo = << >>
               PROVE  /\ GetSparsityPattern = PatternOfPatches \cup PatternOfMortars
                      /\ linear_constraints = ConstraintsOfAll
  BY DEF SystemCoupled, PatternOf, PatternOfPatches, PatternOfMortar, PatternOfMortars, ConstraintsOfAll
<1>2. ASSUME NEW i \in AllInterfaces, i.multiplier # {}
      PROVE  i \in Mortars
  <2>1. PICK s \in i.multiplier : TRUE
    BY <1>2
  <2> QED BY <2>1 DEF CouplingInv, MultipliersOnce, Mortars
<1>3. Mortars \subseteq AllInterfaces
  BY DEF Mortars
<1>4. ASSUME NEW x
      PROVE  x \in GetSparsityPattern <=> x \in PatternOfPatches \cup PatternOfMortars
  <2>1. (\E p \in InsertedPatches : x \in ElementPairs(p)) <=> x \in PatternOfPatches
    <3>1. InsertedPatches \subseteq Space
      BY DEF InsertedPatches, Patches, MultiPatchTypeOK, MultiPatchAssumption
    <3>2. \A p \in InsertedPatches : ElementPairs(p) = PatternOf(p)
      BY <3>1, PatternOfPatch DEF PatternOf
    <3> QED BY <3>2 DEF PatternOfPatches
  <2>2. (\E i \in AllInterfaces : \E k \in {1, 2} : InInterface(x, i, k)) <=> x \in PatternOfMortars
    <3>1. ASSUME NEW i \in AllInterfaces, NEW k \in {1, 2}, InInterface(x, i, k)
          PROVE  i \in Mortars
      BY <1>2, <3>1 DEF InInterface
    <3>2. \A i \in AllInterfaces : (\E k \in {1, 2} : InInterface(x, i, k)) <=> x \in PatternOfMortar(i)
      BY <1>1, PairsOfInterface DEF PatternOfMortar
    <3> QED BY <1>3, <3>1, <3>2 DEF PatternOfMortars
  <2> QED BY <1>1, <2>1, <2>2, PatternOfBlocks
<1>5. ASSUME NEW l
      PROVE  l \in linear_constraints <=> l \in ConstraintsOfAll
  <2>1. ASSUME l \in linear_constraints
        PROVE  l \in ConstraintsOfAll
    <3>1. PICK i \in AllInterfaces : \E s \in i.multiplier :
             l[1] \in GlobalDofs(s) /\ l = <<l[1], BothFaces(i.patch_and_side)>>
      BY <2>1 DEF CouplingInv, ConstraintsOfMortars
    <3>2. i \in Mortars /\ l[1] \in MultiplierDofs(i) /\ l = <<l[1], InterfaceDofs(i)>>
      <4>1. PICK s \in i.multiplier : l[1] \in GlobalDofs(s) /\ l = <<l[1], BothFaces(i.patch_and_side)>>
        BY <3>1
      <4>2. i \in Mortars
        BY <1>2, <4>1
      <4>3. BothFaces(i.patch_and_side) = InterfaceDofs(i)
        BY <1>1, InterfaceDone
      <4>4. l[1] \in MultiplierDofs(i)
        BY <4>1 DEF MultiplierDofs
      <4> QED BY <4>1, <4>2, <4>3, <4>4
    <3>3. PICK d \in MultiplierDofs(i) : l = <<d, InterfaceDofs(i)>>
      BY <3>2
    <3> QED BY <3>2, <3>3 DEF ConstraintsOfAll
  <2>2. ASSUME l \in ConstraintsOfAll
        PROVE  l \in linear_constraints
    <3>1. PICK i \in Mortars : \E d \in MultiplierDofs(i) : l = <<d, InterfaceDofs(i)>>
      BY <2>2 DEF ConstraintsOfAll
    <3>2. PICK d \in MultiplierDofs(i) : l = <<d, InterfaceDofs(i)>>
      BY <3>1
    <3>3. PICK s \in i.multiplier : d \in GlobalDofs(s)
      BY <3>2 DEF MultiplierDofs
    <3> QED BY <1>1, <1>3, <3>2, <3>3, InterfaceDone
  <2> QED BY <2>1, <2>2
<1> QED BY <1>4, <1>5

\* However the calls of clients and of the manager interleave, the blocks, the
\* pairs and the constraints are there or still to be made by the call in progress.
THEOREM CouplingInvariant ==
  ASSUME SpaceManagerAssumption, MultiPatchAssumption, TablesDistinct
  PROVE  MultiPatchSpec => [](MultiPatchTypeOK /\ IInv /\ CouplingInv)
<1>1. MultiPatchInit => MultiPatchTypeOK /\ IInv /\ CouplingInv
  BY InitIInv, InitCouples DEF MultiPatchInit, MultiPatchTypeOK
<1>2. MultiPatchTypeOK /\ IInv /\ CouplingInv /\ [MultiPatchNext]_mvars => (MultiPatchTypeOK /\ IInv /\ CouplingInv)'
  BY StepNumbers, StepCouples
<1> QED BY <1>1, <1>2, PTL DEF MultiPatchSpec

\* Whatever calls clients make of the MultiPatchSpaces, in whatever order, and
\* however often the manager numbers new spaces in between: when no call is in
\* progress the sparsity pattern and the linear constraints of the manager
\* (get_sparsity_pattern, linear_constraints_) are those of the functions that
\* overlap and of the mortar interfaces, under the ids in use.
THEOREM PatchesCoupled ==
  ASSUME SpaceManagerAssumption, MultiPatchAssumption, TablesDistinct
  PROVE  MultiPatchSpec => []SystemCoupled
<1>1. MultiPatchTypeOK /\ IInv /\ CouplingInv => SystemCoupled
  BY InvariantCouples
<1> QED BY <1>1, CouplingInvariant, PTL
=============================================================================
