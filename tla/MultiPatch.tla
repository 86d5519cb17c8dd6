------------------------------ MODULE MultiPatch ------------------------------
(***************************************************************************)
(* MultiPatchSpaces over one SpaceManager: patches, interfaces between     *)
(* them, and the multiplier spaces of mortar interfaces.                   *)
(*                                                                         *)
(* A call of a MultiPatchSpace is a sequence of calls of its manager.  The *)
(* call in progress is todo, and a step executes its head as the action of *)
(* SpaceManager, with the assertions of that action: a call that meets a   *)
(* false assertion halfway never empties todo.                             *)
(*                                                                         *)
(* The manager's documentation lets several MultiPatchSpaces share it, to  *)
(* number the dofs of all.  Clients keep one phase open at a time, insert  *)
(* patches before interfaces, and glue two patches along one face at most  *)
(* (the second gluing adds a block that exists).                           *)
(***************************************************************************)
EXTENDS SpaceManager, DofDistribution

CONSTANTS
  MultiPatchSpaces, \* the objects that share the manager
  Patch,            \* physical spaces, named as in the manager (get_id())
  Multiplier,       \* multiplier spaces of mortar interfaces
  MapOf,            \* MapOf[p]: the mapping of a patch
  Shape,            \* Shape[t]: what table t was built from
  Contact,          \* <<patch, face, patch, face>>: what may be glued
  MultiplierFor,    \* MultiplierFor[c]: the multipliers that fit contact c
  InterfaceTypes    \* types for add_interface

ASSUME MultiPatchAssumption ==
  /\ Patch \cup Multiplier \subseteq Space
  /\ Patch \cap Multiplier = {}
  /\ \A t \in Table : Size[t] = NumDofsOf(Shape[t])
  /\ \A t \in Table : Elements[t] = {ElementView(Shape[t], e) : e \in ElementsOf(Shape[t])}
  /\ \A t \in Table : ShapeOK(Shape[t])
  /\ \A p \in Patch : Shape[TableOf[p]].dim > 1
  /\ \A c \in Contact :
       /\ {c[1], c[3]} \subseteq Patch /\ c[1] # c[3]
       /\ c[2] \in 0 .. 2 * Shape[TableOf[c[1]]].dim - 1
       /\ c[4] \in 0 .. 2 * Shape[TableOf[c[3]]].dim - 1
       /\ MultiplierFor[c] \subseteq Multiplier

VARIABLES
  is_patch_insertion_open,      \* of each MultiPatchSpace
  is_interface_insertion_open,
  patches,                      \* the sequence of patches
  interfaces,                   \* [type, patch_and_side, multiplier]
  todo                          \* calls of the manager still to be made

mp_vars == <<is_patch_insertion_open, is_interface_insertion_open, patches, interfaces>>

mvars == <<mp_vars, todo, vars>>

Patches(m) == {patches[m][i] : i \in 1 .. Len(patches[m])}

AllInterfaces == UNION {interfaces[m] : m \in MultiPatchSpaces}

MultiPatchInit ==
  /\ Init
  /\ is_patch_insertion_open = [m \in MultiPatchSpaces |-> FALSE]
  /\ is_interface_insertion_open = [m \in MultiPatchSpaces |-> FALSE]
  /\ patches = [m \in MultiPatchSpaces |-> << >>]
  /\ interfaces = [m \in MultiPatchSpaces |-> {}]
  /\ todo = << >>

\* A client calls when no call is in progress and no other object has a phase open.
Idle(m) ==
  /\ todo = << >>
  /\ \A n \in MultiPatchSpaces \ {m} : ~is_patch_insertion_open[n] /\ ~is_interface_insertion_open[n]

-----------------------------------------------------------------------------
(* Faces of a patch.                                                         *)

ConstantDirection(face) == face \div 2

ActiveDirections(dim, face) ==
  [j \in 0 .. dim - 2 |-> IF j < ConstantDirection(face) THEN j ELSE j + 1]

\* A variant that fixes the first index of the constant direction always.
FirstLayer(n_basis, face) == 0

\* fixed_idx: the first or the last function of the constant direction.
FixedIndex(n_basis, face) == (face % 2) * (n_basis[ConstantDirection(face)] - 1)

\* The tensor index of a patch for one of its face.
Inserted(f_tensor, dim, face, fixed) ==
  [d \in 0 .. dim - 1 |->
     IF d = ConstantDirection(face) THEN fixed
     ELSE f_tensor[CHOOSE j \in 0 .. dim - 2 : ActiveDirections(dim, face)[j] = d]]

\* The ids get_face_space gives in face_to_element_dofs.
FaceDofs(s, face) ==
  LET t   == TableOf[s]
      dim == Shape[t].dim
      active == ActiveDirections(dim, face)
      OfComp(comp) ==
        LET n == Shape[t].n_basis[comp]
            face_n == [j \in 0 .. dim - 2 |-> n[active[j]]]
        IN  {index_table[t][LocalDof(Shape[t], comp,
               Inserted(Indexing(dim - 1)!FlatToTensor(i, face_n), dim, face, FixedIndex(n, face)))] :
               i \in 0 .. Indexing(dim - 1)!FlatSize(face_n) - 1}
  IN  UNION {OfComp(comp) : comp \in Comps(Shape[t])}

-----------------------------------------------------------------------------
(* Patches.                                                                  *)

PatchInsertionOpen(m) ==
  /\ Idle(m)
  /\ ~is_patch_insertion_open[m] /\ ~is_interface_insertion_open[m] /\ patches[m] = << >>
  /\ is_patch_insertion_open' = [is_patch_insertion_open EXCEPT ![m] = TRUE]
  /\ todo' = << [call |-> "spaces_insertion_open"] >>
  /\ UNCHANGED <<is_interface_insertion_open, patches, interfaces, vars>>

AddPatch(m, p) ==
  /\ Idle(m)
  /\ is_patch_insertion_open[m]
  /\ \A n \in MultiPatchSpaces : p \notin Patches(n)
  /\ patches' = [patches EXCEPT ![m] = Append(@, p)]
  /\ todo' = << [call |-> "add_space", space |-> p] >>
  /\ UNCHANGED <<is_patch_insertion_open, is_interface_insertion_open, interfaces, vars>>

\* A variant that leaves the connectivity phase open.
BlocksLeftOpen(m) ==
  << [call |-> "spaces_connectivity_open"] >>
    \o [i \in 1 .. Len(patches[m]) |->
          [call |-> "add_spaces_connection", row |-> patches[m][i], col |-> patches[m][i], use |-> TRUE]]

\* The block of each patch with itself, between the opening and the closing
\* of the connectivity phase.
PatchBlocks(m) ==
  << [call |-> "spaces_connectivity_open"] >>
    \o [i \in 1 .. Len(patches[m]) |->
          [call |-> "add_spaces_connection", row |-> patches[m][i], col |-> patches[m][i], use |-> TRUE]]
    \o << [call |-> "spaces_connectivity_close"] >>

\* A mapping used by two patches throws: no change.
PatchInsertionClose(m, renumber) ==
  /\ Idle(m)
  /\ is_patch_insertion_open[m]
  /\ patches[m] # << >>
  /\ \A p, q \in Patches(m) : MapOf[p] = MapOf[q] => p = q
  /\ todo' = << [call |-> "spaces_insertion_close", renumber |-> renumber] >>
               \o PatchBlocks(m) \o << [call |-> "patches_inserted", of |-> m] >>
  /\ UNCHANGED <<mp_vars, vars>>

-----------------------------------------------------------------------------
(* Interfaces.                                                               *)

InterfaceInsertionOpen(m) ==
  /\ Idle(m)
  /\ ~is_patch_insertion_open[m]
  /\ ~is_interface_insertion_open[m]
  /\ patches[m] # << >>
  /\ is_interface_insertion_open' = [is_interface_insertion_open EXCEPT ![m] = TRUE]
  /\ UNCHANGED <<is_patch_insertion_open, patches, interfaces, todo, vars>>

InterfaceInsertionClose(m) ==
  /\ Idle(m)
  /\ is_interface_insertion_open[m]
  /\ is_interface_insertion_open' = [is_interface_insertion_open EXCEPT ![m] = FALSE]
  /\ UNCHANGED <<is_patch_insertion_open, patches, interfaces, todo, vars>>

\* What a client gives add_interface: no block of the two patches exists.
Unglued(m, c) ==
  \A i \in interfaces[m] :
    i.type # "Mortar" => {i.patch_and_side[1][1], i.patch_and_side[2][1]} # {c[1], c[3]}

\* The constructor of Interface for a contact.
NewInterface(type, c, multiplier) ==
  [type |-> type, patch_and_side |-> << <<c[1], c[2]>>, <<c[3], c[4]>> >>, multiplier |-> multiplier]

\* add_interface: two blocks, with no dofs in them.
AddInterface(m, type, c) ==
  /\ Idle(m)
  /\ is_interface_insertion_open[m]
  /\ {c[1], c[3]} \subseteq Patches(m)
  /\ Unglued(m, c)
  /\ interfaces' = [interfaces EXCEPT ![m] = @ \cup {NewInterface(type, c, {})}]
  /\ todo' = << [call |-> "spaces_connectivity_open"],
                [call |-> "add_spaces_connection", row |-> c[1], col |-> c[3], use |-> FALSE],
                [call |-> "add_spaces_connection", row |-> c[3], col |-> c[1], use |-> FALSE],
                [call |-> "spaces_connectivity_close"] >>
  /\ UNCHANGED <<is_patch_insertion_open, is_interface_insertion_open, patches, vars>>

\* operator==: the multiplier is not compared.
SameInterface(i, j) == i.type = j.type /\ i.patch_and_side = j.patch_and_side

\* fill_space_manager_dofs_connectivity: the multipliers with all the dofs of
\* either face, and a Lagrange constraint on the dofs of both for each multiplier.
FillConnectivity(side, multiplier) ==
  << [call |-> "connect_face", side |-> side[1], multiplier |-> multiplier],
     [call |-> "connect_face", side |-> side[2], multiplier |-> multiplier],
     [call |-> "linear_constraints_open"],
     [call |-> "add_linear_constraints", sides |-> side, multiplier |-> multiplier],
     [call |-> "linear_constraints_close"] >>

\* add_interface_mortar: the multiplier space enters the manager in a phase of
\* its own, then the blocks with either patch and their transposes.
AddInterfaceMortar(m, c, multiplier) ==
  LET new == NewInterface("Mortar", c, {multiplier})
      Block(row, col) == [call |-> "add_spaces_connection", row |-> row, col |-> col, use |-> FALSE]
  IN  /\ Idle(m)
      /\ is_interface_insertion_open[m]
      /\ {c[1], c[3]} \subseteq Patches(m)
      /\ multiplier \notin AddedSpaces
      /\ \A i \in interfaces[m] : ~SameInterface(i, new)
      /\ interfaces' = [interfaces EXCEPT ![m] = @ \cup {new}]
      /\ todo' = << [call |-> "spaces_insertion_open"],
                    [call |-> "add_space", space |-> multiplier],
                    [call |-> "spaces_insertion_close", renumber |-> TRUE],
                    [call |-> "spaces_connectivity_open"],
                    Block(c[1], multiplier), Block(multiplier, c[1]),
                    Block(c[3], multiplier), Block(multiplier, c[3]),
                    [call |-> "spaces_connectivity_close"] >>
                 \o FillConnectivity(new.patch_and_side, multiplier)
      /\ UNCHANGED <<is_patch_insertion_open, is_interface_insertion_open, patches, vars>>

-----------------------------------------------------------------------------
(* The calls of the manager.                                                 *)

\* build_dofs_connectvity_all_to_all, for one face: both blocks.  A step of its
\* own for each block.
ConnectFace(c) ==
  LET patch == c.side[1]
      dofs  == FaceDofs(patch, c.side[2])
      multiplier_dofs == GlobalDofs(c.multiplier)
  IN  IF multiplier_dofs \X dofs \subseteq spaces_connections[<<c.multiplier, patch>>].extra
      THEN AddBlockPairs(patch, c.multiplier, dofs \X multiplier_dofs) /\ todo' = Tail(todo)
      ELSE AddBlockPairs(c.multiplier, patch, multiplier_dofs \X dofs) /\ UNCHANGED todo

\* One constraint per step, for the multipliers in ascending order.
AddMortarConstraint(c) ==
  LET dofs == UNION {FaceDofs(c.sides[i][1], c.sides[i][2]) : i \in {1, 2}}
      rest == {d \in GlobalDofs(c.multiplier) : \A l \in linear_constraints : l[1] # d}
  IN  /\ AddConstraintOn(LeastOf(rest), dofs)
      /\ IF Cardinality(rest) = 1 THEN todo' = Tail(todo) ELSE UNCHANGED todo

ManagerCall(c) ==
  \/ c.call = "spaces_insertion_open" /\ SpacesInsertionOpen
  \/ c.call = "add_space" /\ AddSpace(c.space)
  \/ c.call = "spaces_insertion_close" /\ SpacesInsertionClose(c.renumber)
  \/ c.call = "spaces_connectivity_open" /\ SpacesConnectivityOpen
  \/ c.call = "add_spaces_connection" /\ AddSpacesConnection(c.row, c.col, c.use)
  \/ c.call = "spaces_connectivity_close" /\ SpacesConnectivityClose
  \/ c.call = "linear_constraints_open" /\ LinearConstraintsOpen
  \/ c.call = "linear_constraints_close" /\ LinearConstraintsClose

\* The call in progress goes on: the loop of perform_space_dofs_renumbering
\* while it runs, the next call of the manager otherwise.
Continue ==
  /\ todo # << >>
  /\ \/ (RenumberSpace \/ RenumberingDone) /\ UNCHANGED <<mp_vars, todo>>
     \/ ManagerCall(Head(todo)) /\ todo' = Tail(todo) /\ UNCHANGED mp_vars
     \/ Head(todo).call = "connect_face" /\ ConnectFace(Head(todo)) /\ UNCHANGED mp_vars
     \/ Head(todo).call = "add_linear_constraints" /\ AddMortarConstraint(Head(todo)) /\ UNCHANGED mp_vars
     \/ /\ Head(todo).call = "patches_inserted"
        /\ ~closing
        /\ is_patch_insertion_open' = [is_patch_insertion_open EXCEPT ![Head(todo).of] = FALSE]
        /\ todo' = Tail(todo)
        /\ UNCHANGED <<is_interface_insertion_open, patches, interfaces, vars>>

MultiPatchNext ==
  \/ \E m \in MultiPatchSpaces :
       \/ PatchInsertionOpen(m)
       \/ \E p \in Patch : AddPatch(m, p)
       \/ \E renumber \in CloseArgs : PatchInsertionClose(m, renumber)
       \/ InterfaceInsertionOpen(m)
       \/ InterfaceInsertionClose(m)
       \/ \E type \in InterfaceTypes, c \in Contact : AddInterface(m, type, c)
       \/ \E c \in Contact : \E multiplier \in MultiplierFor[c] : AddInterfaceMortar(m, c, multiplier)
  \/ Continue

\* A call that has begun goes on; clients need not call.
MultiPatchSpec == MultiPatchInit /\ [][MultiPatchNext]_mvars /\ WF_mvars(Continue)

-----------------------------------------------------------------------------
(* global_to_local.                                                          *)

\* The first patch that has the id, and where; empty when none has it.
GlobalToLocal(m, d) ==
  LET In(i) == FindDofId(index_table[TableOf[patches[m][i]]], Shape[TableOf[patches[m][i]]], d)
      found == {i \in 1 .. Len(patches[m]) : In(i) # {} /\ \A j \in 1 .. i - 1 : In(j) = {}}
  IN  {[space |-> patches[m][i], place |-> CHOOSE p \in In(i) : TRUE] : i \in found}

-----------------------------------------------------------------------------
(* Properties.                                                               *)

\* A call of a MultiPatchSpace returns: no assertion of the manager stops it
\* halfway, whatever phases and objects were used before.
CallsReturn == (todo # << >>) ~> (todo = << >>)

\* The functions of table t, by component and tensor index.
Places(t) ==
  UNION {{[comp |-> comp, tensor |-> Indexing(Shape[t].dim)!FlatToTensor(i, Shape[t].n_basis[comp])] :
            i \in 0 .. FlatSizeOf(Shape[t], comp) - 1} : comp \in Comps(Shape[t])}

\* The elements function pl lives on.
Support(t, pl) ==
  {e \in ElementsOf(Shape[t]) : \A d \in DOMAIN e :
     LET first == Shape[t].accum[pl.comp][d][e[d] + 1]
     IN  first <= pl.tensor[d] /\ pl.tensor[d] <= first + Shape[t].degree[pl.comp][d]}

\* The pairs of functions of a table that overlap, as local dofs.
Overlaps ==
  [t \in Table |->
     LET Local(pl) == LocalDof(Shape[t], pl.comp, pl.tensor)
         support == [pl \in Places(t) |-> Support(t, pl)]
     IN  {<<Local(pq[1]), Local(pq[2])>> : pq \in {pq \in Places(t) \X Places(t) :
            support[pq[1]] \cap support[pq[2]] # {}}}]

\* The functions of a table that do not vanish on a face: the outermost layer.
OnFace ==
  [t \in Table |-> [face \in 0 .. 2 * Shape[t].dim - 1 |->
     {LocalDof(Shape[t], pl.comp, pl.tensor) : pl \in {pl \in Places(t) :
        LET d == face \div 2
        IN  pl.tensor[d] = IF face % 2 = 0 THEN 0 ELSE Shape[t].n_basis[pl.comp][d] - 1}}]]

Ids(s, locals) == {index_table[TableOf[s]][i] : i \in locals}

InsertedPatches == UNION {Patches(m) : m \in {n \in MultiPatchSpaces : ~is_patch_insertion_open[n]}}

Mortars == {i \in AllInterfaces : i.type = "Mortar"}

InterfaceDofs(i) ==
  UNION {Ids(i.patch_and_side[k][1], OnFace[TableOf[i.patch_and_side[k][1]]][i.patch_and_side[k][2]]) : k \in {1, 2}}

MultiplierDofs(i) == UNION {GlobalDofs(s) : s \in i.multiplier}

\* Between calls the sparsity pattern of the manager is that of the glued
\* problem: functions of a patch that overlap, and the multipliers of a mortar
\* interface with the functions that do not vanish on its two faces, both ways,
\* under the ids they have now.  Each multiplier has one linear constraint, on
\* those functions.
SystemCoupled ==
  todo = << >> =>
    /\ GetSparsityPattern =
         (UNION {{<<index_table[TableOf[p]][ij[1]], index_table[TableOf[p]][ij[2]]>> : ij \in Overlaps[TableOf[p]]} : p \in InsertedPatches})
         \cup UNION {(MultiplierDofs(i) \X InterfaceDofs(i)) \cup (InterfaceDofs(i) \X MultiplierDofs(i)) : i \in Mortars}
    /\ linear_constraints = UNION {{<<d, InterfaceDofs(i)>> : d \in MultiplierDofs(i)} : i \in Mortars}

\* Once its patches are renumbered, global_to_local finds of every id the one
\* function of the patches of the MultiPatchSpace that has it, and nothing for
\* the ids of multipliers and of other MultiPatchSpaces.
DofsFound ==
  \A m \in MultiPatchSpaces :
    todo = << >> /\ Patches(m) \subseteq SpacesIn(spaces_with_renumbered_dofs) =>
      \A d \in 0 .. space_dofs_offset :
        {<<found.space, LocalDof(Shape[TableOf[found.space]], found.place.comp, found.place.tensor)>> :
           found \in GlobalToLocal(m, d)}
          = UNION {{<<p, i>> : i \in {i \in LocalDofs(TableOf[p]) : index_table[TableOf[p]][i] = d}} : p \in Patches(m)}
=============================================================================
