---------------------------- MODULE DofDistribution ----------------------------
(***************************************************************************)
(* The index table of a DofDistribution: which basis function has which    *)
(* number.  A table is a function from the local dofs of a patch (the      *)
(* components one after the other, the first direction fastest in each) to *)
(* global ids; it starts as the identity and add_dofs_offset shifts it.    *)
(* A shape says what a table was built from:                               *)
(*   dim, degree[comp][dir], accum[comp][dir] (for each interval the first *)
(*   function that lives on it) and n_basis[comp][dir].                    *)
(* Components and directions count from 0, as in the code.                 *)
(***************************************************************************)
EXTENDS Tensors, Sequences

Comps(shape) == DOMAIN shape.n_basis

FlatSizeOf(shape, comp) == Indexing(shape.dim)!FlatSize(shape.n_basis[comp])

\* What a DofDistribution is built from: components and directions from 0, at
\* least one function in each, and on each interval degree + 1 of them.
ShapeOK(shape) ==
  LET dirs == 0 .. shape.dim - 1
  IN  /\ shape.dim \in Nat \ {0}
      /\ \E last \in Comps(shape) : Comps(shape) = 0 .. last
      /\ \A c \in Comps(shape) :
           /\ shape.n_basis[c] \in [dirs -> Nat \ {0}]
           /\ shape.degree[c] \in [dirs -> Nat]
           /\ shape.accum[c] \in [dirs -> Seq(Nat)]
           /\ \A d \in dirs :
                /\ Len(shape.accum[c][d]) = Len(shape.accum[0][d])
                /\ \A k \in 1 .. Len(shape.accum[c][d]) :
                     shape.accum[c][d][k] + shape.degree[c][d] < shape.n_basis[c][d]

\* The local dof the numbering of a component starts with.
CompOffset(shape, comp) ==
  LET o[c \in Comps(shape)] == IF c = 0 THEN 0 ELSE o[c - 1] + FlatSizeOf(shape, c - 1)
  IN  o[comp]

NumDofsOf(shape) ==
  LET last == CHOOSE c \in Comps(shape) : c + 1 \notin Comps(shape)
  IN  CompOffset(shape, last) + FlatSizeOf(shape, last)

\* index_table_[comp](tensor), as a local dof.
LocalDof(shape, comp, tensor) ==
  CompOffset(shape, comp) + Indexing(shape.dim)!TensorToFlat(tensor, shape.n_basis[comp])

\* A variant that looks at the first component only.
FindInFirst(table, shape, dof_id) ==
  {[comp |-> 0, tensor |-> Indexing(shape.dim)!FlatToTensor(pos, shape.n_basis[0])] :
     pos \in {q \in 0 .. FlatSizeOf(shape, 0) - 1 : table[q] = dof_id}}

\* find_dof_id: the first component, and in it the first place, with this id;
\* empty when there is none.
FindDofId(table, shape, dof_id) ==
  LET At(comp)    == {pos \in 0 .. FlatSizeOf(shape, comp) - 1 : table[CompOffset(shape, comp) + pos] = dof_id}
      First(comp) == CHOOSE pos \in At(comp) : \A q \in At(comp) : pos <= q
      found       == {comp \in Comps(shape) : At(comp) # {} /\ \A c \in Comps(shape) : c < comp => At(c) = {}}
  IN  {[comp |-> comp, tensor |-> Indexing(shape.dim)!FlatToTensor(First(comp), shape.n_basis[comp])] : comp \in found}

\* global_to_patch_local, of an id that is found.
GlobalToPatchLocal(table, shape, dof_id) ==
  LET place == CHOOSE p \in FindDofId(table, shape, dof_id) : TRUE
  IN  LocalDof(shape, place.comp, place.tensor)

-----------------------------------------------------------------------------
(* The dofs of an element.                                                   *)

\* The functions of a component that live on an element, per direction.
ElementSize(shape, comp) == [d \in DOMAIN shape.n_basis[comp] |-> shape.degree[comp][d] + 1]

\* accum_mult[comp].cartesian_product(t_index), the first of them.
Origin(shape, comp, elem) == [d \in DOMAIN elem |-> shape.accum[comp][d][elem[d] + 1]]

\* Where the runs of create_element_loc_to_global_view start, relative to the
\* origin: one run of the first direction for every choice in the others.
Rows(shape, comp) ==
  LET n == ElementSize(shape, comp)
  IN  {Indexing(shape.dim)!FlatToTensor(r * n[0], n) : r \in 0 .. (Indexing(shape.dim)!FlatSize(n) \div n[0]) - 1}

RangeOfRow(shape, comp, elem, row) ==
  LET origin == Origin(shape, comp, elem)
      first  == LocalDof(shape, comp, [d \in DOMAIN elem |-> origin[d] + row[d]])
  IN  first .. first + ElementSize(shape, comp)[0] - 1

\* elements_loc_to_global_flat_view_, as local dofs: the view follows the table.
ElementView(shape, elem) ==
  UNION {UNION {RangeOfRow(shape, comp, elem, row) : row \in Rows(shape, comp)} : comp \in Comps(shape)}

\* All elements of the grid (all are active).
ElementsOf(shape) ==
  LET intervals(d) == 0 .. Len(shape.accum[0][d]) - 1
      all == UNION {intervals(d) : d \in DOMAIN shape.accum[0]}
  IN  {e \in [DOMAIN shape.accum[0] -> all] : \A d \in DOMAIN e : e[d] \in intervals(d)}
=============================================================================
