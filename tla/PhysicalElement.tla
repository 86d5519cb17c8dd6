---------------------------- MODULE PhysicalElement ----------------------------
(***************************************************************************)
(* What an element of a physical space computes at one point from the      *)
(* gradient DF and the hessian D2F of the mapping and the derivatives of   *)
(* a basis function on the reference domain: inverse gradients and         *)
(* hessians, measures and normals (MappingElementAccessor), and the        *)
(* transformation of the derivatives (PushForwardElementAccessor); and the *)
(* space on a face of the patch, its dofs and its mapping.                 *)
(***************************************************************************)
EXTENDS BasisEvaluation, Sequences

\* UnitElement: the faces are numbered direction by direction, the lower side first.
FaceConstantDirection(face) == face \div 2
FaceSide(face) == face % 2

\* UnitElement::face_active_directions, in ascending order.
FaceActiveDirection(face, k) == IF k < FaceConstantDirection(face) THEN k ELSE k + 1

\* UnitElement::face_normal
UnitNormal(dim, face) ==
  [i \in {<<k>> : k \in 0 .. dim - 1} |->
     IF i = <<FaceConstantDirection(face)>> THEN IF FaceSide(face) = 0 THEN Prime - 1 ELSE 1 ELSE 0]

\* The rows of a gradient along a face, and the square of the face's measure.
FaceGradient(DF, face) ==
  [i \in {<<k, j[2]>> : k \in 0 .. Cardinality(Slot(DF, 1)) - 2, j \in DOMAIN DF} |->
     DF[<<FaceActiveDirection(face, i[1]), i[2]>>]]

FaceMeasureSquared(DF, face) == DeterminantSquared(FaceGradient(DF, face))

\* A variant that sends the unit normal through the gradient itself.
NormalAlongGradient(DF, face) ==
  Action(DF, UnitNormal(Cardinality(Slot(DF, 1)), face))

\* The direction of the normal; the code divides it by its norm.
Normal(DF, face) ==
  Action(Transpose(InverseOf(DF)), UnitNormal(Cardinality(Slot(DF, 1)), face))

\* The second derivative of the map, or of a function, along the directions u and v.
Along2(D2, u, v) == Action(Action(D2, u), v)

\* The vectors A[v] of the inverse gradient.
InverseRows(DF) == LET DF_inv == InverseOf(DF) IN [v \in Slot(DF, 2) |-> Entry(DF_inv, v)]

\* The entries of a hessian in the physical space; at(u, v) for directions below dim.
HessianIds(DF, components) == {<<u, v, k>> : u, v \in Slot(DF, 2), k \in components}

\* A variant without the minus of the formula.
InverseHessianPositive(DF, D2F) ==
  LET DF_inv == InverseOf(DF)
      rows == InverseRows(DF)
  IN  [i \in HessianIds(DF, Slot(DF, 1)) |->
         IF {i[1], i[2]} \subseteq Slot(DF, 1) THEN Action(DF_inv, Along2(D2F, rows[i[1]], rows[i[2]]))[<<i[3]>>] ELSE 0]

\* evaluate_inverse_hessian: only directions below dim are filled.
InverseHessian(DF, D2F) ==
  LET DF_inv == InverseOf(DF)
      rows == InverseRows(DF)
  IN  [i \in HessianIds(DF, Slot(DF, 1)) |->
         IF {i[1], i[2]} \subseteq Slot(DF, 1)
         THEN Negative(Action(DF_inv, Along2(D2F, rows[i[1]], rows[i[2]]))[<<i[3]>>]) ELSE 0]

-----------------------------------------------------------------------------
(* D0v, D1v, D2v: the transformation h_grad.  h_div stops the program.     *)

TransformValues(D0v_hat) == D0v_hat

TransformGradients(D1v_hat, DF) == Compose(D1v_hat, InverseOf(DF))

\* One function at one point, with the rows e of the inverse gradient: the
\* second derivatives along e[v2] and e[v1] less what the curvature adds.
HessianEntry(D1v, D2v_hat, D2F, v2, v1) ==
  Minus(Along2(D2v_hat, v1, v2), Action(D1v, Along2(D2F, v1, v2)))

\* A variant that forgets that the mapping is curved.
TransformHessiansFlat(D1v_hat, D2v_hat, DF, D2F) ==
  LET e == InverseRows(DF)
  IN  [i \in HessianIds(DF, Slot(D1v_hat, 2)) |->
         IF {i[1], i[2]} \subseteq Slot(DF, 1) THEN Along2(D2v_hat, e[i[1]], e[i[2]])[<<i[3]>>] ELSE 0]

\* fill_cache: the entries v2 <= v1 are computed, the others copied, and
\* those of directions from dim on are not filled.
TransformHessians(D1v_hat, D2v_hat, DF, D2F) ==
  LET D1v == TransformGradients(D1v_hat, DF)
      e == InverseRows(DF)
      lower(i) == IF i[1] <= i[2] THEN <<i[1], i[2]>> ELSE <<i[2], i[1]>>
  IN  [i \in HessianIds(DF, Slot(D1v_hat, 2)) |->
         IF {i[1], i[2]} \subseteq Slot(DF, 1)
         THEN HessianEntry(D1v, D2v_hat, D2F, e[lower(i)[1]], e[lower(i)[2]])[<<i[3]>>] ELSE 0]

\* One entry from the derivatives of the inverse map: DF_inv_uv its second ones.
HessianAtPointsEntry(D1v, D2v_hat, DF_inv_uv, u, v) == Plus(Action(D1v, DF_inv_uv), Along2(D2v_hat, u, v))

\* A variant that contracts the second inverse derivative with the pushed-forward gradient.
HessiansAtPointsTwice(D1v_hat, D2v_hat, DF, D2F) ==
  LET e == InverseRows(DF)
      D2F_inv == InverseHessian(DF, D2F)
      D1v == TransformGradients(D1v_hat, DF)
  IN  [i \in HessianIds(DF, Slot(D1v_hat, 2)) |->
         IF {i[1], i[2]} \subseteq Slot(DF, 1)
         THEN HessianAtPointsEntry(D1v, D2v_hat, Entry(Entry(D2F_inv, i[1]), i[2]), e[i[1]], e[i[2]])[<<i[3]>>] ELSE 0]

\* transform_basis_derivatives_at_points, by the derivatives of the inverse map.
TransformHessiansAtPoints(D1v_hat, D2v_hat, DF, D2F) ==
  LET e == InverseRows(DF)
      D2F_inv == InverseHessian(DF, D2F)
  IN  [i \in HessianIds(DF, Slot(D1v_hat, 2)) |->
         IF {i[1], i[2]} \subseteq Slot(DF, 1)
         THEN HessianAtPointsEntry(D1v_hat, D2v_hat, Entry(Entry(D2F_inv, i[1]), i[2]), e[i[1]], e[i[2]])[<<i[3]>>] ELSE 0]

-----------------------------------------------------------------------------
(* The space on a face of the patch: its grid, its functions and the dofs    *)
(* of the volume they are traces of (get_ref_face_space), with the mapping   *)
(* restricted to the face (MappingSlice).  The grid, the degrees and the     *)
(* multiplicities are those of the active directions; the weights are all    *)
(* one, whatever the weights of the volume are.                              *)

\* The data of the active directions of a face, and data of a face with an
\* entry inserted for the constant direction.
OnFace(data, face) == [k \in 0 .. Cardinality(DOMAIN data) - 2 |-> data[FaceActiveDirection(face, k)]]

Inserted(data, face, entry) ==
  LET const_dir == FaceConstantDirection(face)
  IN  [d \in 0 .. Cardinality(DOMAIN data) |->
         IF d = const_dir THEN entry ELSE data[IF d < const_dir THEN d ELSE d - 1]]

\* get_face_grid
FaceKnots(S, face) == OnFace(S.knots, face)

\* get_face_degree and get_face_mult
FaceDegree(S, face) == [c \in Comps(S) |-> OnFace(S.degree[c], face)]
FaceMult(S, face) == [c \in Comps(S) |-> OnFace(S.mult[c], face)]

NumDofs(S) == DofsOffset(S, Cardinality(Comps(S)))

\* get_ref_face_space; that of a NURBSSpace adds weights to that of its splines.
RefFaceSpace(S, face) ==
  LET F == [dim |-> S.dim - 1, knots |-> FaceKnots(S, face), degree |-> FaceDegree(S, face),
            mult |-> FaceMult(S, face), active |-> S.active, weights |-> <<>>]
      ones == [c \in Comps(S) |-> [i \in 0 .. Box(F.dim)!FlatSize(PatchSize(F, c)) - 1 |-> 1]]
  IN  IF IsNurbs(S) THEN [F EXCEPT !.weights = ones] ELSE F

\* FaceGridMap: the element of the volume behind element f of the face.
FaceGridMap(S, face, f) ==
  Inserted(f, face, IF FaceSide(face) = 0 THEN 0 ELSE Len(S.knots[FaceConstantDirection(face)]) - 2)

\* A variant that takes the first functions of the direction on both sides.
FaceToElementDofsFirst(S, face) ==
  LET F == RefFaceSpace(S, face)
      volume(c, i) == DofsOffset(S, c) +
        Box(S.dim)!TensorToFlat(Inserted(Box(F.dim)!FlatToTensor(i, PatchSize(F, c)), face, 0), PatchSize(S, c))
  IN  [k \in 0 .. NumDofs(F) - 1 |-> volume(CompOfDof(F, k), k - DofsOffset(F, CompOfDof(F, k)))]

\* face_to_element_dofs: the functions of the volume with the same index in the
\* active directions and the first or the last one in the direction of the face.
FaceToElementDofs(S, face) ==
  LET F == RefFaceSpace(S, face)
      fixed_idx(c) == FaceSide(face) * (PatchSize(S, c)[FaceConstantDirection(face)] - 1)
      volume(c, i) == DofsOffset(S, c) +
        Box(S.dim)!TensorToFlat(Inserted(Box(F.dim)!FlatToTensor(i, PatchSize(F, c)), face, fixed_idx(c)), PatchSize(S, c))
  IN  [k \in 0 .. NumDofs(F) - 1 |-> volume(CompOfDof(F, k), k - DofsOffset(F, CompOfDof(F, k)))]

\* MappingSlice::build_extended_quadrature, its points.
ExtendedPoints(points, face) == Inserted(points, face, [i \in {0} |-> FaceSide(face)])

\* MappingSlice::evaluate and evaluate_gradients, from the map of the volume.
SliceAt(map, face) == [o \in 0 .. 1 |-> IF o = 0 THEN map[0] ELSE FaceGradient(map[1], face)]
=============================================================================
