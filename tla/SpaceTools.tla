------------------------------- MODULE SpaceTools -------------------------------
(***************************************************************************)
(* Projections: space_tools assembles the mass matrix and the right-hand   *)
(* side of a function element by element, for a space or, through its face *)
(* spaces, for the boundary, and dof_tools fixes the values found there in *)
(* the system.  The function is one the space holds, so that what a        *)
(* projection has to find is known: on an isoparametric space the position *)
(* itself, with the control points as coefficients, elsewhere the constant *)
(* one.                                                                    *)
(***************************************************************************)
EXTENDS Evaluation

CONSTANT ToolSetups     \* those with as many points as their projections need

ASSUME SpaceToolsAssumption == ToolSetups \subseteq Setups

VARIABLE system         \* the linear system being assembled, or NoSystem

toolVars == <<vars, system>>

NoSystem == [kind |-> "none"]

IsIsoparametric(s) == s.map.kind = "ig" /\ s.map.space = s.space

\* func.evaluate and evaluate_gradients at a point x of the physical space.
FunctionAt(s, x) == [c \in {<<k>> : k \in Comps(s.space)} |-> IF IsIsoparametric(s) THEN x[c] ELSE 1]
FunctionGradientAt(s) ==
  [ac \in (0 .. SpaceDim(s.map) - 1) \X Comps(s.space) |-> IF IsIsoparametric(s) /\ ac[1] = ac[2] THEN 1 ELSE 0]

Exact(s) == [dof \in 0 .. NumDofs(s.space) - 1 |-> IF IsIsoparametric(s) THEN s.map.points[dof] ELSE 1]

-----------------------------------------------------------------------------
(* The elements of the space or of the space of a face, by flat index *)

SpaceOn(s, face) == IF face = Whole THEN s.space ELSE RefFaceSpace(s.space, face)
NumElements(s, face) == LET F == SpaceOn(s, face) IN Box(F.dim)!FlatSize(Extents(F))
ElementAt(s, face, flat) == LET F == SpaceOn(s, face) IN Box(F.dim)!FlatToTensor(flat, Extents(F))

\* fill_cache there.
FilledOn(s, tbl, face, f) ==
  IF face = Whole THEN Filled(s, f, tbl, Whole) ELSE FilledFaceSpace(s, FaceGridMap(s.space, face, f), face)

\* get_local_to_global
LocalToGlobal(s, face, f) == LET F == SpaceOn(s, face) IN [fn \in LocalIds(F) |-> LocalToPatch(F, f, fn)]

\* get_w_measures; of a face the square of the measure, as the field has no root.
WMeasures(s, face, f, a) ==
  LET w == IF face = Whole THEN s.weights ELSE OnFace(s.weights, face)
      F == SpaceOn(s, face)
      quad == IF face = Whole THEN s.points ELSE OnFace(s.points, face)
      scaled(pt) == ProductTo(F.dim, LAMBDA d : w[d][PointTensor(quad, pt)[d]] ** (F.knots[d][f[d] + 2] - F.knots[d][f[d] + 1]))
      measure(pt) == IF face = Whole THEN Det(a.map[pt][1]) ELSE DeterminantSquared(a.map[pt][1])
  IN  Tabulated([pt \in DOMAIN a.map |-> measure(pt) ** scaled(pt)])

-----------------------------------------------------------------------------
(* projection_l2 *)

LocalMatrix(a, w) ==
  LET n == DOMAIN a.phys
  IN  CopyUpperTriangle(Tabulated([ij \in n \X n |->
        IF ij[2] < ij[1] THEN 0
        ELSE SumOver(DOMAIN w, LAMBDA q : ScalarProduct(a.phys[ij[1]][q][1], a.phys[ij[2]][q][1]) ** w[q])]))

LocalRhs(s, a, w) ==
  [i \in DOMAIN a.phys |->
     SumOver(DOMAIN w, LAMBDA q : ScalarProduct(FunctionAt(s, a.map[q][0]), a.phys[i][q][1]) ** w[q])]

\* A variant that puts the block at the local numbers of the element instead of its ids.
AddBlockLocal(A, rows, cols, block) ==
  Tabulated([rc \in DOMAIN A |-> A[rc] ++ IF rc \in DOMAIN block THEN block[rc] ELSE 0])

\* Matrix::add_block, and Vector::add_block, at the ids of an element.
AddBlock(A, rows, cols, block) ==
  LET at == [rc \in {<<rows[i], cols[j]>> : i \in DOMAIN rows, j \in DOMAIN cols} |->
               SumOver({ij \in DOMAIN block : <<rows[ij[1]], cols[ij[2]]>> = rc}, LAMBDA ij : block[ij])]
  IN  Tabulated([rc \in DOMAIN A |-> A[rc] ++ IF rc \in DOMAIN at THEN at[rc] ELSE 0])

AddVector(b, rows, local) ==
  Tabulated([r \in DOMAIN b |-> b[r] ++ SumOver({i \in DOMAIN rows : rows[i] = r}, LAMBDA i : local[i])])

EmptySystem(s, face) ==
  LET dofs == 0 .. NumDofs(SpaceOn(s, face)) - 1
  IN  [kind |-> "projection", face |-> face, next |-> 0, values |-> <<>>,
       matrix |-> [rc \in dofs \X dofs |-> 0], rhs |-> [r \in dofs |-> 0]]

WithBlocks(s, sys, a, w, ids) ==
  [sys EXCEPT !.next = @ + 1,
              !.matrix = AddBlock(@, ids, ids, LocalMatrix(a, w)),
              !.rhs = AddVector(@, ids, LocalRhs(s, a, w))]
WithCache(s, sys, f, a) == WithBlocks(s, sys, a, WMeasures(s, sys.face, f, a), LocalToGlobal(s, sys.face, f))

\* One round of the loop over the elements.
WithElement(s, tbl, sys) ==
  LET f == ElementAt(s, sys.face, sys.next) IN WithCache(s, sys, f, FilledOn(s, tbl, sys.face, f))

Projection(s, tbl, face) ==
  FoldSet(LAMBDA flat, sys : WithElement(s, tbl, sys), EmptySystem(s, face), 0 .. NumElements(s, face) - 1)

\* LinearSolver::solve, by the elimination of Gauss and Jordan.
Solve(A, b) ==
  LET n == Cardinality(DOMAIN b)
      start == [rc \in (0 .. n - 1) \X (0 .. n) |-> IF rc[2] = n THEN b[rc[1]] ELSE A[rc]]
      reduce(M, k) ==
        LET pivot == Reciprocal(M[<<k, k>>])
        IN  Tabulated([rc \in DOMAIN M |->
              IF rc[1] = k THEN pivot ** M[rc]
              ELSE M[rc] -- (M[<<rc[1], k>>] ** (pivot ** M[<<k, rc[2]>>]))])
      M[k \in 0 .. n] == IF k = 0 THEN start ELSE reduce(M[k - 1], k - 1)
  IN  Tabulated([r \in DOMAIN b |-> M[n][<<r, n>>]])

\* The values found on a face by the dofs of the volume.
OnVolume(dof_map, proj) ==
  [dof \in {dof_map[i] : i \in DOMAIN dof_map} |-> proj[CHOOSE i \in DOMAIN dof_map : dof_map[i] = dof]]
SolutionOf(sys) == Solve(sys.matrix, sys.rhs)

\* project_boundary_values: face after face, the later ones prevail.
BoundaryValues(s, tbl, faces) ==
  FoldLeft(LAMBDA values, face :
             OnVolume(FaceToElementDofs(s.space, face), SolutionOf(Projection(s, tbl, face))) @@ values,
           <<>>, SetToSortSeq(faces, <))

\* A variant that keeps the old right-hand side of a fixed row.
ApplyBoundaryValuesMatrixOnly(sys, values) ==
  [sys EXCEPT !.values = values,
              !.matrix = [rc \in DOMAIN sys.matrix |-> IF rc[1] \in DOMAIN values /\ rc[1] # rc[2] THEN 0 ELSE sys.matrix[rc]]]

\* apply_boundary_values: a fixed row keeps its diagonal only.
ApplyBoundaryValues(sys, values) ==
  [sys EXCEPT !.values = values,
              !.matrix = [rc \in DOMAIN sys.matrix |-> IF rc[1] \in DOMAIN values /\ rc[1] # rc[2] THEN 0 ELSE sys.matrix[rc]],
              !.rhs = [r \in DOMAIN sys.rhs |-> IF r \in DOMAIN values THEN values[r] ** sys.matrix[<<r, r>>] ELSE sys.rhs[r]]]

-----------------------------------------------------------------------------
(* integrate_difference: the squares of the errors, which the code takes the
   root of and squares again. *)

\* evaluate_field and evaluate_field_gradients, [o][pt], from the functions filled.
FieldOf(a, coefs, o) ==
  [pt \in DOMAIN a.map |->
     Tabulated([id \in DOMAIN a.phys[0][pt][o + 1] |-> SumOver(DOMAIN a.phys, LAMBDA fn : coefs[fn] ** a.phys[fn][pt][o + 1][id])])]

Norms(orders, w, square(_, _)) == SumOver(orders \X DOMAIN w, LAMBDA oq : square(oq[1], oq[2]) ** w[oq[2]])

SquaredNorm(d) == ScalarProduct(d, d)

ErrorOn(s, coefs, norms, a, w) ==
  Norms(norms, w, LAMBDA o, q :
    SquaredNorm(Minus(FieldOf(a, coefs, o)[q], IF o = 0 THEN FunctionAt(s, a.map[q][0]) ELSE FunctionGradientAt(s))))

ErrorWith(s, coefs, norms, f, ids, a) ==
  ErrorOn(s, [fn \in DOMAIN ids |-> coefs[ids[fn]]], norms, a, WMeasures(s, Whole, f, a))

ErrorSquared(s, tbl, coefs, norms) ==
  SumTo(NumElements(s, Whole), LAMBDA flat :
    LET f == ElementAt(s, Whole, flat)
    IN  ErrorWith(s, coefs, norms, f, LocalToGlobal(s, Whole, f), FilledOn(s, tbl, Whole, f)))

-----------------------------------------------------------------------------
(* A client projects before it evaluates anything else: a projection has   *)
(* iterators of its own and depends on the setup only.                     *)

StartProjection(face) ==
  /\ setup \in ToolSetups
  /\ answer = Nothing /\ element = FirstElement(setup.space)
  /\ system = NoSystem
  /\ IsTopologyOf(setup.space, face)
  /\ face # Whole => setup.space.dim > 1
  /\ system' = EmptySystem(setup, face)
  /\ UNCHANGED vars

Assembled == system # NoSystem /\ system.next = NumElements(setup, system.face)

ProjectElement ==
  /\ system # NoSystem
  /\ ~Assembled
  /\ system' = WithElement(setup, tables, system)
  /\ UNCHANGED vars

ProjectBoundaryValues(faces) ==
  /\ Assembled /\ system.face = Whole /\ system.values = <<>>
  /\ faces # {} /\ \A face \in faces : IsTopologyOf(setup.space, face)
  /\ system' = ApplyBoundaryValues(system, BoundaryValues(setup, tables, faces))
  /\ UNCHANGED vars

ToolInit == Init /\ system = NoSystem

ToolNext ==
  \/ system = NoSystem /\ Next /\ UNCHANGED system
  \/ \E face \in Topologies : StartProjection(face)
  \/ ProjectElement
  \/ \E faces \in SUBSET (0 .. MaxFaces - 1) : ProjectBoundaryValues(faces)

ToolSpec == ToolInit /\ [][ToolNext]_toolVars

-----------------------------------------------------------------------------
\* A function of the space is found again: by the projection on the space, by
\* the one on a face with the dofs of the volume it stands for, and when its
\* values on some faces, corners of several of them included, are fixed in the
\* system of the volume.
FunctionsFoundAgain ==
  Assembled =>
    LET found == Solve(system.matrix, system.rhs)
        exact == Exact(setup)
        dof == IF system.face = Whole THEN [i \in DOMAIN found |-> i] ELSE FaceToElementDofs(setup.space, system.face)
    IN  /\ \A i \in DOMAIN found : found[i] = exact[dof[i]]
        /\ \A i \in DOMAIN system.values : system.values[i] = exact[i]

\* The error of the coefficients of the function is zero in every norm, and that
\* of others is the quadratic form of the mass matrix in what they differ by.
ErrorsMeasured ==
  Assembled /\ system.face = Whole /\ system.values = <<>> =>
    LET exact == Exact(setup)
        other == [dof \in DOMAIN exact |-> exact[dof] ++ (dof + 1)]
        form == SumOver(DOMAIN system.matrix, LAMBDA rc : ((rc[1] + 1) ** (rc[2] + 1)) ** system.matrix[rc])
    IN  \A case \in {<<exact, {0, 1}, 0>>, <<other, {0}, form>>} :
          ErrorSquared(setup, tables, case[1], case[2]) = case[3]

\* The tools of a space give its functions back and measure the others
\* (projection_l2, project_boundary_values, integrate_difference).
ProjectionsReproduce == FunctionsFoundAgain /\ ErrorsMeasured
=============================================================================
