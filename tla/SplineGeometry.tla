----------------------------- MODULE SplineGeometry -----------------------------
(***************************************************************************)
(* An IgMapping over a BSplineSpace or a NURBSSpace of dimension two: the  *)
(* knots and multiplicities of its space, the weights, the control mesh    *)
(* (projective for NURBS) and the control points, through refinements of   *)
(* the grid and changes of the control points.                             *)
(*                                                                         *)
(* A refinement is one step: CartesianGrid::refine_directions emits its    *)
(* signal to the spaces, then to the weights, then to the mapping          *)
(* (HRefinement has the order), and each refines what it holds.            *)
(***************************************************************************)
EXTENDS SplineBasis

CONSTANTS
  Components,     \* of the mapping: 0 .. space_dim - 1
  Degree,         \* Degree[c][d], at least 1
  Kinds,          \* "bspline", "nurbs"
  InitialGrids,   \* [knots |-> <<k1, k2>>, mult |-> [Components -> <<m1, m2>>]]
  Nets,           \* names of control nets
  NetPoint(_, _, _, _), \* NetPoint(net, c, i, j): a control point of a net
  NetWeight(_, _, _),   \* NetWeight(c, i, j): a weight of the first NURBSSpace
  Cuts,           \* the refinements: into how many intervals, in some directions
  MaxRefinements,
  UnitPoints      \* of the unit interval, where the geometry is evaluated

Directions == {1, 2}

ASSUME GeometryAssumption ==
  /\ Kinds \subseteq {"bspline", "nurbs"}
  /\ \A cuts \in Cuts : DOMAIN cuts \subseteq Directions /\ DOMAIN cuts # {}
  /\ \A cuts \in Cuts : \A d \in DOMAIN cuts : cuts[d] \in Nat \ {0, 1}
  /\ MaxRefinements \in Nat
  /\ \A c \in Components, d \in Directions : Degree[c][d] \in Nat \ {0}

VARIABLES
  kind,           \* of the reference space
  knots,          \* knots[d]: of the CartesianGrid
  mult,           \* mult[c][d]: of the interior knots, interior_mult_
  weights,        \* weights[c]: WeightsTable, ones for B-splines
  ctrl_mesh,      \* ctrl_mesh[c]: IgMappingData::ctrl_mesh_
  control_points, \* control_points[c]: IgMappingData::control_points_
  refinements,
  shape           \* history: the geometry as the user last gave it

vars == <<kind, knots, mult, weights, ctrl_mesh, control_points, refinements, shape>>

Box(c, mu) == (0 .. NumBasis(Degree[c][1], mu[c][1]) - 1) \X (0 .. NumBasis(Degree[c][2], mu[c][2]) - 1)

RepeatedKnots(c, d, kn, mu) == KnotsWithRepetition(Degree[c][d], kn[d], mu[c][d])

\* A variant that keeps what the user gives as the control mesh.
NotProjected(points, w) == points

\* Projective coordinates of control points: with has_weights every one times its weight.
Projective(points, w) == IF kind = "nurbs" THEN [i \in DOMAIN points |-> w[i] ** points[i]] ELSE points

Euclidean(mesh, w) == IF kind = "nurbs" THEN [i \in DOMAIN mesh |-> mesh[i] // w[i]] ELSE mesh

Net(net, c, mu) == [ij \in Box(c, mu) |-> NetPoint(net, c, ij[1], ij[2])]

Shape(kn, mu, w, points) == [knots |-> kn, mult |-> mu, weights |-> w, points |-> points]

Init ==
  /\ kind \in Kinds /\ refinements = 0
  /\ \E g \in InitialGrids, net \in Nets :
       /\ knots = g.knots /\ mult = g.mult
       /\ weights = [c \in Components |->
                       [ij \in Box(c, g.mult) |->
                          IF kind = "nurbs" THEN NetWeight(c, ij[1], ij[2]) ELSE 1]]
       /\ control_points = [c \in Components |-> Net(net, c, g.mult)]
       /\ ctrl_mesh = [c \in Components |-> Projective(control_points[c], weights[c])]
       /\ shape = Shape(knots, mult, weights, control_points)

-----------------------------------------------------------------------------
(* Refinement *)

\* The slice-wise insertion of the added knots in one direction of a mesh.
RefineAlong(mesh, c, d, old, new, muOld, muNew) ==
  LET U == RepeatedKnots(c, d, old, muOld)
      Ubar == RepeatedKnots(c, d, new, muNew)
      X == AddedKnots(new[d], old[d])
      on(e) == {ij[e] : ij \in DOMAIN mesh}
      at(along, across) == IF d = 1 THEN <<along, across>> ELSE <<across, along>>
      line == [v \in on(3 - d) |->
                 InsertKnots(Degree[c][d], U, Ubar, X, [u \in on(d) |-> mesh[at(u, v)]])]
      refined == 0 .. Max(on(d)) + Cardinality(DOMAIN X)
  IN  [ij \in {at(u, v) : u \in refined, v \in on(3 - d)} |-> line[ij[3 - d]][ij[d]]]

\* refine_h_weights and refine_h_control_mesh: one direction after the other.
RefineMesh(mesh, c, dirs, old, new, muOld, muNew) ==
  LET first == IF 1 \in dirs THEN RefineAlong(mesh, c, 1, old, new, muOld, muNew) ELSE mesh
  IN  IF 2 \in dirs THEN RefineAlong(first, c, 2, old, new, muOld, muNew) ELSE first

Refine(cuts) ==
  LET dirs == DOMAIN cuts
      newKnots == [d \in Directions |-> IF d \in dirs THEN RefineKnots(knots[d], cuts[d]) ELSE knots[d]]
      newMult == [c \in Components |-> [d \in Directions |->
                    IF d \in dirs THEN RefineMultiplicities(mult[c][d], cuts[d]) ELSE mult[c][d]]]
      refined(mesh, c) == RefineMesh(mesh, c, dirs, knots, newKnots, mult, newMult)
  IN  /\ refinements < MaxRefinements
      /\ \A d \in dirs : Divides(cuts[d], knots[d])
      /\ knots' = newKnots /\ mult' = newMult
      /\ weights' = [c \in Components |->
                       IF kind = "nurbs" THEN refined(weights[c], c) ELSE [ij \in Box(c, newMult) |-> 1]]
      /\ ctrl_mesh' = [c \in Components |-> refined(ctrl_mesh[c], c)]
      /\ control_points' = [c \in Components |-> Euclidean(ctrl_mesh'[c], weights'[c])]
      /\ refinements' = refinements + 1
      /\ UNCHANGED <<kind, shape>>

SetControlPoints(net) ==
  /\ control_points' = [c \in Components |-> Net(net, c, mult)]
  /\ ctrl_mesh' = [c \in Components |-> Projective(control_points'[c], weights[c])]
  /\ shape' = Shape(knots, mult, weights, control_points')
  /\ UNCHANGED <<kind, knots, mult, weights, refinements>>

Next ==
  \/ \E cuts \in Cuts : Refine(cuts)
  \/ \E net \in Nets : SetControlPoints(net)

Spec == Init /\ [][Next]_vars

-----------------------------------------------------------------------------
(* What the library evaluates on the elements *)

\* The table of the functions of interval e at x: GlobalElemCache.
Table(order, c, d, e, x) ==
  LET p == Degree[c][d]
      M == Extraction(p, knots[d], RepeatedKnots(c, d, knots, mult),
                      AccumulatedMultiplicities(mult[c][d]), e)
  IN  Univariate(order, p, M, knots[d][e + 2] - knots[d][e + 1], x)

\* The local functions of an interval, in the numbering of the direction.
ElementBasis(c, d, e, mu) ==
  LET first == AccumulatedMultiplicities(mu[c][d])[e] IN [k \in 0 .. Degree[c][d] |-> first + k]

\* sum_i coef_i R_i, with R_i = w_i N_i / sum_j w_j N_j on the element, as a
\* fraction: the quotients of the field would fail where a sum happens to be zero.
NurbsCombination(coef, w, N1, N2, id1, id2) ==
  LET sum(F(_, _)) ==
        SumTo(Cardinality(DOMAIN N1), LAMBDA i : SumTo(Cardinality(DOMAIN N2), LAMBDA j : F(i, j)))
      wN(i, j) == w[<<id1[i], id2[j]>>] ** (N1[i] ** N2[j])
  IN  [num |-> sum(LAMBDA i, j : coef[<<id1[i], id2[j]>>] ** wN(i, j)), den |-> sum(wN)]

MapValue(c, e, T1, T2) ==
  NurbsCombination(control_points[c], weights[c], T1, T2,
                   ElementBasis(c, 1, e[1], mult), ElementBasis(c, 2, e[2], mult))

-----------------------------------------------------------------------------
(* The reference for the geometry *)

\* The functions of interval e of direction d that do not vanish, at u.
ReferenceBasis(c, d, e, kn, mu, u) ==
  LET p == Degree[c][d]
      first == AccumulatedMultiplicities(mu[c][d])[e]
  IN  [k \in 0 .. p |->
         CoxDeBoor(p, RepeatedKnots(c, d, kn, mu), first + p, first + k, u)]

\* The interval of the knots old in which interval e of the knots new lies.
Coarse(e, new, old) == Max({f \in 0 .. Intervals(old) - 1 : old[f + 1] <= new[e + 1]})

\* The reference coordinate of x of the unit interval in interval e.
Coordinate(kn, e, x) == kn[e + 1] ++ (x ** (kn[e + 2] - kn[e + 1]))

\* The functions of the given geometry on the interval of its knots that holds e.
ShapeBasis(c, d, e, x) ==
  ReferenceBasis(c, d, Coarse(e, knots[d], shape.knots[d]), shape.knots, shape.mult,
                 Coordinate(knots[d], e, x))

ShapeValue(c, e, N1, N2) ==
  LET id(d) == ElementBasis(c, d, Coarse(e[d], knots[d], shape.knots[d]), shape.mult)
  IN  NurbsCombination(shape.points[c], shape.weights[c], N1, N2, id(1), id(2))

-----------------------------------------------------------------------------
(* Properties *)

Interval(d) == 0 .. Intervals(knots[d]) - 1

\* The values the elements evaluate are those of the geometry the user gave,
\* whatever refinements came after it: knot insertion in refine_h_weights and
\* refine_h_control_mesh, extraction and the division by the weights together.
GeometryKept ==
  \A c \in Components :
    LET overElements(F(_, _, _)) ==
          [d \in Directions |-> [ex \in Interval(d) \X UnitPoints |-> F(d, ex[1], ex[2])]]
        T == overElements(LAMBDA d, e, x : Table(0, c, d, e, x))
        N == overElements(LAMBDA d, e, x : ShapeBasis(c, d, e, x))
    IN  \A e \in Interval(1) \X Interval(2), x1, x2 \in UnitPoints :
          LET m == MapValue(c, e, T[1][e[1], x1], T[2][e[2], x2])
              g == ShapeValue(c, e, N[1][e[1], x1], N[2][e[2], x2])
          IN  m.num ** g.den = g.num ** m.den

\* The control mesh and the control points describe one geometry over the
\* functions of the space: the next refinement starts from the first, the
\* elements evaluate the second.
MeshesAgree ==
  \A c \in Components :
    /\ DOMAIN ctrl_mesh[c] = Box(c, mult) /\ DOMAIN weights[c] = Box(c, mult)
    /\ \A ij \in Box(c, mult) : ctrl_mesh[c][ij] = weights[c][ij] ** control_points[c][ij]
=============================================================================
