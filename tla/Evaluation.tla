------------------------------- MODULE Evaluation -------------------------------
(***************************************************************************)
(* One element of a physical space and what it evaluates, as it moves over *)
(* the grid: PhysicalSpaceElementAccessor over the accessor of a BSpline-  *)
(* or NURBSSpace and a PushForwardElementAccessor over a Mapping.  Tables  *)
(* of one direction are computed by init_cache, once; fill_cache takes     *)
(* those of the element or of one of its faces through the chain basis,    *)
(* mapping, push-forward; the *_at_points functions start from nothing.    *)
(***************************************************************************)
EXTENDS MappingLibrary, PhysicalElement, EllipticOperators

CONSTANTS
  Setups,         \* what is evaluated: [space, map, points, weights]
  Coefficient(_, _, _),  \* the coefficient of the bilinear forms, by point and entry
  MaxFaces        \* of the elements: 2 dim

ASSUME EvaluationAssumption ==
  \A s \in Setups : /\ s.space.dim = s.map.dim
                    /\ s.map.codim \in Nat
                    /\ 2 * s.space.dim <= MaxFaces

VARIABLES
  setup,
  element,        \* its tensor index
  tables,         \* splines1d_cache of the element and of its faces: tables[face]
  answer          \* what was evaluated since the last move, or Nothing

vars == <<setup, element, tables, answer>>

Whole == -1       \* the topology ElemTopology; a face is FaceTopology
Topologies == {Whole} \cup 0 .. MaxFaces - 1
Nothing == [kind |-> "nothing"]

Intervals1(S, d) == Len(S.knots[d]) - 1
Extents(S) == [d \in Directions(S) |-> Intervals1(S, d)]
FirstElement(S) == [d \in Directions(S) |-> 0]
IsTopologyOf(S, face) == face < 2 * S.dim

\* get_values_cache has one for the element, and for a face that is on the boundary.
HasCache(S, e, face) ==
  face # Whole => e[face \div 2] = IF face % 2 = 0 THEN 0 ELSE Intervals1(S, face \div 2) - 1

\* transform_points_unit_to_reference
ReferencePoint(S, e, unit) ==
  [d \in Directions(S) |-> S.knots[d][e[d] + 1] ++ (unit[d] ** (S.knots[d][e[d] + 2] - S.knots[d][e[d] + 1]))]

\* get_points of the element or of a face: the quadrature there.
QuadraturePoints(s, face) == IF face = Whole THEN s.points ELSE CollapseToFace(s.points, face)

UnitPoints(s, face) ==
  LET points == QuadraturePoints(s, face)
  IN  [pt \in PointIds(points) |-> [d \in Directions(s.space) |-> points[d][PointTensor(points, pt)[d]]]]

-----------------------------------------------------------------------------
(* The mapping *)

\* set_element and evaluate*, with F's own cache when it is an IgMapping.
CacheOf(S, points, face) ==
  IF face = Whole THEN GlobalElemCache(S, points, 0 .. 2) ELSE GlobalFaceCache(S, points, 0 .. 2, face)

MapFromBasis(F, e, D) == Tabulated([pt \in DOMAIN D[0][0] |-> Tabulated(IgAt(F, D, e, pt))])
MapFromFormulas(F, x) == Tabulated([pt \in DOMAIN x |-> AnalyticalAt(F, x[pt])])

ReferencePoints(S, e, units) == [pt \in DOMAIN units |-> ReferencePoint(S, e, units[pt])]

MapOnElement(s, e, face) ==
  IF s.map.kind = "ig"
  THEN MapFromBasis(s.map, e, FilledBasis(s.map.space, e, CacheOf(s.map.space, s.points, face), QuadraturePoints(s, face), face))
  ELSE MapFromFormulas(s.map, ReferencePoints(s.space, e, UnitPoints(s, face)))

\* find_elements_of_points: by lower_bound, a point on a knot is in the element before it.
FoundElement(S, e, unit) == [d \in Directions(S) |-> IF unit[d] = 0 /\ e[d] > 0 THEN e[d] - 1 ELSE e[d]]
FoundUnit(S, e, unit) == [d \in Directions(S) |-> IF unit[d] = 0 /\ e[d] > 0 THEN 1 ELSE unit[d]]

\* evaluate_values_, _gradients_, _hessians_at_points, those F has.
IgAtPoint(F, found, unit) == IgAt(F, BasisAtPoints(F.space, found, [p \in {0} |-> unit]), found, 0)

Restricted(orders, D) == Tabulated([o \in orders |-> D[o]])

MapAtPoints(s, e, units) ==
  Tabulated([pt \in DOMAIN units |-> Restricted(PointOrders(s.map),
     IF s.map.kind = "ig"
     THEN IgAtPoint(s.map, FoundElement(s.space, e, units[pt]), FoundUnit(s.space, e, units[pt]))
     ELSE AnalyticalAt(s.map, ReferencePoint(s.space, e, units[pt])))])

-----------------------------------------------------------------------------
(* Answers *)

\* The basis functions of the physical space, from those of the reference space.
Transformed(N, map) ==
  [fn \in DOMAIN N[0] |-> [pt \in DOMAIN map |->
     <<TransformValues(N[0][fn][pt]), TransformGradients(N[1][fn][pt], map[pt][1]),
       TransformHessians(N[1][fn][pt], N[2][fn][pt], map[pt][1], map[pt][2])>>]]

TransformedAtPoints(N, map) ==
  [fn \in DOMAIN N[0] |-> [pt \in DOMAIN map |->
     <<TransformValues(N[0][fn][pt]), TransformGradients(N[1][fn][pt], map[pt][1]),
       TransformHessiansAtPoints(N[1][fn][pt], N[2][fn][pt], map[pt][1], map[pt][2])>>]]

\* A variant that sums a row of the gradient instead of its diagonal.
DivergencesOfRow(s, phys) ==
  IF Comps(s.space) = 0 .. SpaceDim(s.map) - 1
  THEN [fn \in DOMAIN phys |-> [pt \in DOMAIN phys[fn] |-> SumOver(Comps(s.space), LAMBDA c : phys[fn][pt][2][<<0, c>>])]]
  ELSE <<>>

\* The divergences, of functions with as many components as the space has directions.
Divergences(s, phys) ==
  IF Comps(s.space) = 0 .. SpaceDim(s.map) - 1
  THEN [fn \in DOMAIN phys |-> [pt \in DOMAIN phys[fn] |-> Trace(phys[fn][pt][2])]] ELSE <<>>

CacheWith(s, face, N, map, phys) ==
  [kind |-> "filled", face |-> face, N |-> N, map |-> map, phys |-> phys, div |-> Divergences(s, phys)]
CacheFrom(s, face, N, map) == CacheWith(s, face, N, map, Transformed(N, map))

\* PhysicalSpaceElementAccessor::fill_cache
Filled(s, e, tbl, face) ==
  CacheFrom(s, face, FilledBasis(s.space, e, tbl[face], QuadraturePoints(s, face), face), MapOnElement(s, e, face))

\* evaluate_basis_derivatives_at_points, at the quadrature points of a topology:
\* of the reference space, and of the physical one when its mapping can.
AnswerAtPoints(s, face, N, map) ==
  [kind |-> "at points", face |-> face, N |-> N, map |-> map,
   phys |-> IF {1, 2} \subseteq PointOrders(s.map) THEN TransformedAtPoints(N, map) ELSE <<>>]
AtPoints(s, e, face) ==
  LET units == UnitPoints(s, face)
  IN  AnswerAtPoints(s, face, BasisAtPoints(s.space, e, units), MapAtPoints(s, e, units))

\* fill_cache of the space get_face_space returns, whose mapping is a
\* MappingSlice, at the element behind which e is.
FaceCacheFrom(face, N, map) ==
  [kind |-> "face space", face |-> face, map |-> map,
   phys |-> [fn \in DOMAIN N[0] |-> [pt \in DOMAIN map |->
               <<TransformValues(N[0][fn][pt]), TransformGradients(N[1][fn][pt], map[pt][1])>>]]]
Sliced(sup, face) == [pt \in DOMAIN sup |-> SliceAt(sup[pt], face)]
FaceBasis(F, e, quad) == FilledBasis(F, e, GlobalElemCache(F, quad, 0 .. 2), quad, Whole)

FilledFaceSpace(s, e, face) ==
  LET quad == OnFace(s.points, face)
  IN  FaceCacheFrom(face, FaceBasis(RefFaceSpace(s.space, face), OnFace(e, face), quad),
        Sliced(MapOnElement([s EXCEPT !.points = ExtendedPoints(quad, face)],
                            FaceGridMap(s.space, face, OnFace(e, face)), Whole), face))

\* CartesianGridElementAccessor::get_w_measures: weights times lengths.
GridWMeasures(s, e) ==
  [pt \in PointIds(s.points) |-> ProductTo(s.space.dim, LAMBDA d :
     s.weights[d][PointTensor(s.points, pt)[d]] ** (s.space.knots[d][e[d] + 2] - s.space.knots[d][e[d] + 1]))]

\* The scalar spaces without weights whose mapping has codimension 0.
HasOperators(s) == Comps(s.space) = {0} /\ ~IsNurbs(s.space) /\ s.map.codim = 0

\* evaluate_univariate_derivatives_at_points of component 0: [d][fn][pt].
Univariates(s, tbl, e, order) ==
  [d \in Directions(s.space) |-> [fn \in 0 .. s.space.degree[0][d] |->
     [pt \in DOMAIN s.points[d] |-> tbl[Whole][0][d][e[d]][pt][order][fn]]]]

\* The local matrices of both implementations, from the element as it is filled.
Operators(s, e, tbl, a) ==
  LET pts == PointIds(s.points)
      phi == [fn \in DOMAIN a.phys |-> [pt \in pts |-> a.phys[fn][pt][1][<<0>>]]]
      grad == [fn \in DOMAIN a.phys |-> [pt \in pts |-> a.phys[fn][pt][2]]]
      det == [pt \in pts |-> Det(a.map[pt][1])]
      invDF == [pt \in pts |-> InverseOf(a.map[pt][1])]
      w_meas == [pt \in pts |-> det[pt] ** GridWMeasures(s, e)[pt]]
      c == [pt \in pts |-> Coefficient(pt, 0, 0)]
      C == [pt \in pts |-> [kl \in DOMAIN a.map[pt][1] |-> Coefficient(pt, kl[1], kl[2])]]
      phi1D == Univariates(s, tbl, e, 0)
      grad1D == Univariates(s, tbl, e, 1)
      length == [d \in Directions(s.space) |-> s.space.knots[d][e[d] + 2] - s.space.knots[d][e[d] + 1]]
  IN  [std_u_v |-> StdMass(phi, c, w_meas, TRUE),
       sf_u_v |-> SFMass(phi1D, c, det, s.weights, length, TRUE),
       std_gradu_gradv |-> StdStiffness(grad, C, w_meas),
       sf_gradu_gradv |-> SFStiffness(phi1D, grad1D, C, invDF, det, s.weights, length),
       gen_u_v |-> GenericMass(phi1D, c, det, s.weights, length, TRUE),
       gen_rows |-> GenericMass(phi1D, c, det, s.weights, length, FALSE),
       rhs |-> RightHandSide(phi, c, w_meas),
       sf_rhs |-> SFRightHandSide(phi, c, w_meas)]

-----------------------------------------------------------------------------
(* An answer depends on the element and the tables only, so one of them is *)
(* asked for between two moves; Assemble follows the filling it uses.      *)

\* init_cache: the tables of all intervals, for the element and for every face.
InitCache(s) ==
  [face \in {f \in Topologies : IsTopologyOf(s.space, f)} |->
     CacheOf(s.space, s.points, face)]

Init ==
  /\ setup \in Setups
  /\ element = FirstElement(setup.space)
  /\ tables = InitCache(setup)
  /\ answer = Nothing

\* operator++, to the next flat index.
Advance ==
  LET S == setup.space flat == Box(S.dim)!TensorToFlat(element, Extents(S))
  IN  /\ flat + 1 < Box(S.dim)!FlatSize(Extents(S))
      /\ element' = Box(S.dim)!FlatToTensor(flat + 1, Extents(S))
      /\ answer' = Nothing
      /\ UNCHANGED <<setup, tables>>

Fill(face) ==
  /\ answer = Nothing
  /\ IsTopologyOf(setup.space, face)
  /\ HasCache(setup.space, element, face)
  /\ answer' = Filled(setup, element, tables, face)
  /\ UNCHANGED <<setup, element, tables>>

FillFaceSpace(face) ==
  /\ answer = Nothing
  /\ face # Whole /\ setup.space.dim > 1
  /\ IsTopologyOf(setup.space, face)
  /\ HasCache(setup.space, element, face)
  /\ answer' = FilledFaceSpace(setup, element, face)
  /\ UNCHANGED <<setup, element, tables>>

EvaluateAtPoints(face) ==
  /\ answer = Nothing
  /\ IsTopologyOf(setup.space, face)
  /\ answer' = AtPoints(setup, element, face)
  /\ UNCHANGED <<setup, element, tables>>

Assemble ==
  /\ HasOperators(setup)
  /\ answer.kind = "filled" /\ answer.face = Whole
  /\ answer' = [kind |-> "operators", matrix |-> Operators(setup, element, tables, answer)]
  /\ UNCHANGED <<setup, element, tables>>

Next ==
  \/ Advance
  \/ \E face \in Topologies : Fill(face)
  \/ \E face \in Topologies : FillFaceSpace(face)
  \/ \E face \in Topologies : EvaluateAtPoints(face)
  \/ Assemble

Spec == Init /\ [][Next]_vars

-----------------------------------------------------------------------------
(* The reference *)

HasBasis == answer.kind \in {"filled", "at points"}
HasPhysicalBasis == HasBasis /\ answer.phys # <<>>
Points == DOMAIN answer.map
Unit(pt) == UnitPoints(setup, answer.face)[pt]

\* Derivatives.  A jet is a function with its first and second derivatives at a
\* point: f[<<>>], f[<<k>>] and f[<<k, l>>].  The rules of calculus are those of sums
\* and products of jets and of the composition with a map whose components are given
\* by their jets.
JetIndices(n) == {<<>>} \cup {<<k>> : k \in 0 .. n - 1} \cup {<<k, l>> : k, l \in 0 .. n - 1}

Constant(n, c) == [i \in JetIndices(n) |-> IF i = <<>> THEN c ELSE 0]

\* The coordinate k, at a point where it is c.
Coordinate(n, k, c) == [Constant(n, c) EXCEPT ![<<k>>] = 1]

Times(f, g) ==
  Tabulated([i \in DOMAIN f |->
     CASE Len(i) = 0 -> f[i] ** g[i]
       [] Len(i) = 1 -> (f[i] ** g[<<>>]) ++ (f[<<>>] ** g[i])
       [] Len(i) = 2 -> ((f[i] ** g[<<>>]) ++ (f[<<>>] ** g[i]))
                          ++ ((f[<<i[1]>>] ** g[<<i[2]>>]) ++ (f[<<i[2]>>] ** g[<<i[1]>>]))])

\* A function of one variable u, by its jet <<u, u', u''>> there, at the coordinate k.
Along(n, k, u) ==
  [i \in JetIndices(n) |->
     IF i = <<>> THEN u[1] ELSE IF i = <<k>> THEN u[2] ELSE IF i = <<k, k>> THEN u[3] ELSE 0]

\* phi o F, for the jet of phi in m coordinates and the jets F[0 .. m - 1] in n.
Pullback(n, m, phi, F) ==
  LET first(k) == SumTo(m, LAMBDA a : phi[<<a>>] ** F[a][<<k>>])
      second(k, l) ==
        SumTo(m, LAMBDA a : (phi[<<a>>] ** F[a][<<k, l>>])
                              ++ SumTo(m, LAMBDA b : phi[<<a, b>>] ** (F[a][<<k>>] ** F[b][<<l>>])))
  IN  [i \in JetIndices(n) |->
         CASE Len(i) = 0 -> phi[<<>>] [] Len(i) = 1 -> first(i[1]) [] Len(i) = 2 -> second(i[1], i[2])]

\* The B-spline <<c, i>> of the element as a product of splines of one variable.
SplineJet(S, e, f, unit) ==
  LET t == Box(S.dim)!FlatToTensor(f[2], BasisSize(S, f[1]))
      x == ReferencePoint(S, e, unit)
      along(d) ==
        LET p == S.degree[f[1]][d]
            U == KnotsWithRepetition(p, S.knots[d], S.mult[f[1]][d])
            first == AccumulatedMultiplicities(S.mult[f[1]][d])[e[d]]
            u(o) == CoxDeBoorDerivative(o, p, U, first + p, first + t[d], x[d])
        IN  Along(S.dim, d, <<u(0), u(1), u(2)>>)
      product[d \in 0 .. S.dim] == IF d = 0 THEN Constant(S.dim, 1) ELSE Times(product[d - 1], along(d - 1))
  IN  product[S.dim]

\* Component c of a function of the answer, with its derivatives.
AnswerJet(fn, pt, c) == [i \in JetIndices(setup.space.dim) |-> answer.N[Len(i)][fn][pt][i \o <<c>>]]

\* Components of the map, and the function of the physical space in its coordinates.
MapJets(pt) ==
  [a \in 0 .. SpaceDim(setup.map) - 1 |->
     [i \in {j \in JetIndices(setup.map.dim) : Len(j) \in DOMAIN answer.map[pt]} |->
        answer.map[pt][Len(i)][i \o <<a>>]]]
PhysicalJet(fn, pt, c) ==
  [i \in JetIndices(SpaceDim(setup.map)) |-> answer.phys[fn][pt][Len(i) + 1][i \o <<c>>]]

\* The map as a product of functions of one coordinate.
SineJet(n, k, x) == Along(n, k, <<Sine(x), Cosine(x), Negative(Sine(x))>>)
CosineJet(n, k, x) == Along(n, k, <<Cosine(x), Negative(Sine(x)), Negative(Cosine(x))>>)

FormulaJet(F, x, i) ==
  LET n == F.dim
      last == SpaceDim(F) - 1
      before == IF F.kind = "sphere" THEN 1 ELSE 0
      sines[l \in 0 .. last] ==
        IF l = 0 THEN IF F.kind = "sphere" THEN Constant(n, 1) ELSE Coordinate(n, 0, x[0])
        ELSE LET k == l - before IN Times(sines[l - 1], SineJet(n, k, x[k]))
      ball == LET k == i + 1 - before IN IF i = last THEN sines[i] ELSE Times(sines[i], CosineJet(n, k, x[k]))
      turn(jet(_, _, _)) ==
        LET j == jet(n, 0, Turned(F, x)) IN [id \in DOMAIN j |-> Power(F.theta1, Len(id)) ** j[id]]
      radius == Plus(Scale(F.r1 -- F.r0, Coordinate(n, 1, x[1])), Constant(n, F.r0))
      cylinder == CASE i = 0 -> Times(radius, turn(CosineJet))
                    [] i = 1 -> Times(radius, turn(SineJet))
                    [] i = 2 -> Plus(Constant(n, F.h0), Scale(F.h1 -- F.h0, Coordinate(n, 2, x[2])))
      identity == IF i < n THEN Coordinate(n, i, x[i]) ELSE Constant(n, 0)
  IN  CASE F.kind = "identity" -> identity [] F.kind = "cylinder" -> cylinder [] F.kind \in {"ball", "sphere"} -> ball

-----------------------------------------------------------------------------
(* Properties *)

\* Every function of an element and all its derivatives up to the second are
\* those of a product of B-splines, whatever tables they come from: those of
\* init_cache, of a face with its single interval, or of the points; of NURBS,
\* the function R of R Q = w N.  Only its own component is not zero.
BasisExact ==
  HasBasis =>
    \A f \in LocalFunctions(setup.space), pt \in Points :
      LET S == setup.space fn == LocalId(S, f)
          N(g) == SplineJet(S, element, g, Unit(pt))
          w == LocalWeights(S, element)
          wN(i) == Scale(w[LocalId(S, <<f[1], i>>)], N(<<f[1], i>>))
          Q[i \in 0 .. NumBasisComp(S, f[1]) - 1] == IF i = 0 THEN wN(0) ELSE Plus(Q[i - 1], wN(i))
      IN  /\ IF IsNurbs(S) THEN Times(AnswerJet(fn, pt, f[1]), Q[NumBasisComp(S, f[1]) - 1]) = wN(f[2])
             ELSE AnswerJet(fn, pt, f[1]) = N(f)
          /\ \A c \in Comps(S) \ {f[1]} : AnswerJet(fn, pt, c) = Constant(S.dim, 0)

\* The gradients and hessians of the analytical mappings are the derivatives
\* of their values: the products of sines and cosines kept by mapping_lib.
FormulasDifferentiate ==
  HasBasis /\ setup.map.kind \in {"identity", "ball", "sphere", "cylinder"} =>
    \A pt \in Points, i \in 0 .. SpaceDim(setup.map) - 1 :
      LET computed == MapJets(pt)[i]
          formula == FormulaJet(setup.map, ReferencePoint(setup.space, element, Unit(pt)), i)
      IN  \A id \in DOMAIN computed : computed[id] = formula[id]

\* What the physical space reports are the derivatives of its functions in
\* the coordinates of the physical space: composed with the map they give the
\* derivatives on the reference domain, by the chain rule.  For a manifold of
\* lower dimension this is so for the gradients.
DerivativesPullBack ==
  HasPhysicalBasis =>
    \A fn \in LocalIds(setup.space), pt \in Points, c \in Comps(setup.space) :
      LET n == setup.space.dim
          composed == Pullback(n, SpaceDim(setup.map), PhysicalJet(fn, pt, c), MapJets(pt))
      IN  \A i \in JetIndices(n) :
            (Len(i) < 2 \/ setup.map.codim = 0) => composed[i] = AnswerJet(fn, pt, c)[i]

\* Whether a point lies on a knot between two elements, where at points an
\* IgMapping differentiates on the lower side of the knot.
OnInnerKnot(pt) == \E d \in Directions(setup.space) : Unit(pt)[d] = 0 /\ element[d] > 0

SameAnswer(filled) ==
  /\ answer.N = filled.N
  /\ \A pt \in Points : \A o \in PointOrders(setup.map) : answer.map[pt][o] = filled.map[pt][o]
  /\ HasPhysicalBasis /\ setup.map.codim = 0 => answer.phys = filled.phys

\* The cached values and those evaluated at the same points are the same.
PathsAgree ==
  answer.kind = "at points" /\ HasCache(setup.space, element, answer.face)
    /\ ~(setup.map.kind = "ig" /\ \E pt \in Points : OnInnerKnot(pt)) =>
    SameAnswer(Filled(setup, element, tables, answer.face))

\* Derivatives in the physical space obey the chain rule, from the caches and at
\* points alike (PushForwardElementAccessor).
ChainRule == DerivativesPullBack /\ PathsAgree

\* The second derivatives of the inverse map are those of the reference
\* coordinates: composed with the map they are constant.
InverseHessiansConsistent ==
  HasPhysicalBasis /\ setup.map.codim = 0 =>
    \A pt \in Points, k \in Directions(setup.space) :
      LET n == setup.space.dim DF == answer.map[pt][1] D2F == answer.map[pt][2]
          xi == [i \in JetIndices(n) |-> CASE Len(i) = 0 -> 0
                                            [] Len(i) = 1 -> InverseOf(DF)[i \o <<k>>]
                                            [] Len(i) = 2 -> InverseHessian(DF, D2F)[i \o <<k>>]]
      IN  Pullback(n, n, xi, MapJets(pt)) = Coordinate(n, k, 0)

\* The derivatives of the mappings, and of their inverses, are those of their
\* values (Mapping, MappingElementAccessor).
MappingsDifferentiate == FormulasDifferentiate /\ InverseHessiansConsistent

\* The normal of a face is orthogonal to the tangents of the face, points to
\* its side of the element, and its length is the ratio of the measures of
\* the face and the element.
FacesOriented ==
  answer.kind = "filled" /\ answer.face # Whole =>
    \A pt \in Points :
      LET DF == answer.map[pt][1] face == answer.face n == Normal(DF, face)
      IN  /\ \A k \in Slot(DF, 1) :
               ScalarProduct(Entry(DF, k), n) = UnitNormal(setup.space.dim, face)[<<k>>]
          /\ setup.space.dim > 1 =>
               FaceMeasureSquared(DF, face) = DeterminantSquared(DF) ** ScalarProduct(n, n)

\* The functions of F, the space on a face, against those of the volume.
TraceOf(S, F, face, volume, dofs) ==
  LET dof(fn) == dofs[LocalToPatch(F, OnFace(element, face), fn)]
      tangent(pt, k) == Entry(FaceGradient(volume.map[pt][1], face), k)
      sameOnFace(fn, phys, pt) ==
        /\ answer.phys[fn][pt][1] = phys[1]
        /\ \A k \in Directions(F) : Action(answer.phys[fn][pt][2], tangent(pt, k)) = Action(phys[2], tangent(pt, k))
  IN  /\ \A pt \in Points :
            /\ answer.map[pt] = SliceAt(volume.map[pt], face)
            /\ DeterminantSquared(answer.map[pt][1]) = FaceMeasureSquared(volume.map[pt][1], face)
      /\ \A fn \in LocalIds(F) : \E v \in LocalIds(S) : dof(fn) = LocalToPatch(S, element, v)
      /\ ~IsNurbs(S) => \A v \in LocalIds(S) :
            LET traced == {fn \in LocalIds(F) : dof(fn) = LocalToPatch(S, element, v)}
            IN  /\ \A fn \in traced, pt \in Points : sameOnFace(fn, volume.phys[v][pt], pt)
                /\ traced = {} => \A pt \in Points : \A c \in Comps(S) : volume.phys[v][pt][1][<<c>>] = 0

\* The functions of the space on a face, with the dofs it gives them, are the
\* traces of those of the volume: the same values, the same derivatives along
\* the face, at the same points, with the same measure; and the others vanish
\* on the face.  For NURBS whose weights are not all one on the face this is
\* true of the geometry only.
FaceSpacesTrace ==
  answer.kind = "face space" =>
    TraceOf(setup.space, RefFaceSpace(setup.space, answer.face), answer.face,
            Filled(setup, element, tables, answer.face), FaceToElementDofs(setup.space, answer.face))

\* Faces are the boundary of the element and carry the traces of its functions
\* (fill_face_cache, get_face_space).
FacesTraced == FacesOriented /\ FaceSpacesTrace

\* A field of an IgMapping with the control points as coefficients is the
\* geometry: its gradient in the physical space is the identity, its hessian 0
\* and its divergence the dimension.
Isoparametric ==
  HasPhysicalBasis /\ setup.map.kind = "ig" /\ setup.map.space = setup.space /\ setup.map.codim = 0 =>
    \A pt \in Points, c \in Comps(setup.space) :
      LET S == setup.space
          ids == LocalIds(S)
          coefs == ElementCoefficients(S, setup.map.points, element)
          field == [i \in JetIndices(S.dim) |-> SumOver(ids, LAMBDA fn : coefs[fn] ** PhysicalJet(fn, pt, c)[i])]
          divergence == SumOver(ids, LAMBDA fn : coefs[fn] ** answer.div[fn][pt])
      IN  /\ (answer.kind = "filled" \/ ~OnInnerKnot(pt)) =>
               field = Coordinate(S.dim, c, answer.map[pt][0][<<c>>])
          /\ answer.kind = "filled" => divergence = S.dim

\* Sum factorization integrates what the standard quadrature does, for every
\* pair of functions and a coefficient that is not symmetric.  As the functions
\* sum to one, the rows of the mass matrix sum to the right-hand side of the same
\* coefficient, and those of the stiffness matrix to zero.  The template for any
\* dimension gives the same mass matrix by its symmetric branch; its other branch
\* does so in one dimension only, which no dimension the library is built for uses
\* (SumFactorizationIntegrator).  The weights of both are those of rules that are
\* exact up to the degree their names promise (QGauss, QGaussLobatto, QTrapez).
OperatorsAgree ==
  /\ RulesExact(1 // 10)
  /\ answer.kind = "operators" =>
     LET m == answer.matrix ids == LocalIds(setup.space)
         row(A, i) == SumOver(ids, LAMBDA j : A[<<i, j>>])
     IN  /\ m.sf_u_v = m.std_u_v
         /\ m.sf_gradu_gradv = m.std_gradu_gradv
         /\ m.gen_u_v = m.std_u_v
         /\ setup.space.dim = 1 => m.gen_rows = m.std_u_v
         /\ \A i \in ids : row(m.sf_u_v, i) = m.sf_rhs[i] /\ row(m.std_u_v, i) = m.rhs[i] /\ row(m.std_gradu_gradv, i) = 0
=============================================================================
