---------------------------- MODULE BasisEvaluation ----------------------------
(***************************************************************************)
(* The basis functions of an element of a BSplineSpace or a NURBSSpace and *)
(* their derivatives, from the tables of values in one direction.          *)
(*                                                                         *)
(* A space S is a record: dim; knots[d] of the grid; degree[c][d] and      *)
(* mult[c][d] of component c; active[c], the component whose tables c      *)
(* shares; weights[c], by the dofs of c, or <<>> for B-splines.  Functions *)
(* of an element and points are numbered from 0, a tensor product with the *)
(* first direction fastest.  D[o][fn][pt] is the derivative of order o, a  *)
(* tensor with the component as its last index.                            *)
(***************************************************************************)
EXTENDS SplineBasis, TensorAlgebra

Box(rank) == INSTANCE TensorIndexing WITH Rank <- rank

Comps(S) == DOMAIN S.active
ActiveComps(S) == {c \in Comps(S) : S.active[c] = c}
Directions(S) == 0 .. S.dim - 1

IsNurbs(S) == S.weights # <<>>

\* Functions of component c on an element, in one and in all directions.
BasisSize(S, c) == [d \in Directions(S) |-> S.degree[c][d] + 1]
NumBasisComp(S, c) == Box(S.dim)!FlatSize(BasisSize(S, c))

\* comp_offset_: the functions of component c are added to the offset before it,
\* which is right where the components have equally many on an element.
CompOffset(S, c) ==
  LET o[k \in 0 .. c] == IF k = 0 THEN 0 ELSE o[k - 1] + NumBasisComp(S, k)
  IN  o[c]

\* Local functions as pairs of a component and a number in it.
LocalFunctions(S) == UNION {{<<c, i>> : i \in 0 .. NumBasisComp(S, c) - 1} : c \in Comps(S)}
LocalId(S, f) == CompOffset(S, f[1]) + f[2]
FunctionOf(S, fn) == CHOOSE f \in LocalFunctions(S) : LocalId(S, f) = fn
LocalIds(S) == {LocalId(S, f) : f \in LocalFunctions(S)}

NumPoints(points) == [d \in DOMAIN points |-> Cardinality(DOMAIN points[d])]
PointIds(points) == 0 .. Box(Cardinality(DOMAIN points))!FlatSize(NumPoints(points)) - 1
PointTensor(points, pt) == Box(Cardinality(DOMAIN points))!FlatToTensor(pt, NumPoints(points))

-----------------------------------------------------------------------------
(* Tables in one direction *)

\* The functions of interval e of a direction at x, order by order.
UnivariateTable(S, c, d, e, orders, x) ==
  LET p == S.degree[c][d]
      y == KnotsWithRepetition(p, S.knots[d], S.mult[c][d])
      M == Extraction(p, S.knots[d], y, AccumulatedMultiplicities(S.mult[c][d]), e)
  IN  Tabulated([o \in orders |-> Tabulated(Univariate(o, p, M, S.knots[d][e + 2] - S.knots[d][e + 1], x))])

\* GlobalCache::reset: cache[c][d][j][pt] for the intervals ids[d][j].
GlobalCache(S, points, orders, ids) ==
  [c \in ActiveComps(S) |-> [d \in Directions(S) |-> [j \in DOMAIN ids[d] |->
     Tabulated([pt \in DOMAIN points[d] |-> UnivariateTable(S, c, d, ids[d][j], orders, points[d][pt])])]]]

AllIntervals(S, d) == [e \in 0 .. Len(S.knots[d]) - 2 |-> e]

GlobalElemCache(S, points, orders) == GlobalCache(S, points, orders, [d \in Directions(S) |-> AllIntervals(S, d)])

\* Quadrature::collapse_to_face
CollapseToFace(points, face) ==
  [d \in DOMAIN points |-> IF d = face \div 2 THEN [i \in {0} |-> face % 2] ELSE points[d]]

\* Across a face the table has the boundary interval only.
GlobalFaceCache(S, points, orders, face) ==
  LET interval(d) == [j \in {0} |-> IF face % 2 = 0 THEN 0 ELSE Len(S.knots[d]) - 2]
  IN  GlobalCache(S, CollapseToFace(points, face), orders,
                  [d \in Directions(S) |-> IF d = face \div 2 THEN interval(d) ELSE AllIntervals(S, d)])

\* fill_cache: the tables of element e; face is -1 for the element itself.
ElementTables(S, cache, e, face) ==
  [c \in Comps(S) |-> [d \in Directions(S) |->
     cache[S.active[c]][d][IF face # -1 /\ d = face \div 2 THEN 0 ELSE e[d]]]]

-----------------------------------------------------------------------------
(* Derivatives *)

\* BSplineElementScalarEvaluator: the product of one factor of each direction.
ScalarDerivative(S, tables, c, i, orders, pt) ==
  LET t == Box(S.dim)!FlatToTensor(i, BasisSize(S, c))
  IN  ProductTo(S.dim, LAMBDA d : tables[c][d][pt[d]][orders[d]][t[d]])

\* How often every direction occurs in the tensor id of an entry.
DerivativeOrders(dim, id) == [d \in 0 .. dim - 1 |-> Cardinality({k \in DOMAIN id : id[k] = d})]

\* DerivativeSymmetryManager: an entry whose tensor id, first index fastest,
\* does not ascend is evaluated, the others are copied from the sorted id.
CopyFrom(dim, order, flat) ==
  LET id == [k \in 0 .. order - 1 |-> (flat \div dim^k) % dim]
      sorted == SortSeq([k \in 1 .. order |-> id[k - 1]], LAMBDA a, b : a > b)
      weighted[k \in 0 .. order] == IF k = 0 THEN 0 ELSE weighted[k - 1] + sorted[k] * dim^(k - 1)
  IN  IF \A k \in 0 .. order - 2 : id[k + 1] <= id[k] THEN flat ELSE weighted[order]

\* Entries of a derivative of order o of a function with the components of S.
Entries(S, o) == {id \o <<c>> : id \in [1 .. o -> Directions(S)], c \in Comps(S)}

\* The tensor of f = <<c, i>> at pt, from the tables of the active component;
\* only its own component is filled.
EntryOrders(S, id) ==
  DerivativeOrders(S.dim, FlatToTensor(S.dim, Len(id), CopyFrom(S.dim, Len(id), TensorToFlat(S.dim, id))))

FunctionDerivative(S, o, f, tables, pt) ==
  Tabulated([id \in Entries(S, o) |->
     IF id[o + 1] = f[1]
     THEN ScalarDerivative(S, tables, S.active[f[1]], f[2], EntryOrders(S, SubSeq(id, 1, o)), pt) ELSE 0])

\* evaluate_bspline_derivatives: components that are not active are copied.
BSplineDerivatives(S, o, tables, points) ==
  Tabulated([fn \in LocalIds(S) |->
     Tabulated([pt \in PointIds(points) |->
        FunctionDerivative(S, o, FunctionOf(S, fn), tables, PointTensor(points, pt))])])

\* evaluate_basis_derivatives_at_points, for points of the unit element: a
\* component that is not active is copied from component 0 of the active one.
TablesAtPoint(S, a, o, e, x) ==
  a :> Tabulated([d \in Directions(S) |-> 0 :> UnivariateTable(S, a, d, e[d], 0 .. o, x[d])])

FunctionAtPoint(S, o, f, a, e, x) ==
  IF a \in {0, f[1]}
  THEN FunctionDerivative(S, o, f, TablesAtPoint(S, a, o, e, x), [d \in Directions(S) |-> 0])
  ELSE [id \in Entries(S, o) |-> 0]

BSplineAtPoints(S, o, e, unitPoints) ==
  Tabulated([fn \in LocalIds(S) |->
     LET f == FunctionOf(S, fn)
     IN  Tabulated([pt \in DOMAIN unitPoints |-> FunctionAtPoint(S, o, f, S.active[f[1]], e, unitPoints[pt])])])

-----------------------------------------------------------------------------
(* NURBS *)

\* Where the dof of a local function is numbered, and the functions before component c.
PatchSize(S, c) == [d \in Directions(S) |-> NumBasis(S.degree[c][d], S.mult[c][d])]
DofsOffset(S, c) ==
  LET o[k \in 0 .. c] == IF k = 0 THEN 0 ELSE o[k - 1] + Box(S.dim)!FlatSize(PatchSize(S, k - 1)) IN o[c]

\* create_element_loc_to_global_view: the box of the functions of element e.
InPatch(S, e, c, t) ==
  DofsOffset(S, c) + Box(S.dim)!TensorToFlat(
    [d \in Directions(S) |-> AccumulatedMultiplicities(S.mult[c][d])[e[d]] + t[d]], PatchSize(S, c))

LocalToPatch(S, e, fn) ==
  LET f == FunctionOf(S, fn) IN InPatch(S, e, f[1], Box(S.dim)!FlatToTensor(f[2], BasisSize(S, f[1])))

\* The component of a dof is the first that ends behind it.
CompOfDof(S, dof) == Min({c \in Comps(S) : dof < DofsOffset(S, c + 1)})

\* get_local_weights
WeightOf(S, c, dof) == S.weights[c][dof - DofsOffset(S, c)]
LocalWeights(S, e) ==
  [fn \in LocalIds(S) |->
     LET dof == LocalToPatch(S, e, fn) IN WeightOf(S, CompOfDof(S, dof), dof)]

\* What R = P / Q, with P = w N and Q the sum of P, has for derivatives: the
\* component functions P and Q are given with their derivatives at a point.
RationalValue(P, Q) == P[<<>>] // Q[<<>>]

RationalGradient(P, Q, j) ==
  LET invQ == Reciprocal(Q[<<>>])
      dinvQ == 0 -- (Power(invQ, 2) ** Q[<<j>>])
  IN  (invQ ** P[<<j>>]) ++ (dinvQ ** P[<<>>])

\* A variant that loses a factor two in the hessian of 1/Q.
RationalHessianOnce(P, Q, j, k) ==
  LET invQ == Reciprocal(Q[<<>>])
      dinvQ(l) == 0 -- (Power(invQ, 2) ** Q[<<l>>])
      d2invQ == (Power(invQ, 3) ** (Q[<<j>>] ** Q[<<k>>])) -- (Power(invQ, 2) ** Q[<<j, k>>])
  IN  ((d2invQ ** P[<<>>]) ++ (dinvQ(j) ** P[<<k>>])) ++ ((dinvQ(k) ** P[<<j>>]) ++ (invQ ** P[<<j, k>>]))

RationalHessian(P, Q, j, k) ==
  LET invQ == Reciprocal(Q[<<>>])
      dinvQ(l) == 0 -- (Power(invQ, 2) ** Q[<<l>>])
      d2invQ == ((2 ** Power(invQ, 3)) ** (Q[<<j>>] ** Q[<<k>>])) -- (Power(invQ, 2) ** Q[<<j, k>>])
  IN  ((d2invQ ** P[<<>>]) ++ (dinvQ(j) ** P[<<k>>])) ++ ((dinvQ(k) ** P[<<j>>]) ++ (invQ ** P[<<j, k>>]))

\* P of function f at a point, from the B-splines N[0], N[1], N[2].
WeightedJet(S, w, N, f, pt) ==
  LET fn == LocalId(S, f)
  IN  [id \in UNION {[1 .. o -> Directions(S)] : o \in 0 .. 2} |-> w[fn] ** N[Len(id)][fn][pt][id \o <<f[1]>>]]

DenominatorJet(S, w, N, c, pt) ==
  [id \in UNION {[1 .. o -> Directions(S)] : o \in 0 .. 2} |->
     SumTo(NumBasisComp(S, c), LAMBDA i : WeightedJet(S, w, N, <<c, i>>, pt)[id])]

\* Functions of an active component: evaluate_nurbs_values, _gradients, _hessians.
NurbsActive(S, o, w, N, f, pt) ==
  LET P == WeightedJet(S, w, N, f, pt)
      Q == DenominatorJet(S, w, N, f[1], pt)
      entry(id) == CASE o = 0 -> RationalValue(P, Q)
                     [] o = 1 -> RationalGradient(P, Q, id[1])
                     [] o = 2 -> RationalHessian(P, Q, id[1], id[2])
  IN  [id \in Entries(S, o) |-> IF id[o + 1] = f[1] THEN entry(id) ELSE 0]

\* The copy into component c from a: of the component for values, but of the
\* entry number c of the tensor, with all its components, for derivatives.
NurbsCopied(S, o, D, c, a, old) ==
  [id \in Entries(S, o) |->
     IF o = 0 THEN IF id[1] = c THEN D[<<a>>] ELSE old[id]
     ELSE IF TensorToFlat(S.dim, SubSeq(id, 1, o)) = c
          THEN D[FlatToTensor(S.dim, o, a) \o <<id[o + 1]>>] ELSE old[id]]

NoDerivative(S, o) == [id \in Entries(S, o) |-> 0]

\* A function of component c from the one of its active component a.
NurbsFrom(S, o, c, a, D, old) == IF a = c THEN D ELSE NurbsCopied(S, o, D, c, a, old)

NurbsDerivatives(S, o, w, N, points) ==
  [fn \in LocalIds(S) |->
     LET f == FunctionOf(S, fn) a == S.active[f[1]]
     IN  [pt \in PointIds(points) |->
            NurbsFrom(S, o, f[1], a, NurbsActive(S, o, w, N, <<a, f[2]>>, pt), NoDerivative(S, o))]]

\* The functions and weights an iterator over the active components meets at f.
Met(S, f) ==
  LET before[k \in 0 .. f[1]] ==
        IF k = 0 THEN 0 ELSE before[k - 1] + IF k - 1 \in ActiveComps(S) THEN NumBasisComp(S, k - 1) ELSE 0
  IN  before[f[1]] + f[2]

\* evaluate_basis_derivatives_at_points: W, P and the result R are walked over
\* the active components only, Q is the field with the weights as coefficients.
PointJet(S, N, fn, c, pt) ==
  [id \in UNION {[1 .. r -> Directions(S)] : r \in 0 .. 2} |-> N[Len(id)][fn][pt][id \o <<c>>]]

PointField(S, w, N, c, pt) ==
  [id \in UNION {[1 .. r -> Directions(S)] : r \in 0 .. 2} |->
     SumTo(Cardinality(LocalIds(S)), LAMBDA fn : w[fn] ** N[Len(id)][fn][pt][id \o <<c>>])]

QuotientHessian(W, P, Q, q, i, j) ==
  (W // q) ** ((P[<<i, j>>] -- (((P[<<>>] ** Q[<<i, j>>]) ++ ((P[<<i>>] ** Q[<<j>>]) ++ (P[<<j>>] ** Q[<<i>>]))) // q))
                 ++ ((Q[<<i>>] ** Q[<<j>>]) ** ((2 ** P[<<>>]) // (q ** q))))

QuotientEntry(W, P, Q, q, id) ==
  CASE Len(id) = 0 -> (W ** P[<<>>]) // q
    [] Len(id) = 1 -> (W // (q ** q)) ** ((P[id] ** q) -- (P[<<>>] ** Q[id]))
    [] Len(id) = 2 -> QuotientHessian(W, P, Q, q, id[1], id[2])

Quotient(S, o, c, W, P, Q) ==
  [id \in Entries(S, o) |-> IF id[o + 1] = c THEN QuotientEntry(W, P, Q, Q[<<>>], SubSeq(id, 1, o)) ELSE 0]

\* What stands at fn after the active functions were walked.
Written(S, o, w, N, pt) ==
  LET met == {<<Met(S, f), f[1]>> : f \in {g \in LocalFunctions(S) : g[1] \in ActiveComps(S)}}
  IN  Tabulated([fn \in LocalIds(S) |->
         IF \E c \in Comps(S) : <<fn, c>> \in met
         THEN LET c == CHOOSE c \in Comps(S) : <<fn, c>> \in met
              IN  Quotient(S, o, c, w[fn], PointJet(S, N, fn, c, pt), PointField(S, w, N, c, pt))
         ELSE NoDerivative(S, o)])

NurbsAtPoints(S, o, w, N, points) ==
  LET written == Tabulated([pt \in points |-> Written(S, o, w, N, pt)])
  IN  [fn \in LocalIds(S) |->
         LET f == FunctionOf(S, fn) a == S.active[f[1]]
         IN  [pt \in points |->
                NurbsFrom(S, o, f[1], a, written[pt][IF a = f[1] THEN fn ELSE LocalId(S, <<a, f[2]>>)], written[pt][fn])]]

-----------------------------------------------------------------------------
\* The functions of a NURBSSpace from those of its B-splines N.
Weighted(S, w, N, points) == IF IsNurbs(S) THEN [o \in 0 .. 2 |-> NurbsDerivatives(S, o, w, N, points)] ELSE N
WeightedAtPoints(S, w, N, points) == IF IsNurbs(S) THEN [o \in 0 .. 2 |-> NurbsAtPoints(S, o, w, N, points)] ELSE N

Splines(S, tables, points) == Tabulated([o \in 0 .. 2 |-> BSplineDerivatives(S, o, tables, points)])

\* fill_cache of the element or of a face of it.
FilledBasis(S, e, cache, points, face) ==
  Weighted(S, LocalWeights(S, e), Splines(S, ElementTables(S, cache, e, face), points), points)

BasisAtPoints(S, e, unitPoints) ==
  WeightedAtPoints(S, LocalWeights(S, e), Tabulated([o \in 0 .. 2 |-> BSplineAtPoints(S, o, e, unitPoints)]),
                   DOMAIN unitPoints)
=============================================================================
