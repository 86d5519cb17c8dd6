------------------------------ MODULE MCEvaluation ------------------------------
(***************************************************************************)
(* Spaces with every kind of mapping, for TLC: small degrees and grids,    *)
(* points that are no nodes of anything, and the chain of each of them     *)
(* evaluated in the element and on its faces.                              *)
(***************************************************************************)
EXTENDS SpaceTools

\* Breaks for d directions, of two elements in the first.
Breaks(dim) == [d \in 0 .. dim - 1 |-> IF d = 0 THEN <<1, 4, 6>> ELSE <<1, 3>>]
Simple(dim) == [d \in 0 .. dim - 1 |-> IF d = 0 THEN <<1>> ELSE <<>>]
Doubled(dim) == [d \in 0 .. dim - 1 |-> IF d = 0 THEN <<2>> ELSE <<>>]

\* A space of range r over the Breaks, all components with the same degrees p.
SpaceOf(dim, p, mult, active, weights) ==
  [dim |-> dim, knots |-> Breaks(dim),
   degree |-> [c \in DOMAIN active |-> p], mult |-> [c \in DOMAIN active |-> mult],
   active |-> active, weights |-> weights]

Scalar == [c \in {0} |-> 0]
Shared == [c \in 0 .. 1 |-> 0]
Separate(r) == [c \in 0 .. r - 1 |-> c]
Uniform(dim, p) == [d \in 0 .. dim - 1 |-> p]
Descending(dim) == [d \in 0 .. dim - 1 |-> dim - d]
Weights(r, n) == [c \in 0 .. r - 1 |-> [i \in 0 .. n - 1 |-> 1 + ((3 * i + 2 * c) % 5)]]
Bsplines == <<>>

\* A map of full rank.
Linear(dim, codim) ==
  [kind |-> "linear", dim |-> dim, codim |-> codim,
   A |-> [ji \in (0 .. dim - 1) \X (0 .. dim + codim - 1) |-> IF ji[1] = ji[2] THEN 2 ELSE 3 * ji[1] + ji[2]],
   b |-> [i \in {<<k>> : k \in 0 .. dim + codim - 1} |-> 7 + i[1]]]

IdentityMap(dim, codim) == [kind |-> "identity", dim |-> dim, codim |-> codim]
BallMap(dim) == [kind |-> "ball", dim |-> dim, codim |-> 0]
SphereMap(dim) == [kind |-> "sphere", dim |-> dim, codim |-> 1]
CylinderMap == [kind |-> "cylinder", dim |-> 3, codim |-> 0, r0 |-> 1, r1 |-> 3, h0 |-> 0, h1 |-> 5, theta1 |-> 11]

\* Control points on a curved net, by the dofs of the patch.
IgMap(S) ==
  [kind |-> "ig", dim |-> S.dim, codim |-> 0, space |-> S,
   points |-> [dof \in 0 .. DofsOffset(S, S.dim) - 1 |-> 5 + (dof * dof * 7) + 3 * dof]]

\* Points inside the unit element, none of them special; one weight each.
Quad(n) == [d \in 0 .. Cardinality(DOMAIN n) - 1 |-> [i \in 0 .. n[d] - 1 |-> 11 * (i + 1) + 100 * (d + 1)]]
QuadWeights(n) == [d \in DOMAIN n |-> [i \in 0 .. n[d] - 1 |-> 3 + i + 2 * d]]

SetupOf(S, F, n) == [space |-> S, map |-> F, points |-> Quad(n), weights |-> QuadWeights(n)]
RuledSetup(S, F, rules) ==
  LET Q == Quadrature(rules) IN [space |-> S, map |-> F, points |-> Q.points, weights |-> Q.weights]
PointsBy(a, b) == [d \in 0 .. 1 |-> IF d = 0 THEN a ELSE b]

Line == SpaceOf(1, Uniform(1, 3), Doubled(1), Scalar, Bsplines)
Plane == SpaceOf(2, Descending(2), Simple(2), Scalar, Bsplines)
PlaneShared == SpaceOf(2, Uniform(2, 1), Simple(2), Shared, Bsplines)
PlaneNurbs == SpaceOf(2, Descending(2), Simple(2), Scalar, Weights(1, 8))
\* Degrees 2, 1 and 1, 2 of the components; the second has one weight more.
PlaneVector ==
  [SpaceOf(2, Descending(2), Simple(2), Separate(2), Weights(2, 9)) EXCEPT
     !.degree[1] = [d \in 0 .. 1 |-> d + 1], !.weights[0] = Weights(1, 8)[0]]
Solid == SpaceOf(3, Uniform(3, 1), Simple(3), Scalar, Bsplines)
SolidElement == [Solid EXCEPT !.knots[0] = <<1, 4>>, !.mult[0][0] = <<>>]

PlaneTools == SpaceOf(2, Uniform(2, 1), Simple(2), Shared, Bsplines)

Projected ==
  {RuledSetup(Plane, Linear(2, 0), PointsBy(Rules["gauss"][3], Rules["lobatto"][2])),
   SetupOf(PlaneTools, IgMap(PlaneTools), PointsBy(2, 2))}

AllSetups ==
  Projected \cup
  {SetupOf(Line, Linear(1, 0), [d \in {0} |-> 2]),
   SetupOf(Line, IdentityMap(1, 1), [d \in {0} |-> 1]),
   RuledSetup(Plane, BallMap(2), PointsBy(Rules["gauss"][1], Trapez(1 // 10))),
   SetupOf(Plane, Linear(2, 1), PointsBy(1, 1)),
   SetupOf(PlaneShared, IgMap(PlaneVector), PointsBy(1, 1)),
   SetupOf(PlaneNurbs, SphereMap(2), PointsBy(1, 1)),
   SetupOf(PlaneVector, IgMap(PlaneVector), PointsBy(1, 1)),
   SetupOf(SolidElement, BallMap(3), Uniform(3, 1)),
   SetupOf(Solid, CylinderMap, Uniform(3, 1))}

Anisotropic(pt, k, l) == 1 + 3 * k + 7 * l + 5 * pt
=============================================================================
