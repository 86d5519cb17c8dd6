----------------------------- MODULE MappingLibrary -----------------------------
(***************************************************************************)
(* The mappings of mapping_lib and IgMapping: the value, the gradient and  *)
(* the hessian of the map at a point x of the reference domain.  Sine and  *)
(* cosine are the rational parameterization of the circle by an angle: a   *)
(* relation between them and their derivatives is an identity in it.       *)
(*                                                                         *)
(* A mapping F is a record: kind, dim, codim, and for "linear" A and b,    *)
(* for "cylinder" r0, r1, h0, h1 and theta1, for "ig" the reference space  *)
(* and its control points, euclidean and by the dofs of the patch.         *)
(***************************************************************************)
EXTENDS BasisEvaluation

Sine(x) == (2 ** x) // (1 ++ (x ** x))
Cosine(x) == (1 -- (x ** x)) // (1 ++ (x ** x))

SpaceDim(F) == F.dim + F.codim

GradientIndices(F) == (0 .. F.dim - 1) \X (0 .. SpaceDim(F) - 1)
HessianIndices(F) == {<<j, k, i>> : j, k \in 0 .. F.dim - 1, i \in 0 .. SpaceDim(F) - 1}

-----------------------------------------------------------------------------
(* IdentityMapping: the components from dim on stay what they are, zero. *)

IdentityValue(F, x) == [i \in {<<k>> : k \in 0 .. SpaceDim(F) - 1} |-> IF i[1] < F.dim THEN x[i[1]] ELSE 0]
IdentityGradient(F, x) == [ji \in GradientIndices(F) |-> IF ji[1] = ji[2] THEN 1 ELSE 0]
IdentityHessian(F, x) == [i \in HessianIndices(F) |-> 0]

-----------------------------------------------------------------------------
(* LinearMapping *)

LinearValue(F, x) == Plus(Action(F.A, [i \in {<<k>> : k \in 0 .. F.dim - 1} |-> x[i[1]]]), F.b)
LinearGradient(F, x) == F.A
LinearHessian(F, x) == [i \in HessianIndices(F) |-> 0]

-----------------------------------------------------------------------------
(* BallMapping: the factors s and c of each direction and their derivatives *)

\* s[der][i] and c[der][i] for the derivatives of the radius and the angles.
Factors(last, radius, angle) ==
  LET s == [der \in 0 .. 2 |-> [i \in 0 .. last |->
              IF i = 0 THEN radius[der]
              ELSE IF der = 1 THEN Cosine(angle[i]) ELSE Power(-1, der \div 2) ** Sine(angle[i])]]
      c == [der \in 0 .. 2 |-> [i \in 0 .. last |->
              IF i = last THEN 1 ELSE IF der = 0 THEN Cosine(angle[i + 1]) ELSE Negative(s[der - 1][i + 1])]]
  IN  [s |-> s, c |-> c, last |-> last]

\* set_element and set_face_element
BallFactors(F, x) == Factors(F.dim - 1, [der \in 0 .. 2 |-> CASE der = 0 -> x[0] [] der = 1 -> 1 [] der = 2 -> 0], x)

FactorsValue(t) ==
  [i \in {<<k>> : k \in 0 .. t.last} |-> ProductTo(i[1] + 1, LAMBDA l : t.s[0][l]) ** t.c[0][i[1]]]

\* Component i differentiated along the directions of D: it depends on the
\* directions up to i + 1, and the last component has no factor c.
Occurrences(D, l) == Cardinality({m \in DOMAIN D : D[m] = l})
BallEntry(t, D, i, from) ==
  IF \E m \in DOMAIN D : D[m] > i + 1 THEN 0
  ELSE ProductTo(i + 1, LAMBDA l : IF l < from THEN 1 ELSE t.s[Occurrences(D, l)][l])
         ** IF i = t.last THEN 1 ELSE t.c[Occurrences(D, i + 1)][i]

BallValue(F, x) == FactorsValue(BallFactors(F, x))

BallGradient(F, x) ==
  LET t == BallFactors(F, x) IN [ji \in GradientIndices(F) |-> BallEntry(t, <<ji[1]>>, ji[2], 0)]

\* A variant in which every angle lacks its second derivative.
BallHessianFirstOrder(F, x) ==
  LET t == BallFactors(F, x)
  IN  [i \in HessianIndices(F) |-> IF i[1] = i[2] THEN 0 ELSE BallEntry(t, <<i[1], i[2]>>, i[3], 0)]

\* Computed for k <= j, copied for the others.
Computed(i) == IF i[2] <= i[1] THEN <<i[1], i[2]>> ELSE <<i[2], i[1]>>
BallHessian(F, x) ==
  LET t == BallFactors(F, x)
  IN  [i \in HessianIndices(F) |-> BallEntry(t, Computed(i), i[3], 0)]

-----------------------------------------------------------------------------
(* SphereMapping: the ball with its radius fixed at R = 1, so that direction *)
(* j turns the angle j + 1 of the ball.                                    *)

SphereFactors(F, x) ==
  Factors(F.dim, [der \in 0 .. 2 |-> 1], [i \in 1 .. F.dim |-> x[i - 1]])

SphereValue(F, x) == FactorsValue(SphereFactors(F, x))

SphereEntry(t, D, i, from) == BallEntry(t, [m \in DOMAIN D |-> D[m] + 1], i, from)

SphereGradient(F, x) ==
  LET t == SphereFactors(F, x) IN [ji \in GradientIndices(F) |-> SphereEntry(t, <<ji[1]>>, ji[2], 0)]

\* The last component leaves the radius out of its product.
SphereHessian(F, x) ==
  LET t == SphereFactors(F, x)
  IN  [i \in HessianIndices(F) |-> SphereEntry(t, Computed(i), i[3], IF i[3] = F.dim THEN 1 ELSE 0)]

-----------------------------------------------------------------------------
(* CylindricalAnnulus: angle, radius and height *)

Radial(F, x) == ((F.r1 -- F.r0) ** x[1]) ++ F.r0
Turned(F, x) == F.theta1 ** x[0]

CylinderValue(F, x) ==
  <<0>> :> (Radial(F, x) ** Cosine(Turned(F, x))) @@ <<1>> :> (Radial(F, x) ** Sine(Turned(F, x)))
    @@ <<2>> :> (F.h0 ++ (x[2] ** (F.h1 -- F.h0)))

CylinderGradient(F, x) ==
  LET dT == F.theta1 dR == F.r1 -- F.r0
      filled == <<0, 0>> :> Negative(dT ** (Radial(F, x) ** Sine(Turned(F, x))))
                  @@ <<0, 1>> :> (dT ** (Radial(F, x) ** Cosine(Turned(F, x))))
                  @@ <<1, 0>> :> (dR ** Cosine(Turned(F, x))) @@ <<1, 1>> :> (dR ** Sine(Turned(F, x)))
                  @@ <<2, 2>> :> (F.h1 -- F.h0)
  IN  filled @@ [ji \in GradientIndices(F) |-> 0]

CylinderHessian(F, x) ==
  LET dT == F.theta1 dR == F.r1 -- F.r0
      mixed == <<Negative(dT ** (dR ** Sine(Turned(F, x)))), dT ** (dR ** Cosine(Turned(F, x)))>>
      turn == Negative(Power(dT, 2) ** Radial(F, x))
      filled == <<0, 0, 0>> :> (turn ** Cosine(Turned(F, x))) @@ <<0, 0, 1>> :> (turn ** Sine(Turned(F, x)))
                  @@ <<1, 0, 0>> :> mixed[1] @@ <<1, 0, 1>> :> mixed[2]
                  @@ <<0, 1, 0>> :> mixed[1] @@ <<0, 1, 1>> :> mixed[2]
  IN  filled @@ [i \in HessianIndices(F) |-> 0]

-----------------------------------------------------------------------------
(* IgMapping: a field of the reference space *)

\* get_control_points_elem
ElementCoefficients(S, coefs, e) == [fn \in LocalIds(S) |-> coefs[LocalToPatch(S, e, fn)]]

\* evaluate_linear_combination, at one point.
Field(D, coefs, pt) ==
  Tabulated([id \in DOMAIN D[0][pt] |-> SumTo(Cardinality(DOMAIN D), LAMBDA fn : coefs[fn] ** D[fn][pt][id])])

\* The map at the points of the element with the basis D of the reference space.
IgAt(F, D, e, pt) == [o \in 0 .. 2 |-> Field(D[o], ElementCoefficients(F.space, F.points, e), pt)]

-----------------------------------------------------------------------------
\* The orders evaluate*_at_points is implemented for; Mapping's own stop the program.
PointOrders(F) ==
  CASE F.kind \in {"ig", "cylinder"} -> 0 .. 2
    [] F.kind = "ball" -> 1 .. 2
    [] F.kind \in {"identity", "linear", "sphere"} -> {}

ValueOf(F, x) ==
  CASE F.kind = "identity" -> IdentityValue(F, x)
    [] F.kind = "linear" -> LinearValue(F, x)
    [] F.kind = "ball" -> BallValue(F, x)
    [] F.kind = "sphere" -> SphereValue(F, x)
    [] F.kind = "cylinder" -> CylinderValue(F, x)

GradientOf(F, x) ==
  CASE F.kind = "identity" -> IdentityGradient(F, x)
    [] F.kind = "linear" -> LinearGradient(F, x)
    [] F.kind = "ball" -> BallGradient(F, x)
    [] F.kind = "sphere" -> SphereGradient(F, x)
    [] F.kind = "cylinder" -> CylinderGradient(F, x)

HessianOf(F, x) ==
  CASE F.kind = "identity" -> IdentityHessian(F, x)
    [] F.kind = "linear" -> LinearHessian(F, x)
    [] F.kind = "ball" -> BallHessian(F, x)
    [] F.kind = "sphere" -> SphereHessian(F, x)
    [] F.kind = "cylinder" -> CylinderHessian(F, x)

\* F with its derivatives up to order two at a point of the reference domain.
AnalyticalAt(F, x) ==
  [o \in 0 .. 2 |-> Tabulated(CASE o = 0 -> ValueOf(F, x) [] o = 1 -> GradientOf(F, x) [] o = 2 -> HessianOf(F, x))]
=============================================================================
