--------------------------- MODULE EllipticOperators ---------------------------
(***************************************************************************)
(* The quadrature rules, and the local matrices and vectors of an element  *)
(* that are integrated with them: by the standard quadrature and by sum    *)
(* factorization, which integrates one direction after the other.          *)
(* The spaces are scalar.  A matrix is a function on pairs of a test and a *)
(* trial function, both numbered from 0 with the first direction fastest.  *)
(* phi[fn][pt] and grad[fn][pt] are those of the physical space, and phi1D *)
(* and grad1D[d][fn][pt] those of the reference space in one direction.    *)
(***************************************************************************)
EXTENDS TensorAlgebra, SequencesExt

CONSTANT MaxRulePoints                \* bound: points of a rule in one direction

-----------------------------------------------------------------------------
(* quadrature_lib: the rules on the unit interval, and the products of      *)
(* them.  The nodes of the Gauss rules are where iterations that start close*)
(* to a root stop: the roots of Legendre polynomials and of their           *)
(* derivatives.  They are taken from the field, which has them for the      *)
(* primes the rules are checked with; which of two opposite roots comes     *)
(* first does not matter, the other one is set with it.                     *)

\* eval_legendre_polynomial: the value and three derivatives at x, x^2 # 1.
Legendre(n, x) ==
  LET p[j \in 0 .. n] ==
        IF j = 0 THEN <<1, 0>>
        ELSE LET prev == p[j - 1]
             IN  <<((((2 * j - 1) ** x) ** prev[1]) -- ((j - 1) ** prev[2])) // j, prev[1]>>
      P == p[n][1]
      den == 1 -- (x ** x)
      d1 == ((p[n][2] -- (x ** P)) ** n) // den
      d2 == (((2 ** x) ** d1) -- ((n * (n + 1)) ** P)) // den
  IN  [P |-> P, d1 |-> d1, d2 |-> d2, d3 |-> (((2 ** x) ** d2) -- ((n * (n + 1) - 2) ** d1)) // den]

\* Where the updates of Newton and of Halley are zero.
NewtonStops(n, x) == Legendre(n, x).P = 0
HalleyStops(n, x) == Legendre(n, x).d1 = 0

OnePerPair(roots) == SetToSortSeq({z \in roots : 0 < z /\ z < Prime - z}, <)

InnerValues == 2 .. Prime - 2         \* not -1, 0 or 1
GaussRoots(n) == OnePerPair({z \in InnerValues : NewtonStops(n, z)})
LobattoRoots(n) == OnePerPair({z \in InnerValues : HalleyStops(n - 1, z)})

\* The root of round i; a middle one, of an odd number of points, is 0.
RootOf(roots, i) == IF i <= Len(roots) THEN roots[i] ELSE 0

Half == 1 // 2

\* A round sets the i-th point from either end, the right one last.
SetByPairs(n, z(_), w(_)) ==
  LET round(k) == IF 2 * (k + 1) <= n THEN k + 1 ELSE n - k
  IN  [points |-> [k \in 0 .. n - 1 |->
                     IF n - round(k) = k THEN Half ++ (Half ** z(round(k))) ELSE Half -- (Half ** z(round(k)))],
       weights |-> [k \in 0 .. n - 1 |-> w(round(k))]]

GaussLegendre(n, roots) ==
  LET z(i) == RootOf(roots, i)
      w(i) == 1 // ((1 -- (z(i) ** z(i))) ** Power(Legendre(n, z(i)).d1, 2))
  IN  SetByPairs(n, z, w)

\* The ends are 0 and 1; the first round has no iteration.
GaussLobatto(n, roots) ==
  LET z(i) == IF i = 1 THEN 1 ELSE RootOf(roots, i - 1)
      w(i) == IF i = 1 THEN 1 // (n * (n - 1)) ELSE 1 // ((n * (n - 1)) ** Power(Legendre(n - 1, z(i)).P, 2))
  IN  SetByPairs(n, z, w)

UniformRule(n) ==
  [points |-> [i \in 0 .. n - 1 |-> i // (n - 1)], weights |-> [i \in 0 .. n - 1 |-> 1 // n]]

\* eps_scaling moves the points towards the middle, the weights stay.
Scaled(rule, eps) ==
  IF eps = 0 THEN rule
  ELSE [rule EXCEPT !.points = [i \in DOMAIN @ |-> Half ++ (((@[i] // Half) -- 1) ** (Half -- eps))]]

Trapez(eps) == Scaled(UniformRule(2), eps)

\* The rules in one direction, made once; Lobatto and uniform ones have at least two points.
Rules ==
  Tabulated([kind \in {"gauss", "lobatto", "uniform"} |->
    Tabulated([n \in (IF kind = "gauss" THEN 1 ELSE 2) .. MaxRulePoints |->
      CASE kind = "gauss" -> GaussLegendre(n, GaussRoots(n))
        [] kind = "lobatto" -> GaussLobatto(n, LobattoRoots(n))
        [] OTHER -> UniformRule(n)])])

\* The quadrature of a rule and a scaling for each direction.
Quadrature(rules) ==
  [points |-> [d \in DOMAIN rules |-> rules[d].points],
   weights |-> [d \in DOMAIN rules |-> rules[d].weights]]

-------------------------------------------------------------------------------
\* The integrals of the powers up to the degree, on the unit interval.
Integrates(rule, degree) ==
  \A k \in 0 .. degree :
    SumOver(DOMAIN rule.points, LAMBDA i : rule.weights[i] ** Power(rule.points[i], k)) = 1 // (k + 1)

DifferentPoints(rule) ==
  \A i, j \in DOMAIN rule.points : i # j => rule.points[i] # rule.points[j]

\* Gauss rules are exact to twice the number of their points less one, Lobatto
\* rules to two degrees less; what is scaled or uniform is exact for linear
\* functions (QGauss, QGaussLobatto, QUniform, QTrapez).
RulesExact(eps) ==
  /\ \A n \in DOMAIN Rules["gauss"] : Integrates(Rules["gauss"][n], 2 * n - 1) /\ DifferentPoints(Rules["gauss"][n])
  /\ \A n \in DOMAIN Rules["lobatto"] :
       /\ Integrates(Rules["lobatto"][n], 2 * n - 3) /\ DifferentPoints(Rules["lobatto"][n])
       /\ \A scaled \in {Scaled(Rules["lobatto"][n], eps), Scaled(Rules["uniform"][n], eps)} :
            Integrates(scaled, 1) /\ DifferentPoints(scaled)
  /\ Integrates(Trapez(0), 1) /\ Integrates(Trapez(eps), 1)

-----------------------------------------------------------------------------
Pairs(test, trial) == (DOMAIN test) \X (DOMAIN trial)

\* The upper triangle is copied below the diagonal.
CopyUpperTriangle(A) ==
  [ij \in DOMAIN A |-> IF ij[2] < ij[1] THEN A[<<ij[2], ij[1]>>] ELSE A[ij]]

-----------------------------------------------------------------------------
(* EllipticOperatorsStdIntegration *)

StdMassEntry(phi_i, phi_j, c, w_meas) ==
  SumOver(DOMAIN w_meas, LAMBDA qp : phi_j[qp] ** (phi_i[qp] ** (c[qp] ** w_meas[qp])))

\* The element is compared with itself: the pairs j < i are not computed.
StdMass(phi, c, w_meas, is_symmetric) ==
  LET computed == [ij \in Pairs(phi, phi) |->
                     IF is_symmetric /\ ij[2] < ij[1] THEN 0
                     ELSE StdMassEntry(phi[ij[1]], phi[ij[2]], c, w_meas)]
  IN  IF is_symmetric THEN CopyUpperTriangle(computed) ELSE computed

\* C times the gradient of the test function, times that of the trial function.
StdStiffness(grad, C, w_meas) ==
  [ij \in Pairs(grad, grad) |->
     SumOver(DOMAIN w_meas, LAMBDA qp :
       ScalarProduct(Scale(w_meas[qp], Compose(grad[ij[1]][qp], C[qp])), grad[ij[2]][qp]))]

RightHandSide(phi, f, w_meas) ==
  [i \in DOMAIN phi |-> SumOver(DOMAIN w_meas, LAMBDA qp : phi[i][qp] ** (f[qp] ** w_meas[qp]))]

-----------------------------------------------------------------------------
(* EllipticOperatorsSFIntegration *)

\* evaluate_w_phi1Dtrial_phi1Dtest: J[d][<<point, trial, test>>].
Moments(test1D, trial1D, weights, lengths) ==
  [d \in DOMAIN lengths |->
     [i \in {<<t, a, b>> : t \in DOMAIN weights[d], a \in DOMAIN trial1D[d], b \in DOMAIN test1D[d]} |->
        (weights[d][i[1]] ** lengths[d]) ** (test1D[d][i[3]][i[1]] ** trial1D[d][i[2]][i[1]])]]

Numbers(n) == 0 .. n - 1
SizeBelow(size, k) == LET p[i \in 0 .. k] == IF i = 0 THEN 1 ELSE size[i - 1] * p[i - 1] IN p[k]
SizeAbove(size, dim, k) == SizeBelow(size, dim) \div SizeBelow(size, k + 1)

Contracted(J, k, C, nTheta, theta, alpha, beta, nAlpha, nBeta) ==
  SumTo(nTheta, LAMBDA t :
    C[<<t + nTheta * theta, alpha % nAlpha, beta % nBeta>>] ** J[k][<<t, alpha \div nAlpha, beta \div nBeta>>])

\* A variant that walks the functions of a direction before those below it.
ContractDirectionSwapped(J, k, C, nTheta, nAlpha, nBeta, dim) ==
  LET n == nTheta[k] below == SizeBelow(nAlpha, k) belowB == SizeBelow(nBeta, k)
  IN  [i \in {<<th, al, be>> : th \in Numbers(SizeAbove(nTheta, dim, k)),
                              al \in Numbers(SizeBelow(nAlpha, k + 1)),
                              be \in Numbers(SizeBelow(nBeta, k + 1))} |->
         SumTo(n, LAMBDA t :
           C[<<t + n * i[1], i[2] \div nAlpha[k], i[3] \div nBeta[k]>>]
             ** J[k][<<t, i[2] % nAlpha[k], i[3] % nBeta[k]>>])]

\* From C[k] to C[k + 1], without the points of direction k.
ContractDirection(J, k, C, nTheta, nAlpha, nBeta, dim) ==
  [i \in {<<th, al, be>> : th \in Numbers(SizeAbove(nTheta, dim, k)),
                          al \in Numbers(SizeBelow(nAlpha, k + 1)),
                          be \in Numbers(SizeBelow(nBeta, k + 1))} |->
     Contracted(J, k, C, nTheta[k], i[1], i[2], i[3], SizeBelow(nAlpha, k), SizeBelow(nBeta, k))]

\* SumFactorizationIntegrator, for dim 1, 2 and 3.  With is_symmetric the last
\* step leaves out the pairs whose trial index of the last direction is lower.
SumFactorization(is_symmetric, J, C0, nTheta, nAlpha, nBeta, dim) ==
  LET start == [i \in {<<t, 0, 0>> : t \in DOMAIN C0} |-> C0[i[1]]]
      C[k \in 0 .. dim] == IF k = 0 THEN start ELSE ContractDirection(J, k - 1, C[k - 1], nTheta, nAlpha, nBeta, dim)
      result == C[dim]
      skipped(b, a) == is_symmetric /\ a \div SizeBelow(nAlpha, dim - 1) < b \div SizeBelow(nBeta, dim - 1)
      computed == [ij \in {<<i[3], i[2]>> : i \in DOMAIN result} |->
                     IF skipped(ij[1], ij[2]) THEN 0 ELSE result[<<0, ij[2], ij[1]>>]]
  IN  IF is_symmetric THEN CopyUpperTriangle(computed) ELSE computed

-----------------------------------------------------------------------------
(* The template of SumFactorizationIntegrator for any dimension, of which   *)
(* the code builds only what one to three dimensions do not override.       *)

Larger(a, b) == IF a < b THEN b ELSE a
Smaller(a, b) == IF a < b THEN a ELSE b

\* Here the functions of direction k run fastest.
GenericStep(J, k, C, nTheta, nAlpha, nBeta, dim) ==
  [i \in {<<th, al, be>> : th \in Numbers(SizeAbove(nTheta, dim, k)),
                          al \in Numbers(SizeBelow(nAlpha, k + 1)),
                          be \in Numbers(SizeBelow(nBeta, k + 1))} |->
     SumTo(nTheta[k], LAMBDA t :
       C[<<t + nTheta[k] * i[1], i[2] \div nAlpha[k], i[3] \div nBeta[k]>>]
         ** J[k][<<t, i[2] % nAlpha[k], i[3] % nBeta[k]>>])]

\* Here those of the first direction do; only the pairs with a >= b are computed,
\* from pairs of the directions below that are ordered in the same way.
GenericSymmetricStep(J, k, C, nTheta, nAlpha, nBeta, dim) ==
  LET entry(th, a, b) ==
        LET below == SizeBelow(nAlpha, k) belowB == SizeBelow(nBeta, k)
            fa == a % below fb == b % belowB
            ak == a \div below bk == b \div belowB
        IN  SumTo(nTheta[k], LAMBDA t :
              C[<<t + nTheta[k] * th, Larger(fa, fb), Smaller(fa, fb)>>]
                ** J[k][<<t, Larger(ak, bk), Smaller(ak, bk)>>])
  IN  [i \in {<<th, al, be>> : th \in Numbers(SizeAbove(nTheta, dim, k)),
                              al \in Numbers(SizeBelow(nAlpha, k + 1)),
                              be \in Numbers(SizeBelow(nBeta, k + 1))} |->
         IF i[2] < i[3] THEN 0 ELSE entry(i[1], i[2], i[3])]

\* In the last direction the row and the column are sums of the two indices, not
\* their flat index: the pair that is written last stays.
GenericLast(C, k, nAlpha, nBeta) ==
  LET firsts(n) == SizeBelow(n, k)
      written(n, i) == LET first == Smaller(i, firsts(n) - 1) IN n[k] * first + (i - first)
      reached(n, i) == i - Smaller(i, firsts(n) - 1) < n[k]
  IN  [ij \in {<<i[3], i[2]>> : i \in DOMAIN C} |->
         IF reached(nBeta, ij[1]) /\ reached(nAlpha, ij[2])
         THEN C[<<0, written(nAlpha, ij[2]), written(nBeta, ij[1])>>] ELSE 0]

GenericSumFactorization(is_symmetric, J, C0, nTheta, nAlpha, nBeta, dim) ==
  LET start == [i \in {<<t, 0, 0>> : t \in DOMAIN C0} |-> C0[i[1]]]
      C[k \in 0 .. dim] ==
        IF k = 0 THEN start
        ELSE IF is_symmetric THEN GenericSymmetricStep(J, k - 1, C[k - 1], nTheta, nAlpha, nBeta, dim)
        ELSE GenericStep(J, k - 1, C[k - 1], nTheta, nAlpha, nBeta, dim)
  IN  IF is_symmetric
      THEN CopyUpperTriangle([ij \in {<<i[3], i[2]>> : i \in DOMAIN C[dim]} |-> C[dim][<<0, ij[2], ij[1]>>]])
      ELSE GenericLast(C[dim], dim - 1, nAlpha, nBeta)

-----------------------------------------------------------------------------
Sizes(tables) == [d \in DOMAIN tables |-> Cardinality(DOMAIN tables[d])]

\* C0, by the flat index of the point.
TimesDeterminant(c, det_DF) == [qp \in DOMAIN det_DF |-> c[qp] ** det_DF[qp]]

SFMass(phi1D, c, det_DF, weights, lengths, is_symmetric) ==
  SumFactorization(is_symmetric, Moments(phi1D, phi1D, weights, lengths),
                   TimesDeterminant(c, det_DF),
                   Sizes(weights), Sizes(phi1D), Sizes(phi1D), Cardinality(DOMAIN lengths))

\* DF^-1 o C o DF^-T det(DF), by entries [r][s].
PulledBackCoefficient(C, invDF, det_DF) ==
  LET space == Slot(C, 1) ref == Slot(invDF, 2)
  IN  [rs \in {<<r, s>> : r, s \in ref} |->
         SumOver(space \X space, LAMBDA kl :
           invDF[<<kl[1], rs[1]>>] ** ((det_DF ** C[<<kl[1], kl[2]>>]) ** invDF[<<kl[2], rs[2]>>]))]

\* The univariate functions, derived in direction k.
DerivedAlong(k, phi1D, grad1D) == [d \in DOMAIN phi1D |-> IF d = k THEN grad1D[d] ELSE phi1D[d]]

\* The sum over the pairs of directions of the derivatives of trial and test.
SFStiffness(phi1D, grad1D, C, invDF, det_DF, weights, lengths) ==
  LET dirs == DOMAIN lengths
      C_hat == [qp \in DOMAIN det_DF |-> PulledBackCoefficient(C[qp], invDF[qp], det_DF[qp])]
      term(k, l) == SumFactorization(FALSE, Moments(DerivedAlong(l, phi1D, grad1D), DerivedAlong(k, phi1D, grad1D), weights, lengths),
                                     [qp \in DOMAIN det_DF |-> C_hat[qp][<<k, l>>]],
                                     Sizes(weights), Sizes(phi1D), Sizes(phi1D), Cardinality(dirs))
      terms == [kl \in dirs \X dirs |-> term(kl[1], kl[2])]
  IN  [ij \in DOMAIN terms[<<0, 0>>] |-> SumOver(dirs \X dirs, LAMBDA kl : terms[kl][ij])]

\* Not factorized.
SFRightHandSide(phi, f, w_meas) == RightHandSide(phi, f, w_meas)

\* eval_operator_u_v with the template in place of its specializations.
GenericMass(phi1D, c, det_DF, weights, lengths, is_symmetric) ==
  GenericSumFactorization(is_symmetric, Moments(phi1D, phi1D, weights, lengths), TimesDeterminant(c, det_DF),
                          Sizes(weights), Sizes(phi1D), Sizes(phi1D), Cardinality(DOMAIN lengths))
=============================================================================
