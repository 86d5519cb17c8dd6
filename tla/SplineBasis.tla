------------------------------ MODULE SplineBasis ------------------------------
(***************************************************************************)
(* The univariate B-splines of a SplineSpace as the library computes them: *)
(* knots with repetitions, Bernstein polynomials and their derivatives on  *)
(* the unit interval, the extraction operators that turn them into the     *)
(* B-splines of an element, the table of values of an element, and the     *)
(* insertion of knots in the coefficients of a curve.  Vectors and         *)
(* matrices are functions on the indices the code uses, from 0; knots are  *)
(* integers in a sequence, everything else is in the field.                *)
(***************************************************************************)
EXTENDS PrimeField, KnotRefinement, Combinatorics, FiniteSetsExt, SequencesExt

LastIndex(v) == Cardinality(DOMAIN v) - 1
FromZero(s) == [i \in 0 .. Len(s) - 1 |-> s[i + 1]]

-----------------------------------------------------------------------------
(* Knot vectors *)

\* interpolatory_end_knots: degree + 1 copies of the first, and of the last knot.
EndKnots(p, knot) == [i \in 1 .. p + 1 |-> knot]

\* Interior knot i stands mult[i] times between the end knots.
KnotsWithRepetition(p, knots, mult) ==
  FromZero(EndKnots(p, knots[1])
             \o FlattenSeq([i \in 1 .. Len(mult) |-> [k \in 1 .. mult[i] |-> InteriorKnot(knots, i)]])
             \o EndKnots(p, knots[Len(knots)]))

\* The first basis function of every interval.
AccumulatedMultiplicities(mult) ==
  LET a[i \in 0 .. Len(mult)] == IF i = 0 THEN 0 ELSE a[i - 1] + mult[i] IN a

\* The span of U that holds u, by bisection.
FindSpan(p, u, U) ==
  LET n == LastIndex(U) - p
      search[w \in (0 .. n + 1) \X (0 .. n + 1)] ==
        LET mid == (w[1] + w[2]) \div 2
        IN  IF u < U[mid] THEN search[<<w[1], mid>>]
            ELSE IF u >= U[mid + 1] THEN search[<<mid, w[2]>>] ELSE mid
  IN  IF u = U[n + 1] THEN n ELSE search[<<p, n + 1>>]

-----------------------------------------------------------------------------
(* Bernstein polynomials *)

BernsteinValues(p, x) ==
  [i \in 0 .. p |-> choose(p, i) ** (Power(x, i) ** Power(1 -- x, p - i))]

\* The recursion over the degree ends at the values, of degree p - order, or at zero.
BernsteinDerivative(order, p, x) ==
  LET d[q \in 0 .. p] ==
        IF q = p - order THEN BernsteinValues(q, x)
        ELSE [i \in 0 .. q |->
                q ** ((IF i > 0 THEN d[q - 1][i - 1] ELSE 0) -- (IF i < q THEN d[q - 1][i] ELSE 0))]
  IN  IF order > p THEN [i \in 0 .. p |-> 0] ELSE d[p]

-----------------------------------------------------------------------------
(* Bernstein extraction *)

\* An entry of column l of the operator of size j from those of the one before;
\* the last column is the one before it with a difference added.  Extraction:
\* M of size j - 1 to size j on the interval (a, b), with the knots y from s on.
Extracted(j, l, alpha, beta, before, here) ==
  (((alpha ** here) ++ ((1 -- alpha) ** before)) ++ IF l < j - 1 THEN 0 ELSE beta ** (before -- here))

ExtractionStep(M, j, y, s, a, b) ==
  LET prev(k, l) == IF k \in 0 .. j - 2 THEN M[<<k, IF l < j - 1 THEN l ELSE l - 1>>] ELSE 0
      over(k, length) == length // (y[s + k + j] - y[s + k])
  IN  [kl \in (0 .. j - 1) \X (0 .. j - 1) |->
         Extracted(j, kl[2], over(kl[1], y[s + kl[1] + j] - a), over(kl[1], b - a),
                   prev(kl[1] - 1, kl[2]), prev(kl[1], kl[2]))]

\* The operator of interval n, normalized so that the basis functions sum to one.
Extraction(p, knots, y, acum, n) ==
  LET a == knots[n + 1] b == knots[n + 2]
      M[j \in 1 .. p + 1] ==
        IF j = 1 THEN [kl \in {<<0, 0>>} |-> 1 // (b - a)]
        ELSE ExtractionStep(M[j - 1], j, y, acum[n] + p + 1 - j, a, b)
      s == acum[n]
  IN  [kl \in DOMAIN M[p + 1] |-> (y[s + kl[1] + p + 1] - y[s + kl[1]]) ** M[p + 1][kl]]

\* The derivatives of the functions of an interval at x of the unit interval.
Univariate(order, p, M, length, x) ==
  LET B == BernsteinDerivative(order, p, x)
  IN  [k \in 0 .. p |->
         Power(1 // length, order) ** SumTo(p + 1, LAMBDA l : M[<<k, l>>] ** B[l])]

-----------------------------------------------------------------------------
(* Knot insertion: the coefficients Pw of a curve over U become those over  *)
(* Ubar, which is U with the knots X.                                       *)

\* A variant that blends with the first knot of the support one to the right.
BlendShifted(p, U, Ubar, X, j, q) ==
  [v \in DOMAIN q.Qw |->
     LET l == v + 1 - (q.k - p)
         alfa == Ubar[q.k + l] - X[j]
         beta == alfa // (Ubar[q.k + l] - U[q.i - p + l - 1])
     IN  IF l \notin 1 .. p THEN q.Qw[v]
         ELSE IF alfa = 0 THEN q.Qw[v + 1]
         ELSE (beta ** q.Qw[v]) ++ ((1 -- beta) ** q.Qw[v + 1])]

\* The p coefficients that the insertion of X[j] blends.
Blend(p, U, Ubar, X, j, q) ==
  [v \in DOMAIN q.Qw |->
     LET l == v + 1 - (q.k - p)
         alfa == Ubar[q.k + l] - X[j]
         beta == alfa // (Ubar[q.k + l] - U[q.i - p + l])
     IN  IF l \notin 1 .. p THEN q.Qw[v]
         ELSE IF alfa = 0 THEN q.Qw[v + 1]
         ELSE (beta ** q.Qw[v]) ++ ((1 -- beta) ** q.Qw[v + 1])]

\* The coefficients copied while the knots of U are not below X[j].
Shift(p, U, X, Pw, a, j, q) ==
  LET i == Max({x \in a .. q.i : x = a \/ U[x] < X[j]})
      moved == q.i - i
      k == q.k - moved
      Qw == [v \in DOMAIN q.Qw |->
               IF v \in k - p .. q.k - p - 1 THEN Pw[v + (i - k)] ELSE q.Qw[v]]
  IN  [Qw |-> [Qw EXCEPT ![k - p - 1] = Qw[k - p]], i |-> i, k |-> k]

InsertKnots(p, U, Ubar, X, Pw) ==
  LET r == LastIndex(X)
      n == LastIndex(U) - p - 1
      a == FindSpan(p, X[0], U)
      b == FindSpan(p, X[r], U) + 1
      start == [Qw |-> [v \in 0 .. n + r + 1 |->
                          IF v <= a - p THEN Pw[v] ELSE IF v >= b + r THEN Pw[v - r - 1] ELSE 0],
                i |-> b + p - 1, k |-> b + p + r]
      after[j \in 0 .. r + 1] ==
        IF j = r + 1 THEN start
        ELSE LET q == Shift(p, U, X, Pw, a, j, after[j + 1])
             IN  [q EXCEPT !.Qw = Blend(p, U, Ubar, X, j, q), !.k = q.k - 1]
  IN  after[0].Qw

\* set_difference of the knots of the refined and of the unrefined grid.
AddedKnots(new, old) == FromZero(SelectSeq(new, LAMBDA u : ~Contains(old, u)))

(***************************************************************************)
(* What B-splines are: the recursion of Cox and de Boor, over a vector of  *)
(* knots with repetitions.  Nothing of this section is in the library,     *)
(* whose tables come from Bernstein polynomials and extraction operators.  *)
(***************************************************************************)

\* N[i, q] at u on the polynomial piece between the knots U[span], U[span + 1].
CoxDeBoor(p, U, span, i, u) ==
  LET quotient(x, y) == IF y = 0 THEN 0 ELSE x // y
      N[q \in 0 .. p, k \in i .. i + p] ==
        IF q = 0 THEN IF k = span THEN 1 ELSE 0
        ELSE (quotient(u -- U[k], U[k + q] - U[k]) ** N[q - 1, k])
               ++ (quotient(U[k + q + 1] - u, U[k + q + 1] - U[k + 1]) ** N[q - 1, k + 1])
  IN  N[p, i]

\* N'[i, p] = p (N[i, p-1] / (U[i+p] - U[i]) - N[i+1, p-1] / (U[i+p+1] - U[i+1])).
CoxDeBoorDerivative(order, p, U, span, i, u) ==
  LET quotient(x, y) == IF y = 0 THEN 0 ELSE x // y
      D[o \in 0 .. order, k \in i .. i + order] ==
        LET q == p - order + o
        IN  IF o = 0 THEN CoxDeBoor(q, U, span, k, u)
            ELSE q ** (quotient(D[o - 1, k], U[k + q] - U[k])
                         -- quotient(D[o - 1, k + 1], U[k + q + 1] - U[k + 1]))
  IN  IF order > p THEN 0 ELSE D[order, i]
=============================================================================
