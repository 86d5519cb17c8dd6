---------------------------- MODULE KnotRefinement ----------------------------
(***************************************************************************)
(* The arithmetic of h-refinement along one direction: the knots of a      *)
(* CartesianGrid, the multiplicities a SplineSpace gives to its interior   *)
(* knots, and the number of basis functions that follows from them.        *)
(*                                                                         *)
(* A knot is an integer instead of a Real: an instance starts from knots   *)
(* whose distances the subdivisions it uses divide.                        *)
(***************************************************************************)
EXTENDS Integers, Sequences, FiniteSets, Functions

Intervals(knots) == Len(knots) - 1

\* An instance stays on the integers while this holds.
Divides(n, knots) == \A e \in 1 .. Intervals(knots) : (knots[e + 1] - knots[e]) % n = 0

\* A variant that leaves the second half of every interval whole.
OneCutPerInterval(knots, n) ==
  [i \in 1 .. 2 * Intervals(knots) + 1 |->
     LET e == (i + 1) \div 2
     IN  IF i % 2 = 1 THEN knots[e] ELSE knots[e] + (knots[e + 1] - knots[e]) \div n]

\* Every interval cut into n equal ones.
RefineKnots(knots, n) ==
  [i \in 1 .. n * Intervals(knots) + 1 |->
     LET e == 1 + (i - 1) \div n
         j == (i - 1) % n
     IN  IF j = 0 THEN knots[e] ELSE knots[e] + j * ((knots[e + 1] - knots[e]) \div n)]

\* A variant that puts the new multiplicities after the old ones only.
NoLeadingMultiplicities(mult, factor) ==
  [i \in 1 .. factor * (Len(mult) + 1) - 1 |->
     IF i % factor = 1 /\ i \div factor < Len(mult) THEN mult[1 + i \div factor] ELSE 1]

\* factor - 1 knots of multiplicity one before, between and after the old ones.
RefineMultiplicities(mult, factor) ==
  [i \in 1 .. factor * (Len(mult) + 1) - 1 |->
     IF i % factor = 0 THEN mult[i \div factor] ELSE 1]

\* The interior knots, each as often as it is repeated.
Repeated(mult) == UNION {{i} \X (1 .. mult[i]) : i \in DOMAIN mult}

\* The sum of the multiplicities.  Open (interpolatory) ends, no periodic direction.
NumBasis(degree, mult) == degree + 1 + Cardinality(Repeated(mult))

\* Length of the knot vector with every knot repeated.
NumRepeatedKnots(degree, mult) == 2 * (degree + 1) + Cardinality(Repeated(mult))

\* The coordinate of interior knot i.
InteriorKnot(knots, i) == knots[i + 1]
=============================================================================
