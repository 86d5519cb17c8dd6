------------------------ MODULE GridRefinementProofs ------------------------
(***************************************************************************)
(* Proofs about h-refinement, in grids of every dimension and whatever      *)
(* objects are created and released.  No live object ever points to one    *)
(* that is gone, and every member keeps its type.  While no two spaces     *)
(* share a multiplicity table, every space follows the grid and lies in    *)
(* the space it becomes.  While nothing else has two owners either, the    *)
(* weights and control points follow their spaces, and every slot finds    *)
(* its assertions true.                                                    *)
(*                                                                         *)
(* The slots of a refinement, called one by one, implement the promise of  *)
(* HRefinement: grid and objects are refined in one step.  The promise     *)
(* makes its step when the last slot has been called.  Before that it sees *)
(* the grid and the multiplicities from before the refinement: a space     *)
(* that has followed remembers them, and the others still have them.  In   *)
(* each direction knots and multiplicities, which the code keeps as        *)
(* sequences, are known to the promise by coordinate; what joins the two is*)
(* that the knots are in order and that a cut keeps them so.               *)
(***************************************************************************)
EXTENDS GridRefinement, FiniteSetTheorems, TLAPS

-----------------------------------------------------------------------------
(* The inductive invariant.                                                  *)

\* Knots of a grid: at least one interval in every direction.
GridKnots(K) == K \in [Dir -> Seq(Int)] /\ \A d \in Dir : Len(K[d]) >= 2

\* One multiplicity per interior knot.
Fits(mult, K) == \A d \in Dir : Len(mult[d]) = Len(K[d]) - 2

\* The space of multiplicities oldMult on oldK lies in that of mult on K.
NestedIn(oldK, oldMult, K, mult) ==
  \A d \in Dir :
    LET oldKnots == {InteriorKnot(oldK[d], i) : i \in DOMAIN oldMult[d]}
    IN  /\ \A i \in DOMAIN mult[d] : InteriorKnot(K[d], i) \notin oldKnots => mult[d][i] = 1
        /\ \A i \in DOMAIN oldMult[d] : \E j \in DOMAIN mult[d] :
             /\ InteriorKnot(K[d], j) = InteriorKnot(oldK[d], i)
             /\ mult[d][j] = oldMult[d][i]

\* slot is to be called in the sequence q of slots; each slot is there once.
Calls(q, slot) == \E i \in DOMAIN q : q[i] = slot
Once(q) == \A i, j \in DOMAIN q : q[i] = q[j] => i = j

\* The base class has connected its slot first.
InOrder(q, s) ==
  \A i, j \in DOMAIN q : q[i] = <<s, "bspline">> /\ q[j] = <<s, "spline">> => j < i

\* Both slots of space s are connected, or still to be called, in their order.
Connected(q, s) == Calls(q, <<s, "spline">>) /\ Calls(q, <<s, "bspline">>) /\ InOrder(q, s)
Waiting(q, s) == (Calls(q, <<s, "spline">>) => Calls(q, <<s, "bspline">>)) /\ InOrder(q, s)

\* The knots K and the multiplicities M after refinement of the directions dirs.
KnotsAfter(K, dirs, n) ==
  [d \in Dir |-> IF d \in dirs THEN RefineKnots(K[d], n[d]) ELSE K[d]]
MultAfter(K, K2, M, dirs) ==
  [d \in Dir |-> IF d \in dirs
                   THEN RefineMultiplicities(M[d], Intervals(K2[d]) \div Intervals(K[d]))
                   ELSE M[d]]

GridOk ==
  /\ GridKnots(knot_coordinates)
  /\ refining \in BOOLEAN
  /\ refining => /\ GridKnots(grid_pre_refinement)
                 /\ refinement_directions \subseteq Dir
                 /\ \E n \in [refinement_directions -> Nat \ {0}] :
                      knot_coordinates = KnotsAfter(grid_pre_refinement, refinement_directions, n)

SignalsOk ==
  /\ refine_signals \in Seq(Slot) /\ Once(refine_signals)
  /\ pending \in Seq(Slot) /\ Once(pending)
  /\ pending # << >> => refining
  /\ \A i \in DOMAIN refine_signals : refine_signals[i][1] \in born
  /\ \A s \in DOMAIN bsplines : Connected(refine_signals, s) /\ Waiting(pending, s)
  /\ \A s \in BSpline : s \in DOMAIN bsplines \/ s \notin born =>
       <<s, "spline">> \notin disconnected /\ <<s, "bspline">> \notin disconnected

ObjectsOk ==
  /\ DOMAIN bsplines \subseteq BSpline \cap born
  /\ DOMAIN bsplines \subseteq DOMAIN interior_mult
  /\ DOMAIN nurbs \subseteq Nurbs
  /\ DOMAIN maps \subseteq Mapping
  /\ \A m \in DOMAIN maps, s \in BSpline :
       maps[m].connection \notin {<<s, "spline">>, <<s, "bspline">>}

\* Space s before its slots are called, between them and after them.
Follows(s) ==
  /\ bsplines[s] = [mult |-> s, space_dim |-> bsplines[s].space_dim,
                    previous |-> bsplines[s].previous, dofs |-> bsplines[s].dofs]
  /\ interior_mult[s] \in [Dir -> Seq(Nat)]
  /\ Calls(pending, <<s, "spline">>) => Fits(interior_mult[s], grid_pre_refinement)
  /\ ~Calls(pending, <<s, "spline">>) =>
       /\ Fits(interior_mult[s], knot_coordinates)
       /\ bsplines[s].space_dim = NumBasisTable(interior_mult[s])
       /\ bsplines[s].previous # << >> =>
            NestedIn(bsplines[s].previous.knots, bsplines[s].previous.mult,
                     knot_coordinates, interior_mult[s])
       /\ ~Calls(pending, <<s, "bspline">>) => bsplines[s].dofs = bsplines[s].space_dim

IInv == GridOk /\ SignalsOk /\ ObjectsOk /\ \A s \in DOMAIN bsplines : Follows(s)

-----------------------------------------------------------------------------
(* Arithmetic of refinement.                                                 *)

\* A multiple of n leaves no rest.
LEMMA Multiple ==
  ASSUME NEW n \in Nat \ {0}, NEW i \in Nat
  PROVE  (i * n) \div n = i /\ (i * n) % n = 0
  OBVIOUS

\* Division with rest.
LEMMA QuotientAndRest ==
  ASSUME NEW n \in Nat \ {0}, NEW i \in Nat
  PROVE  /\ i \div n \in Nat
         /\ i % n \in 0 .. n - 1
         /\ i = (i \div n) * n + (i % n)
<1>1. i \div n \in Nat
  OBVIOUS
<1>2. i % n \in 0 .. n - 1
  OBVIOUS
<1>3. i = (i \div n) * n + (i % n)
  OBVIOUS
<1> QED BY <1>1, <1>2, <1>3

\* A multiple a of n is at most a multiple b only if a is at most b.
LEMMA MultiplesOrdered ==
  ASSUME NEW n \in Nat \ {0}, NEW a \in Nat, NEW b \in Nat
  PROVE  /\ a <= b => a * n <= b * n
         /\ a < b => a * n <= b * n - n
         /\ \A r \in 0 .. n - 1 : a * n + r <= b * n => a <= b /\ (r # 0 => a < b)
         /\ \A r \in 0 .. n - 1 : a * n + r < b * n => a < b
         /\ a * n \in Nat
         /\ b * n \in Nat
<1>1. a <= b => a * n <= b * n
  OBVIOUS
<1>2. a < b => a * n <= b * n - n
  OBVIOUS
<1>3. \A r \in 0 .. n - 1 : a * n + r <= b * n => a <= b /\ (r # 0 => a < b)
  OBVIOUS
<1>4. \A r \in 0 .. n - 1 : a * n + r < b * n => a < b
  OBVIOUS
<1>5. a * n \in Nat /\ b * n \in Nat
  OBVIOUS
<1> QED BY <1>1, <1>2, <1>3, <1>4, <1>5

\* Refinement keeps knot i of direction K as knot i * n.
LEMMA RefinedKnots ==
  ASSUME NEW K \in Seq(Int), Len(K) >= 2, NEW n \in Nat \ {0}
  PROVE  /\ RefineKnots(K, n) \in Seq(Int)
         /\ Len(RefineKnots(K, n)) = Intervals(K) * n + 1
         /\ \A i \in 0 .. Intervals(K) : RefineKnots(K, n)[i * n + 1] = K[i + 1]
<1>a. PICK m : m = Intervals(K)
  OBVIOUS
<1>b. PICK N : N = m * n + 1
  OBVIOUS
<1>1. /\ m \in Nat \ {0} /\ N \in Nat /\ Len(K) = m + 1
      /\ DOMAIN RefineKnots(K, n) = 1 .. N
  <2>1. m \in Nat \ {0} /\ Len(K) = m + 1
    BY <1>a DEF Intervals
  <2>2. m * n \in Nat
    BY <2>1, MultiplesOrdered
  <2>3. DOMAIN RefineKnots(K, n) = 1 .. n * m + 1
    BY <1>a DEF RefineKnots
  <2>4. n * m = m * n
    BY <2>1
  <2> QED BY <1>b, <2>1, <2>2, <2>3, <2>4
<1>0. \A i \in 1 .. N :
        RefineKnots(K, n)[i] = IF (i - 1) % n = 0
          THEN K[1 + (i - 1) \div n]
          ELSE K[1 + (i - 1) \div n]
                 + ((i - 1) % n) * ((K[1 + (i - 1) \div n + 1] - K[1 + (i - 1) \div n]) \div n)
  BY <1>1 DEF RefineKnots
<1>2. ASSUME NEW i \in 1 .. N
      PROVE  RefineKnots(K, n)[i] \in Int
  <2>a. PICK q, r : q = (i - 1) \div n /\ r = (i - 1) % n
    OBVIOUS
  <2>1. q \in Nat /\ r \in 0 .. n - 1 /\ i - 1 = q * n + r
    <3>1. i - 1 \in Nat
      BY <1>1
    <3> QED BY <2>a, <3>1, QuotientAndRest
  <2>2. q <= m /\ (r # 0 => q < m)
    <3>1. q * n + r <= m * n
      BY <1>1, <1>b, <2>1, MultiplesOrdered
    <3> QED BY <1>1, <2>1, <3>1, MultiplesOrdered
  <2>3. K[1 + q] \in Int
    BY <1>1, <2>1, <2>2
  <2>4. CASE r = 0
    <3>1. RefineKnots(K, n)[i] = K[1 + q]
      BY <1>0, <2>4, <2>a
    <3> QED BY <2>3, <3>1
  <2>5. CASE r # 0
    <3>1. RefineKnots(K, n)[i] = K[1 + q] + r * ((K[1 + q + 1] - K[1 + q]) \div n)
      BY <1>0, <2>5, <2>a
    <3>2. K[1 + q + 1] \in Int
      BY <1>1, <2>1, <2>2, <2>5
    <3>3. (K[1 + q + 1] - K[1 + q]) \div n \in Int
      BY <2>3, <3>2
    <3> QED BY <2>1, <2>3, <3>1, <3>3
  <2> QED BY <2>4, <2>5
<1>3. RefineKnots(K, n) \in Seq(Int) /\ Len(RefineKnots(K, n)) = N
  <2>1. RefineKnots(K, n) = [i \in 1 .. N |-> RefineKnots(K, n)[i]]
    BY <1>1 DEF RefineKnots
  <2>2. RefineKnots(K, n) \in [1 .. N -> Int]
    BY <1>2, <2>1
  <2> QED BY <1>1, <2>2
<1>4. ASSUME NEW i \in 0 .. m
      PROVE  RefineKnots(K, n)[i * n + 1] = K[i + 1]
  <2>1. i * n + 1 \in 1 .. N
    BY <1>b, <1>1, MultiplesOrdered
  <2>a. PICK p : p = i * n
    OBVIOUS
  <2>2. p \div n = i /\ p % n = 0
    BY <2>a, Multiple
  <2>3. p \in Nat /\ p + 1 \in 1 .. N
    <3>1. i \in Nat /\ i <= m
      BY <1>1
    <3>2. p \in Nat /\ p <= m * n
      BY <1>1, <2>a, <3>1, MultiplesOrdered
    <3>3. m * n \in Nat
      BY <1>1, MultiplesOrdered
    <3> QED BY <1>b, <3>2, <3>3
  <2>b. PICK x : x = p + 1
    OBVIOUS
  <2>4. x \in 1 .. N /\ (x - 1) \div n = i /\ (x - 1) % n = 0
    <3>1. x - 1 = p /\ x \in 1 .. N
      BY <2>b, <2>3
    <3> QED BY <2>2, <3>1
  <2>5. RefineKnots(K, n)[p + 1] = K[1 + i]
    BY <1>0, <2>b, <2>4
  <2>6. 1 + i = i + 1
    BY <1>1
  <2> QED BY <2>a, <2>5, <2>6
<1> QED BY <1>a, <1>b, <1>3, <1>4

\* Multiplicity i becomes number i * n; all others are one.
LEMMA RefinedMultiplicities ==
  ASSUME NEW M \in Seq(Nat), NEW n \in Nat \ {0}
  PROVE  /\ RefineMultiplicities(M, n) \in Seq(Nat)
         /\ Len(RefineMultiplicities(M, n)) = (Len(M) + 1) * n - 1
         /\ \A i \in DOMAIN M : /\ i * n \in DOMAIN RefineMultiplicities(M, n)
                                /\ RefineMultiplicities(M, n)[i * n] = M[i]
         /\ \A j \in DOMAIN RefineMultiplicities(M, n) :
               RefineMultiplicities(M, n)[j] = 1 \/ \E i \in DOMAIN M : j = i * n
<1>a. PICK m : m = Len(M)
  OBVIOUS
<1>b. PICK N : N = (m + 1) * n - 1
  OBVIOUS
<1>1. /\ m \in Nat /\ N \in Nat /\ DOMAIN M = 1 .. m /\ (m + 1) * n = N + 1
      /\ RefineMultiplicities(M, n) = [j \in 1 .. N |-> IF j % n = 0 THEN M[j \div n] ELSE 1]
  <2>1. m \in Nat /\ DOMAIN M = 1 .. m
    BY <1>a
  <2>2. m + 1 \in Nat /\ 0 < m + 1 /\ n * (m + 1) = (m + 1) * n
    BY <2>1
  <2>3. N \in Nat /\ (m + 1) * n = N + 1
    <3>1. (m + 1) * n \in Nat /\ 0 * n <= (m + 1) * n - n
      BY <2>2, MultiplesOrdered
    <3> QED BY <1>b, <3>1
  <2> QED BY <1>a, <1>b, <2>1, <2>2, <2>3 DEF RefineMultiplicities
<1>2. ASSUME NEW j \in 1 .. N, j % n = 0
      PROVE  j \div n \in 1 .. m /\ j = (j \div n) * n
  <2>a. PICK q : q = j \div n
    OBVIOUS
  <2>1. q \in Nat /\ j = q * n
    <3>1. j \in Nat
      BY <1>1
    <3> QED BY <1>2, <2>a, <3>1, QuotientAndRest
  <2>2. q < m + 1
    <3>1. m + 1 \in Nat /\ j < (m + 1) * n
      BY <1>1
    <3>2. q * n = j
      BY <2>1
    <3> QED BY <1>1, <2>1, <3>1, <3>2, MultiplesOrdered
  <2>3. q # 0
    BY <1>1, <2>1
  <2> QED BY <1>1, <2>a, <2>1, <2>2, <2>3
<1>3. /\ RefineMultiplicities(M, n) \in Seq(Nat)
      /\ Len(RefineMultiplicities(M, n)) = N
      /\ DOMAIN RefineMultiplicities(M, n) = 1 .. N
  <2>1. ASSUME NEW j \in 1 .. N
        PROVE  (IF j % n = 0 THEN M[j \div n] ELSE 1) \in Nat
    <3>1. CASE j % n = 0
      <4>1. j \div n \in DOMAIN M
        BY <1>1, <1>2, <3>1
      <4> QED BY <3>1, <4>1
    <3>2. CASE j % n # 0
      BY <3>2
    <3> QED BY <3>1, <3>2
  <2>2. RefineMultiplicities(M, n) \in [1 .. N -> Nat]
    BY <1>1, <2>1
  <2>3. RefineMultiplicities(M, n) \in Seq(Nat) /\ DOMAIN RefineMultiplicities(M, n) = 1 .. N
    <3>1. N \in Nat
      BY <1>1
    <3> QED BY <2>2, <3>1
  <2> QED BY <1>1, <2>3
<1>4. ASSUME NEW i \in 1 .. m
      PROVE  i * n \in 1 .. N /\ RefineMultiplicities(M, n)[i * n] = M[i]
  <2>a. PICK p : p = i * n
    OBVIOUS
  <2>0. i \in Nat /\ i < m + 1 /\ 0 < i /\ m + 1 \in Nat
    BY <1>1
  <2>1. p \in 1 .. N
    <3>1. p <= (m + 1) * n - n /\ p \in Nat
      BY <2>0, <2>a, MultiplesOrdered
    <3>2. p # 0
      BY <2>0, <2>a
    <3> QED BY <1>1, <3>1, <3>2
  <2>2. p \div n = i /\ p % n = 0
    BY <2>0, <2>a, Multiple
  <2>3. RefineMultiplicities(M, n)[p] = M[i]
    BY <1>1, <2>1, <2>2
  <2> QED BY <2>a, <2>1, <2>3
<1>5. ASSUME NEW j \in 1 .. N, RefineMultiplicities(M, n)[j] # 1
      PROVE  \E i \in 1 .. m : j = i * n
  <2>1. j % n = 0
    BY <1>1, <1>5
  <2> QED BY <1>2, <2>1
<1> QED BY <1>a, <1>b, <1>1, <1>3, <1>4, <1>5

\* In one direction, interior knots and multiplicities K and M are found again
\* in K2 and M2, where all others have multiplicity one.
GoesOver(K, M, K2, M2) ==
  /\ K2 \in Seq(Int) /\ Len(K2) >= 2
  /\ M2 \in Seq(Nat) /\ Len(M2) = Len(K2) - 2
  /\ \A i \in DOMAIN M : \E j \in DOMAIN M2 : K2[j + 1] = K[i + 1] /\ M2[j] = M[i]
  /\ \A j \in DOMAIN M2 : M2[j] = 1 \/ \E i \in DOMAIN M : K2[j + 1] = K[i + 1]

\* Refinement of one direction.
LEMMA RefinedDirection ==
  ASSUME NEW K \in Seq(Int), Len(K) >= 2, NEW M \in Seq(Nat), Len(M) = Len(K) - 2,
         NEW f \in Nat \ {0}
  PROVE  GoesOver(K, M, RefineKnots(K, f),
                  RefineMultiplicities(M, Intervals(RefineKnots(K, f)) \div Intervals(K)))
<1>a. PICK m : m = Intervals(K)
  OBVIOUS
<1>b. PICK p : p = m * f
  OBVIOUS
<1>c. PICK K2 : K2 = RefineKnots(K, f)
  OBVIOUS
<1>d. PICK M2 : M2 = RefineMultiplicities(M, f)
  OBVIOUS
<1>1. m \in Nat \ {0} /\ Len(M) + 1 = m /\ Len(K) = m + 1 /\ DOMAIN M = 1 .. Len(M)
  BY <1>a DEF Intervals
<1>2. p \in Nat \ {0}
  BY <1>1, <1>b
<1>3. /\ K2 \in Seq(Int) /\ Len(K2) = p + 1
      /\ \A i \in 0 .. m : K2[i * f + 1] = K[i + 1]
  BY <1>a, <1>b, <1>c, RefinedKnots
<1>4. Intervals(K2) \div Intervals(K) = f
  <2>1. Intervals(K2) = p
    BY <1>2, <1>3 DEF Intervals
  <2>2. (f * m) \div m = f
    BY <1>1, Multiple
  <2>3. f * m = p
    BY <1>1, <1>b
  <2> QED BY <1>a, <2>1, <2>2, <2>3
<1>5. /\ M2 \in Seq(Nat) /\ Len(M2) = p - 1
      /\ \A i \in DOMAIN M : i * f \in DOMAIN M2 /\ M2[i * f] = M[i]
      /\ \A j \in DOMAIN M2 : M2[j] = 1 \/ \E i \in DOMAIN M : j = i * f
  BY <1>1, <1>b, <1>d, RefinedMultiplicities
<1>6. \A i \in DOMAIN M : i \in 0 .. m
  BY <1>1
<1>7. \A i \in DOMAIN M : \E j \in DOMAIN M2 : K2[j + 1] = K[i + 1] /\ M2[j] = M[i]
  BY <1>3, <1>5, <1>6
<1>8. \A j \in DOMAIN M2 : M2[j] = 1 \/ \E i \in DOMAIN M : K2[j + 1] = K[i + 1]
  BY <1>3, <1>5, <1>6
<1>9. Len(K2) >= 2 /\ Len(M2) = Len(K2) - 2
  BY <1>2, <1>3, <1>5
<1>10. GoesOver(K, M, K2, M2)
  BY <1>3, <1>5, <1>7, <1>8, <1>9 DEF GoesOver
<1> QED BY <1>c, <1>d, <1>4, <1>10

\* A direction has an interval.
LEMMA AnInterval ==
  ASSUME NEW K \in Seq(Int), Len(K) >= 2
  PROVE  Intervals(K) \in Nat \ {0}
<1>1. Len(K) \in Nat
  OBVIOUS
<1>2. \A a \in Nat : a >= 2 => a - 1 \in Nat \ {0}
  BY Z3
<1> QED BY <1>1, <1>2 DEF Intervals

\* The grid after a refinement is a grid.
LEMMA RefinedGrid ==
  ASSUME NEW K, GridKnots(K), NEW dirs \in SUBSET Dir, NEW n \in [dirs -> Nat \ {0}]
  PROVE  GridKnots(KnotsAfter(K, dirs, n))
<1>1. ASSUME NEW d \in Dir
      PROVE  KnotsAfter(K, dirs, n)[d] \in Seq(Int) /\ Len(KnotsAfter(K, dirs, n)[d]) >= 2
  <2>1. K[d] \in Seq(Int) /\ Len(K[d]) >= 2
    BY DEF GridKnots
  <2>2. CASE d \in dirs
    <3>a. PICK f, m : f = n[d] /\ m = Intervals(K[d])
      OBVIOUS
    <3>1. f \in Nat \ {0} /\ m \in Nat \ {0}
      <4>1. f \in Nat \ {0}
        BY <2>2, <3>a
      <4>2. m \in Nat \ {0}
        BY <2>1, <3>a, AnInterval
      <4> QED BY <4>1, <4>2
    <3>2. RefineKnots(K[d], f) \in Seq(Int) /\ Len(RefineKnots(K[d], f)) = m * f + 1
      BY <2>1, <3>a, <3>1, RefinedKnots
    <3>3. m * f + 1 >= 2
      BY <3>1
    <3> QED BY <2>2, <3>a, <3>2, <3>3 DEF KnotsAfter
  <2>3. CASE d \notin dirs
    BY <2>1, <2>3 DEF KnotsAfter
  <2> QED BY <2>2, <2>3
<1> QED BY <1>1 DEF GridKnots, KnotsAfter

\* What the slot of a space does to its multiplicities: they fit the refined
\* grid and keep the space that was there.
LEMMA RefinedSpace ==
  ASSUME NEW K, GridKnots(K), NEW M \in [Dir -> Seq(Nat)], Fits(M, K),
         NEW dirs \in SUBSET Dir, NEW n \in [dirs -> Nat \ {0}],
         NEW K2, K2 = KnotsAfter(K, dirs, n)
  PROVE  /\ MultAfter(K, K2, M, dirs) \in [Dir -> Seq(Nat)]
         /\ Fits(MultAfter(K, K2, M, dirs), K2)
         /\ NestedIn(K, M, K2, MultAfter(K, K2, M, dirs))
<1>a. PICK M2 : M2 = MultAfter(K, K2, M, dirs)
  OBVIOUS
<1>1. ASSUME NEW d \in Dir
      PROVE  GoesOver(K[d], M[d], K2[d], M2[d])
  <2>1. /\ K[d] \in Seq(Int) /\ Len(K[d]) >= 2
        /\ M[d] \in Seq(Nat) /\ Len(M[d]) = Len(K[d]) - 2
    BY DEF GridKnots, Fits
  <2>2. CASE d \notin dirs
    <3>1. K2[d] = K[d] /\ M2[d] = M[d]
      BY <1>a, <2>2 DEF KnotsAfter, MultAfter
    <3> QED BY <2>1, <3>1 DEF GoesOver
  <2>3. CASE d \in dirs
    <3>1. /\ K2[d] = RefineKnots(K[d], n[d])
          /\ M2[d] = RefineMultiplicities(M[d], Intervals(K2[d]) \div Intervals(K[d]))
      BY <1>a, <2>3 DEF KnotsAfter, MultAfter
    <3>2. n[d] \in Nat \ {0}
      BY <2>3
    <3>3. GoesOver(K[d], M[d], RefineKnots(K[d], n[d]),
             RefineMultiplicities(M[d], Intervals(RefineKnots(K[d], n[d])) \div Intervals(K[d])))
      BY <2>1, <3>2, RefinedDirection
    <3> QED BY <3>1, <3>3
  <2> QED BY <2>2, <2>3
<1>2. M2 = [d \in Dir |-> M2[d]]
  BY <1>a DEF MultAfter
<1>3. M2 \in [Dir -> Seq(Nat)]
  BY <1>1, <1>2 DEF GoesOver
<1>4. Fits(M2, K2)
  BY <1>1 DEF Fits, GoesOver
<1>5. NestedIn(K, M, K2, M2)
  <2>1. ASSUME NEW d \in Dir
        PROVE  /\ \A i \in DOMAIN M2[d] :
                    InteriorKnot(K2[d], i) \notin {InteriorKnot(K[d], k) : k \in DOMAIN M[d]}
                      => M2[d][i] = 1
               /\ \A i \in DOMAIN M[d] : \E j \in DOMAIN M2[d] :
                    /\ InteriorKnot(K2[d], j) = InteriorKnot(K[d], i)
                    /\ M2[d][j] = M[d][i]
    BY <1>1 DEF InteriorKnot, GoesOver
  <2> QED BY <2>1 DEF NestedIn
<1> QED BY <1>a, <1>3, <1>4, <1>5

-----------------------------------------------------------------------------
(* How many functions a space has.                                           *)

\* What is in Repeated, one element at a time.
LEMMA RepeatedElements ==
  ASSUME NEW m
  PROVE  \A x : x \in Repeated(m) <=> \E i \in DOMAIN m : \E k \in 1 .. m[i] : x = <<i, k>>
  BY DEF Repeated

\* Knots are repeated finitely often.
LEMMA RepeatedFinite ==
  ASSUME NEW b \in Nat, NEW m \in Seq(1 .. b)
  PROVE  IsFiniteSet(Repeated(m)) /\ Cardinality(Repeated(m)) \in Nat
<1>1. PICK L : L = Len(m) /\ L \in Nat /\ DOMAIN m = 1 .. L
  OBVIOUS
<1>2. IsFiniteSet(1 .. L) /\ IsFiniteSet(1 .. b)
  BY <1>1, FS_Interval
<1>3. IsFiniteSet((1 .. L) \X (1 .. b))
  BY <1>2, FS_Product
<1>4. Repeated(m) \subseteq (1 .. L) \X (1 .. b)
  <2>1. ASSUME NEW i \in DOMAIN m, NEW k \in 1 .. m[i]
        PROVE  <<i, k>> \in (1 .. L) \X (1 .. b)
    <3>1. m[i] \in 1 .. b
      OBVIOUS
    <3> QED BY <1>1, <3>1
  <2> QED BY <2>1, RepeatedElements
<1>5. IsFiniteSet(Repeated(m))
  BY <1>3, <1>4, FS_Subset
<1> QED BY <1>5, FS_CardinalityType

\* A map that is one to one and onto keeps the number of elements.
LEMMA SameNumber ==
  ASSUME NEW S, NEW T, NEW f \in [S -> T], IsFiniteSet(S),
         \A x, y \in S : f[x] = f[y] => x = y,
         \A t \in T : \E x \in S : f[x] = t
  PROVE  IsFiniteSet(T) /\ Cardinality(T) = Cardinality(S)
<1>1. f \in Injection(S, T)
  BY DEF Injection, IsInjective
<1>2. f \in Surjection(S, T)
  BY DEF Surjection
<1>3. ExistsBijection(S, T)
  BY <1>1, <1>2 DEF Bijection, ExistsBijection
<1> QED BY <1>3, FS_Bijection

\* Of the indices before n * k one in n is a multiple of n.
LEMMA NumberOfNonMultiples ==
  ASSUME NEW n \in Nat \ {0}, NEW k \in Nat \ {0}
  PROVE  LET J == {j \in 1 .. n * k - 1 : j % n # 0}
         IN  IsFiniteSet(J) /\ Cardinality(J) = (n * k - 1) - (k - 1)
<1>a. PICK N, J, P : /\ N = n * k - 1
                     /\ J = {j \in 1 .. N : j % n # 0}
                     /\ P = {j \in 1 .. N : j % n = 0}
  OBVIOUS
<1>0. n * k \in Nat \ {0} /\ N \in Nat
  BY <1>a
<1>1. IsFiniteSet(1 .. N) /\ Cardinality(1 .. N) = N
  BY <1>0, FS_Interval
<1>2. IsFiniteSet(1 .. k - 1) /\ Cardinality(1 .. k - 1) = k - 1
  BY FS_Interval
<1>3. IsFiniteSet(P) /\ Cardinality(P) = k - 1
  <2>1. PICK f : f = [i \in 1 .. k - 1 |-> i * n]
    OBVIOUS
  <2>2. ASSUME NEW i \in 1 .. k - 1
        PROVE  i * n \in P
    <3>1. i \in Nat /\ i >= 1 /\ i + 1 <= k
      OBVIOUS
    <3>2. i * n \in Nat /\ 1 <= i * n
      BY <3>1
    <3>3. (i + 1) * n <= k * n /\ (i + 1) * n = i * n + n /\ k * n = n * k
      BY <3>1
    <3>4. i * n <= N
      BY <1>0, <1>a, <3>2, <3>3
    <3>5. (i * n) % n = 0
      BY <3>1, Multiple
    <3> QED BY <1>0, <1>a, <3>2, <3>4, <3>5
  <2>3. f \in [1 .. k - 1 -> P]
    BY <2>1, <2>2
  <2>4. \A x, y \in 1 .. k - 1 : f[x] = f[y] => x = y
    <3>1. ASSUME NEW x \in 1 .. k - 1, NEW y \in 1 .. k - 1, x * n = y * n
          PROVE  x = y
      <4>1. (x * n) \div n = x /\ (y * n) \div n = y
        BY Multiple
      <4> QED BY <3>1, <4>1
    <3> QED BY <2>1, <3>1
  <2>5. ASSUME NEW p \in P
        PROVE  \E i \in 1 .. k - 1 : f[i] = p
    <3>1. p \in Nat /\ 1 <= p /\ p < n * k /\ p % n = 0
      BY <1>0, <1>a
    <3>2. p \div n \in Nat /\ p = (p \div n) * n + (p % n)
      BY <3>1, QuotientAndRest
    <3>3. PICK q \in Nat : p = n * q
      BY <3>1, <3>2
    <3>4. q >= 1 /\ q < k
      <4>1. q # 0
        BY <3>1, <3>3
      <4>2. ASSUME q >= k
            PROVE  FALSE
        <5>1. n * q >= n * k
          BY <3>3, <4>2
        <5> QED BY <1>0, <3>1, <3>3, <5>1
      <4> QED BY <3>3, <4>1, <4>2
    <3>5. q \in 1 .. k - 1 /\ f[q] = q * n /\ q * n = n * q
      BY <2>1, <3>3, <3>4
    <3> QED BY <3>3, <3>5
  <2> QED BY <1>2, <2>3, <2>4, <2>5, SameNumber
<1>4. J = (1 .. N) \ P /\ (1 .. N) \cap P = P
  BY <1>a
<1>5. IsFiniteSet(J) /\ Cardinality(J) = N - (k - 1)
  <2>1. IsFiniteSet((1 .. N) \ P)
        /\ Cardinality((1 .. N) \ P) = Cardinality(1 .. N) - Cardinality((1 .. N) \cap P)
    BY <1>1, FS_Difference
  <2> QED BY <1>1, <1>3, <1>4, <2>1
<1> QED BY <1>a, <1>5

\* A refined direction has one more function for every knot it has more.
LEMMA RefinedNumber ==
  ASSUME NEW b \in Nat, NEW M \in Seq(1 .. b), NEW n \in Nat \ {0}
  PROVE  Cardinality(Repeated(RefineMultiplicities(M, n)))
           = Cardinality(Repeated(M)) + (n - 1) * (Len(M) + 1)
<1>a. PICK L, N, R, A, J, B :
        /\ L = Len(M) /\ N = n * (L + 1) - 1 /\ R = RefineMultiplicities(M, n)
        /\ A = {<<x[1] * n, x[2]>> : x \in Repeated(M)}
        /\ J = {j \in 1 .. N : j % n # 0}
        /\ B = {<<j, 1>> : j \in J}
  OBVIOUS
<1>0. L \in Nat /\ DOMAIN M = 1 .. L /\ \A i \in 1 .. L : M[i] \in 1 .. b
  BY <1>a
<1>1. n * (L + 1) \in Nat \ {0} /\ N \in Nat
  BY <1>a, <1>0
<1>2. R = [i \in 1 .. N |-> IF i % n = 0 THEN M[i \div n] ELSE 1]
  BY <1>a DEF RefineMultiplicities
<1>3. IsFiniteSet(Repeated(M)) /\ Cardinality(Repeated(M)) \in Nat
  BY RepeatedFinite
<1>4. \A x \in Repeated(M) : \E i \in 1 .. L : \E k \in 1 .. M[i] : x = <<i, k>>
  BY <1>0, RepeatedElements
<1>5. IsFiniteSet(A) /\ Cardinality(A) = Cardinality(Repeated(M))
  <2>1. PICK f : f = [x \in Repeated(M) |-> <<x[1] * n, x[2]>>]
    OBVIOUS
  <2>2. f \in [Repeated(M) -> A] /\ \A t \in A : \E x \in Repeated(M) : f[x] = t
    BY <1>a, <2>1
  <2>3. ASSUME NEW x \in Repeated(M), NEW y \in Repeated(M), f[x] = f[y]
        PROVE  x = y
    <3>1. PICK i \in 1 .. L, k \in Nat : k \in 1 .. M[i] /\ x = <<i, k>>
      BY <1>0, <1>4
    <3>2. PICK j \in 1 .. L, l \in Nat : l \in 1 .. M[j] /\ y = <<j, l>>
      BY <1>0, <1>4
    <3>3. i * n = j * n /\ k = l
      BY <2>1, <2>3, <3>1, <3>2
    <3>4. (i * n) \div n = i /\ (j * n) \div n = j
      BY Multiple
    <3> QED BY <3>1, <3>2, <3>3, <3>4
  <2> QED BY <1>3, <2>2, <2>3, SameNumber
<1>6. IsFiniteSet(J) /\ Cardinality(J) = N - L
  <2>1. L + 1 \in Nat \ {0} /\ (L + 1) - 1 = L
    BY <1>0
  <2> QED BY <1>a, <2>1, NumberOfNonMultiples
<1>7. IsFiniteSet(B) /\ Cardinality(B) = N - L
  <2>1. PICK f : f = [j \in J |-> <<j, 1>>]
    OBVIOUS
  <2>2. f \in [J -> B] /\ (\A t \in B : \E x \in J : f[x] = t)
        /\ \A x, y \in J : f[x] = f[y] => x = y
    BY <1>a, <2>1
  <2> QED BY <1>6, <2>2, SameNumber
<1>8. A \cap B = {}
  <2>1. ASSUME NEW x \in Repeated(M), NEW j \in J, <<x[1] * n, x[2]>> = <<j, 1>>
        PROVE  FALSE
    <3>1. PICK i \in 1 .. L, k \in Nat : k \in 1 .. M[i] /\ x = <<i, k>>
      BY <1>0, <1>4
    <3>2. j = i * n
      BY <2>1, <3>1
    <3>3. (i * n) % n = 0
      BY Multiple
    <3> QED BY <1>a, <3>2, <3>3
  <2> QED BY <1>a, <2>1
<1>9. Repeated(R) = A \cup B
  <2>0. DOMAIN R = 1 .. N
    BY <1>2
  <2>1. ASSUME NEW i \in 1 .. N, NEW k \in 1 .. R[i]
        PROVE  <<i, k>> \in A \cup B
    <3>1. CASE i % n = 0
      <4>0. i \div n \in Nat /\ i = (i \div n) * n + (i % n)
        <5>1. i \in Nat
          OBVIOUS
        <5> QED BY <5>1, QuotientAndRest
      <4>1. PICK q : q = i \div n
        OBVIOUS
      <4>2. q \in Nat /\ i = n * q
        BY <3>1, <4>0, <4>1
      <4>3. q \in 1 .. L
        <5>1. q # 0
          BY <4>2
        <5>2. ASSUME q >= L + 1
              PROVE  FALSE
          <6>1. n * q >= n * (L + 1)
            BY <1>0, <4>2, <5>2
          <6> QED BY <1>a, <1>1, <4>2, <6>1
        <5> QED BY <1>0, <4>2, <5>1, <5>2
      <4>4. R[i] = M[q]
        BY <1>2, <3>1, <4>1
      <4>5. <<q, k>> \in Repeated(M)
        BY <1>0, <4>3, <4>4, RepeatedElements
      <4>6. <<i, k>> = <<<<q, k>>[1] * n, <<q, k>>[2]>>
        BY <4>2
      <4> QED BY <1>a, <4>5, <4>6
    <3>2. CASE i % n # 0
      <4>1. k = 1
        BY <1>2, <3>2
      <4> QED BY <1>a, <3>2, <4>1
    <3> QED BY <3>1, <3>2
  <2>2. ASSUME NEW i \in 1 .. L, NEW k \in 1 .. M[i]
        PROVE  <<i * n, k>> \in Repeated(R)
    <3>1. (i * n) \div n = i /\ (i * n) % n = 0
      BY Multiple
    <3>2. i * n \in 1 .. N
      <4>1. i * n \in Nat /\ 1 <= i * n
        OBVIOUS
      <4>2. i + 1 <= L + 1
        BY <1>0
      <4>3. (i + 1) * n <= (L + 1) * n /\ (i + 1) * n = i * n + n
            /\ (L + 1) * n = n * (L + 1)
        BY <1>0, <4>2
      <4> QED BY <1>a, <1>1, <4>1, <4>3
    <3>3. R[i * n] = M[i]
      BY <1>2, <3>1, <3>2
    <3> QED BY <2>0, <3>2, <3>3, RepeatedElements
  <2>3. ASSUME NEW j \in J
        PROVE  <<j, 1>> \in Repeated(R)
    <3>1. j \in 1 .. N /\ R[j] = 1 /\ 1 \in 1 .. 1
      BY <1>a, <1>2
    <3> QED BY <2>0, <3>1, RepeatedElements
  <2>4. A \subseteq Repeated(R)
    <3>1. ASSUME NEW x \in Repeated(M)
          PROVE  <<x[1] * n, x[2]>> \in Repeated(R)
      BY <1>4, <2>2
    <3> QED BY <1>a, <3>1
  <2>5. B \subseteq Repeated(R)
    BY <1>a, <2>3
  <2>6. Repeated(R) \subseteq A \cup B
    <3>1. ASSUME NEW x \in Repeated(R)
          PROVE  x \in A \cup B
      <4>1. PICK i \in DOMAIN R : \E k \in 1 .. R[i] : x = <<i, k>>
        BY <3>1, RepeatedElements
      <4> QED BY <2>0, <2>1, <4>1
    <3> QED BY <3>1
  <2> QED BY <2>4, <2>5, <2>6
<1>10. Cardinality(A \cup B) = Cardinality(A) + Cardinality(B)
  <2>1. Cardinality(A \cup B) = Cardinality(A) + Cardinality(B) - Cardinality({})
    BY <1>5, <1>7, <1>8, FS_Union
  <2>2. Cardinality({}) = 0
    BY FS_EmptySet
  <2> QED BY <1>0, <1>1, <1>3, <1>5, <1>7, <2>1, <2>2
<1>11. N - L = (n - 1) * (L + 1)
  BY <1>a, <1>0
<1> QED BY <1>a, <1>5, <1>7, <1>9, <1>10, <1>11

\* How many times as many intervals a refined direction has, and how many knots more.
LEMMA RefinedCounts ==
  ASSUME NEW K \in Seq(Int), Len(K) >= 2, NEW f \in Nat \ {0}
  PROVE  /\ Intervals(RefineKnots(K, f)) \div Intervals(K) = f
         /\ Len(RefineKnots(K, f)) - Len(K) = (f - 1) * (Len(K) - 1)
         /\ (f - 1) * (Len(K) - 1) \in Nat
<1>a. PICK m : m = Intervals(K)
  OBVIOUS
<1>b. PICK p : p = m * f
  OBVIOUS
<1>c. PICK l : l = Len(RefineKnots(K, f))
  OBVIOUS
<1>1. m \in Nat \ {0} /\ Len(K) = m + 1
  BY <1>a DEF Intervals
<1>2. p \in Nat \ {0}
  BY <1>1, <1>b
<1>3. l = p + 1
  BY <1>a, <1>b, <1>c, RefinedKnots
<1>4. Intervals(RefineKnots(K, f)) = p
  BY <1>2, <1>3, <1>c DEF Intervals
<1>5. p \div m = f
  <2>1. (f * m) \div m = f
    BY <1>1, Multiple
  <2>2. p = f * m
    BY <1>1, <1>b
  <2> QED BY <2>1, <2>2
<1>6. l - (m + 1) = (f - 1) * m /\ (f - 1) * m \in Nat
  <2>1. (f - 1) * m = p - m
    BY <1>1, <1>b
  <2>2. f - 1 \in Nat
    OBVIOUS
  <2>3. (f - 1) * m \in Nat
    BY <1>1, <2>2
  <2>4. (p + 1) - (m + 1) = p - m
    BY <1>1, <1>2
  <2> QED BY <1>3, <2>1, <2>3, <2>4
<1>7. Len(K) - 1 = m
  BY <1>1
<1> QED BY <1>a, <1>c, <1>1, <1>4, <1>5, <1>6, <1>7

\* Multiplicities stay within their bounds.
LEMMA RefinedBounds ==
  ASSUME NEW b \in Nat \ {0}, NEW M \in Seq(1 .. b), NEW n \in Nat \ {0}
  PROVE  RefineMultiplicities(M, n) \in Seq(1 .. b)
<1>a. PICK M2, p : M2 = RefineMultiplicities(M, n) /\ p = (Len(M) + 1) * n
  OBVIOUS
<1>1. M \in Seq(Nat) /\ \A i \in DOMAIN M : M[i] \in 1 .. b
  OBVIOUS
<1>2. Len(M) + 1 \in Nat \ {0}
  OBVIOUS
<1>3. /\ M2 \in Seq(Nat)
      /\ \A i \in DOMAIN M : i * n \in DOMAIN M2 /\ M2[i * n] = M[i]
      /\ \A j \in DOMAIN M2 : M2[j] = 1 \/ \E i \in DOMAIN M : j = i * n
  BY <1>a, <1>1, <1>2, RefinedMultiplicities
<1>4. \A j \in DOMAIN M2 : M2[j] \in 1 .. b
  BY <1>1, <1>3
<1> QED BY <1>a, <1>3, <1>4

-----------------------------------------------------------------------------
(* The slots.                                                                *)

\* What is left to call after the first slot has been.
LEMMA AfterFirst ==
  ASSUME NEW q \in Seq(Slot), q # << >>, Once(q)
  PROVE  /\ Tail(q) \in Seq(Slot) /\ Once(Tail(q))
         /\ ~Calls(Tail(q), Head(q)) /\ Calls(q, Head(q))
         /\ \A slot : slot # Head(q) => (Calls(Tail(q), slot) <=> Calls(q, slot))
         /\ \A s : InOrder(q, s) => InOrder(Tail(q), s)
<1>a. PICK t : t = Tail(q)
  OBVIOUS
<1>1. /\ t \in Seq(Slot) /\ Len(q) \in Nat \ {0} /\ DOMAIN q = 1 .. Len(q)
      /\ DOMAIN t = 1 .. Len(q) - 1
      /\ \A i \in DOMAIN t : i + 1 \in DOMAIN q /\ t[i] = q[i + 1]
      /\ Head(q) = q[1] /\ 1 \in DOMAIN q
  BY <1>a
<1>2. \A i \in DOMAIN q : i = 1 \/ \E k \in DOMAIN t : i = k + 1
  <2>1. ASSUME NEW i \in DOMAIN q, i # 1
        PROVE  i - 1 \in DOMAIN t /\ i = (i - 1) + 1
    BY <1>1, <2>1
  <2> QED BY <2>1
<1>3. \A i, j \in DOMAIN t : i \in Nat /\ j \in Nat
  BY <1>1
<1>4. Once(t)
  <2>1. ASSUME NEW i \in DOMAIN t, NEW j \in DOMAIN t, t[i] = t[j]
        PROVE  i = j
    <3>1. i + 1 = j + 1
      BY <1>1, <2>1 DEF Once
    <3> QED BY <1>3, <3>1
  <2> QED BY <2>1 DEF Once
<1>5. ~Calls(t, Head(q)) /\ Calls(q, Head(q))
  <2>1. ASSUME NEW i \in DOMAIN t, t[i] = q[1]
        PROVE  FALSE
    <3>1. i + 1 = 1
      BY <1>1, <2>1 DEF Once
    <3> QED BY <1>1, <3>1
  <2> QED BY <1>1, <2>1 DEF Calls
<1>6. \A slot : slot # Head(q) => (Calls(t, slot) <=> Calls(q, slot))
  BY <1>1, <1>2 DEF Calls
<1>7. ASSUME NEW s, InOrder(q, s)
      PROVE  InOrder(t, s)
  <2>1. ASSUME NEW i \in DOMAIN t, NEW j \in DOMAIN t,
               t[i] = <<s, "bspline">>, t[j] = <<s, "spline">>
        PROVE  j < i
    <3>1. j + 1 < i + 1
      BY <1>1, <1>7, <2>1 DEF InOrder
    <3> QED BY <1>3, <3>1
  <2> QED BY <2>1 DEF InOrder
<1> QED BY <1>a, <1>1, <1>4, <1>5, <1>6, <1>7

\* The sequence r is q with new slots of the object x behind it.
Extends(r, q, x) ==
  /\ r \in Seq(Slot) /\ Once(r)
  /\ DOMAIN q \subseteq DOMAIN r /\ \A i \in DOMAIN q : r[i] = q[i]
  /\ \A i \in DOMAIN r \ DOMAIN q : r[i][1] = x

\* Connecting one slot of an object that has none.
LEMMA AppendExtends ==
  ASSUME NEW q \in Seq(Slot), Once(q), NEW x, NEW f, <<x, f>> \in Slot,
         \A i \in DOMAIN q : q[i][1] # x
  PROVE  Extends(Append(q, <<x, f>>), q, x)
<1>a. PICK r, n : r = Append(q, <<x, f>>) /\ n = Len(q)
  OBVIOUS
<1>1. /\ r \in Seq(Slot) /\ n \in Nat /\ DOMAIN q = 1 .. n /\ DOMAIN r = 1 .. n + 1
      /\ \A i \in DOMAIN q : r[i] = q[i]
      /\ r[n + 1] = <<x, f>>
  BY <1>a
<1>2. \A i \in DOMAIN r \ DOMAIN q : i = n + 1
  BY <1>1
<1>3. DOMAIN q \subseteq DOMAIN r
  BY <1>1
<1>4. \A i \in DOMAIN r \ DOMAIN q : r[i][1] = x
  BY <1>1, <1>2
<1>5. Once(r)
  <2>1. ASSUME NEW i \in DOMAIN r, NEW j \in DOMAIN r, r[i] = r[j]
        PROVE  i = j
    <3>1. i \in DOMAIN q <=> j \in DOMAIN q
      BY <1>1, <1>4, <2>1
    <3> QED BY <1>1, <1>2, <2>1, <3>1 DEF Once
  <2> QED BY <2>1 DEF Once
<1> QED BY <1>a, <1>1, <1>3, <1>4, <1>5 DEF Extends

\* Connecting the two slots of a new BSplineSpace.
LEMMA BSplineSlotsExtend ==
  ASSUME NEW q \in Seq(Slot), Once(q), NEW s \in BSpline, \A i \in DOMAIN q : q[i][1] # s
  PROVE  Extends(q \o BSplineSlots(s), q, s) /\ Connected(q \o BSplineSlots(s), s)
<1>a. PICK r, n : r = q \o BSplineSlots(s) /\ n = Len(q)
  OBVIOUS
<1>0. BSplineSlots(s) \in Seq(Slot) /\ Len(BSplineSlots(s)) = 2
      /\ BSplineSlots(s)[1] = <<s, "spline">> /\ BSplineSlots(s)[2] = <<s, "bspline">>
  BY DEF BSplineSlots, Slot
<1>1. /\ r \in Seq(Slot) /\ n \in Nat /\ DOMAIN q = 1 .. n /\ DOMAIN r = 1 .. n + 2
      /\ \A i \in DOMAIN q : r[i] = q[i]
      /\ r[n + 1] = <<s, "spline">> /\ r[n + 2] = <<s, "bspline">>
  <2>1. r \in Seq(Slot) /\ Len(r) = n + 2 /\ n \in Nat
    <3>1. \A b \in Seq(Slot) : q \o b \in Seq(Slot) /\ Len(q \o b) = Len(q) + Len(b)
      OBVIOUS
    <3>2. n \in Nat
      BY <1>a
    <3>3. r \in Seq(Slot) /\ Len(r) = n + Len(BSplineSlots(s))
      BY <1>a, <1>0, <3>1
    <3> QED BY <1>0, <3>2, <3>3
  <2>2. \A i \in 1 .. n + 2 : r[i] = IF i <= n THEN q[i] ELSE BSplineSlots(s)[i - n]
    <3>1. \A b \in Seq(Slot) : \A i \in 1 .. Len(q) + Len(b) :
            (q \o b)[i] = IF i <= Len(q) THEN q[i] ELSE b[i - Len(q)]
      OBVIOUS
    <3>2. \A i \in 1 .. Len(q) + Len(BSplineSlots(s)) :
            (q \o BSplineSlots(s))[i]
              = IF i <= Len(q) THEN q[i] ELSE BSplineSlots(s)[i - Len(q)]
      BY <1>0, <3>1
    <3>3. n + 2 = Len(q) + Len(BSplineSlots(s))
      BY <1>a, <1>0
    <3> QED BY <1>a, <3>2, <3>3
  <2>3. (n + 1) - n = 1 /\ (n + 2) - n = 2 /\ n + 1 \in 1 .. n + 2 /\ n + 2 \in 1 .. n + 2
        /\ ~(n + 1 <= n) /\ ~(n + 2 <= n)
    BY <2>1
  <2>4. r[n + 1] = <<s, "spline">> /\ r[n + 2] = <<s, "bspline">>
    BY <1>0, <2>2, <2>3
  <2>5. DOMAIN q = 1 .. n /\ \A i \in 1 .. n : i \in 1 .. n + 2 /\ i <= n
    BY <1>a, <2>1
  <2> QED BY <2>1, <2>2, <2>4, <2>5
<1>2. \A i \in DOMAIN r \ DOMAIN q : i = n + 1 \/ i = n + 2
  BY <1>1
<1>3. DOMAIN q \subseteq DOMAIN r /\ n + 1 \in DOMAIN r /\ n + 2 \in DOMAIN r
  BY <1>1
<1>4. \A i \in DOMAIN r \ DOMAIN q : r[i][1] = s
  BY <1>1, <1>2
<1>5. Once(r)
  <2>1. ASSUME NEW i \in DOMAIN r, NEW j \in DOMAIN r, r[i] = r[j]
        PROVE  i = j
    <3>1. i \in DOMAIN q <=> j \in DOMAIN q
      BY <1>1, <1>4, <2>1
    <3>2. r[n + 1] # r[n + 2]
      BY <1>1
    <3> QED BY <1>1, <1>2, <2>1, <3>1, <3>2 DEF Once
  <2> QED BY <2>1 DEF Once
<1>6. InOrder(r, s)
  <2>1. ASSUME NEW i \in DOMAIN r, NEW j \in DOMAIN r,
               r[i] = <<s, "bspline">>, r[j] = <<s, "spline">>
        PROVE  j < i
    <3>1. i = n + 2 /\ j = n + 1
      BY <1>1, <1>3, <1>5, <2>1 DEF Once
    <3> QED BY <1>1, <3>1
  <2> QED BY <2>1 DEF InOrder
<1>7. Connected(r, s)
  BY <1>1, <1>3, <1>6 DEF Connected, Calls
<1> QED BY <1>a, <1>1, <1>3, <1>4, <1>5, <1>7 DEF Extends

\* New slots of x leave the slots of the others as they are.
LEMMA ConnectedStays ==
  ASSUME NEW q, NEW r, NEW x, Extends(r, q, x), NEW s, s # x, Connected(q, s)
  PROVE  Connected(r, s)
<1>1. \A i \in DOMAIN r : r[i] = <<s, "spline">> \/ r[i] = <<s, "bspline">> => i \in DOMAIN q /\ q[i] = r[i]
  BY DEF Extends
<1>2. InOrder(r, s)
  BY <1>1 DEF InOrder, Connected
<1> QED BY <1>2 DEF Connected, Calls, Extends

-----------------------------------------------------------------------------
(* The steps.                                                                *)

\* No space, no slot and no refinement.
LEMMA InitIInv ==
  ASSUME GridRefinementAssumption, Init
  PROVE  IInv
<1>1. GridKnots(knot_coordinates)
  BY DEF GridRefinementAssumption, Init, GridKnots
<1>2. DOMAIN bsplines = {} /\ DOMAIN nurbs = {} /\ DOMAIN maps = {}
  BY DEF Init
<1>3. GridOk
  BY <1>1 DEF Init, GridOk
<1>4. SignalsOk
  <2>1. refine_signals = << >> /\ pending = << >> /\ disconnected = {} /\ born = {}
    BY DEF Init
  <2>2. << >> \in Seq(Slot)
    OBVIOUS
  <2>3. DOMAIN << >> = {}
    OBVIOUS
  <2>4. Once(<< >>)
    BY <2>3 DEF Once
  <2> QED BY <1>2, <2>1, <2>2, <2>3, <2>4 DEF SignalsOk
<1>5. ObjectsOk
  BY <1>2 DEF ObjectsOk
<1> QED BY <1>2, <1>3, <1>4, <1>5 DEF IInv

\* A space that no step touches, whose slots stay where they are.
LEMMA FollowsStays ==
  ASSUME NEW s, Follows(s),
         bsplines'[s] = bsplines[s], interior_mult'[s] = interior_mult[s],
         UNCHANGED <<knot_coordinates, grid_pre_refinement>>,
         Calls(pending, <<s, "spline">>)' <=> Calls(pending, <<s, "spline">>),
         Calls(pending, <<s, "bspline">>)' <=> Calls(pending, <<s, "bspline">>)
  PROVE  Follows(s)'
  BY DEF Follows

\* What every constructor does: object x, a new name, connects its slots.
Constructs(x) ==
  /\ ~refining /\ x \notin born
  /\ born' = born \cup {x}
  /\ Extends(refine_signals', refine_signals, x)
  /\ UNCHANGED <<knot_coordinates, grid_pre_refinement, refining, refinement_directions,
                 pending, disconnected>>

\* A new object has no slot yet.
LEMMA NewObject ==
  ASSUME SignalsOk, NEW x, x \notin born
  PROVE  \A i \in DOMAIN refine_signals : refine_signals[i][1] # x
  BY DEF SignalsOk

\* Constructing an object that is no space.
LEMMA ConstructOther ==
  ASSUME IInv, NEW x, Constructs(x), UNCHANGED <<bsplines, interior_mult>>
  PROVE  GridOk' /\ SignalsOk' /\ \A s \in DOMAIN bsplines' : Follows(s)'
<1>1. GridOk'
  BY DEF IInv, GridOk, Constructs
<1>2. \A s \in DOMAIN bsplines : Connected(refine_signals', s)
  <2>1. \A s \in DOMAIN bsplines : Connected(refine_signals, s) /\ s # x
    BY DEF IInv, SignalsOk, ObjectsOk, Constructs
  <2> QED BY <2>1, ConnectedStays DEF Constructs
<1>3. refine_signals' \in Seq(Slot) /\ Once(refine_signals')
  BY DEF Constructs, Extends
<1>4. \A i \in DOMAIN refine_signals' : refine_signals'[i][1] \in born'
  BY DEF IInv, SignalsOk, Constructs, Extends
<1>5. \A s \in BSpline : s \in DOMAIN bsplines' \/ s \notin born' =>
        <<s, "spline">> \notin disconnected' /\ <<s, "bspline">> \notin disconnected'
  BY DEF IInv, SignalsOk, Constructs
<1>6. pending' \in Seq(Slot) /\ Once(pending') /\ (pending' # << >> => refining')
      /\ \A s \in DOMAIN bsplines' : Waiting(pending', s)
  BY DEF IInv, SignalsOk, Constructs
<1>7. SignalsOk'
  BY <1>2, <1>3, <1>4, <1>5, <1>6 DEF SignalsOk
<1>8. \A s \in DOMAIN bsplines' : Follows(s)'
  BY FollowsStays DEF IInv, Constructs
<1> QED BY <1>1, <1>7, <1>8

\* Outside a refinement no slot waits.
LEMMA NothingWaits ==
  ASSUME SignalsOk, ~refining
  PROVE  \A slot : ~Calls(pending, slot)
<1>1. pending = << >>
  BY DEF SignalsOk
<1> QED BY <1>1 DEF Calls

\* A new space with a table of its own.
LEMMA CreateBSplineIInv ==
  ASSUME GridRefinementAssumption, IInv, NEW s \in BSpline, NEW m \in Multiplicity,
         CreateBSplineSpace(s, m)
  PROVE  IInv'
<1>a. PICK mult : mult = [d \in Dir |-> [i \in 1 .. Len(knot_coordinates[d]) - 2 |-> m]]
  OBVIOUS
<1>1. /\ Construct(s) /\ interior_mult' = With(interior_mult, s, mult)
      /\ NewBSpline(s, s, mult)
      /\ refine_signals' = refine_signals \o BSplineSlots(s)
      /\ UNCHANGED <<nurbs, maps, data>>
  BY <1>a DEF CreateBSplineSpace
<1>2. ~refining /\ s \notin born /\ born' = born \cup {s}
      /\ UNCHANGED <<grid_vars, signal_vars, disconnected>>
  BY <1>1 DEF Construct
<1>3. Extends(refine_signals', refine_signals, s) /\ Connected(refine_signals', s)
  BY <1>1, <1>2, NewObject, BSplineSlotsExtend DEF IInv, SignalsOk
<1>4. Constructs(s)
  BY <1>2, <1>3 DEF Constructs, grid_vars, signal_vars
<1>5. mult \in [Dir -> Seq(Nat)] /\ Fits(mult, knot_coordinates)
  <2>1. m \in Nat
    BY DEF GridRefinementAssumption
  <2>2. ASSUME NEW d \in Dir
        PROVE  mult[d] \in Seq(Nat) /\ Len(mult[d]) = Len(knot_coordinates[d]) - 2
    <3>1. PICK n : n = Len(knot_coordinates[d]) - 2
      OBVIOUS
    <3>2. n \in Nat
      BY <3>1 DEF IInv, GridOk, GridKnots
    <3>3. mult[d] = [i \in 1 .. n |-> m]
      BY <1>a, <3>1
    <3>4. [i \in 1 .. n |-> m] \in Seq(Nat) /\ Len([i \in 1 .. n |-> m]) = n
      BY <2>1, <3>2
    <3> QED BY <3>1, <3>3, <3>4
  <2> QED BY <1>a, <2>2 DEF Fits
<1>6. /\ DOMAIN bsplines' = DOMAIN bsplines \cup {s}
      /\ \A r \in DOMAIN bsplines : bsplines'[r] = bsplines[r]
      /\ bsplines'[s] = [mult |-> s, space_dim |-> NumBasisTable(mult),
                         previous |-> << >>, dofs |-> NumBasisTable(mult)]
      /\ s \notin DOMAIN bsplines
  BY <1>1, <1>2 DEF NewBSpline, With, IInv, ObjectsOk
<1>7. /\ interior_mult'[s] = mult /\ DOMAIN interior_mult' = DOMAIN interior_mult \cup {s}
      /\ \A r \in DOMAIN bsplines : interior_mult'[r] = interior_mult[r]
  BY <1>1, <1>6 DEF With, IInv, ObjectsOk
<1>8. GridOk'
  BY <1>4 DEF IInv, GridOk, Constructs
<1>9. SignalsOk'
  <2>1. \A r \in DOMAIN bsplines' : Connected(refine_signals', r)
    <3>1. \A r \in DOMAIN bsplines : Connected(refine_signals, r) /\ r # s
      BY <1>6 DEF IInv, SignalsOk
    <3> QED BY <1>3, <1>6, <3>1, ConnectedStays
  <2>2. refine_signals' \in Seq(Slot) /\ Once(refine_signals')
    BY <1>3 DEF Extends
  <2>3. \A i \in DOMAIN refine_signals' : refine_signals'[i][1] \in born'
    BY <1>2, <1>3 DEF IInv, SignalsOk, Extends
  <2>4. \A r \in BSpline : r \in DOMAIN bsplines' \/ r \notin born' =>
          <<r, "spline">> \notin disconnected' /\ <<r, "bspline">> \notin disconnected'
    BY <1>2, <1>6 DEF IInv, SignalsOk
  <2>5. pending' \in Seq(Slot) /\ Once(pending') /\ (pending' # << >> => refining')
    BY <1>4 DEF IInv, SignalsOk, Constructs
  <2>6. pending' = << >>
    BY <1>2, <1>4 DEF IInv, SignalsOk, Constructs
  <2>7. \A r \in DOMAIN bsplines' : Waiting(pending', r)
    BY <2>6 DEF Waiting, Calls, InOrder
  <2> QED BY <2>1, <2>2, <2>3, <2>4, <2>5, <2>7 DEF SignalsOk
<1>10. ObjectsOk'
  BY <1>1, <1>2, <1>6, <1>7 DEF IInv, ObjectsOk
<1>11. \A r \in DOMAIN bsplines : Follows(r)'
  BY <1>4, <1>6, <1>7, FollowsStays DEF IInv, Constructs
<1>12. Follows(s)'
  <2>1. knot_coordinates' = knot_coordinates /\ \A slot : ~Calls(pending, slot)'
    BY <1>2, <1>4, NothingWaits DEF IInv, Constructs
  <2> QED BY <1>5, <1>6, <1>7, <2>1 DEF Follows
<1> QED BY <1>6, <1>8, <1>9, <1>10, <1>11, <1>12 DEF IInv

\* The other constructors.
LEMMA CreateOtherIInv ==
  ASSUME GridRefinementAssumption, IInv,
         \/ \E w \in Nurbs, s \in BSpline : CreateNURBSSpace(w, s)
         \/ \E m \in Map, r \in Space : CreateIgMapping(m, r)
         \/ \E c \in Cursor, m \in Mapping : ShareIgMappingData(c, m)
         \/ \E c \in Copy, m \in Mapping : CopyIgMapping(c, m)
  PROVE  IInv'
<1>1. ASSUME NEW x, NEW f, <<x, f>> \in Slot, Construct(x),
             refine_signals' = Append(refine_signals, <<x, f>>)
      PROVE  Constructs(x)
  <2>1. ~refining /\ x \notin born /\ born' = born \cup {x}
        /\ UNCHANGED <<grid_vars, signal_vars, disconnected>>
    BY <1>1 DEF Construct
  <2>2. refine_signals \in Seq(Slot) /\ Once(refine_signals)
        /\ \A i \in DOMAIN refine_signals : refine_signals[i][1] # x
    BY <2>1, NewObject DEF IInv, SignalsOk
  <2>3. Extends(refine_signals', refine_signals, x)
    BY <1>1, <2>2, AppendExtends
  <2> QED BY <2>1, <2>3 DEF Constructs, grid_vars, signal_vars
<1>2. ASSUME NEW x, Construct(x), UNCHANGED refine_signals
      PROVE  Constructs(x)
  <2>1. Extends(refine_signals', refine_signals, x)
    BY <1>2 DEF Extends, IInv, SignalsOk
  <2> QED BY <1>2, <2>1 DEF Construct, Constructs, grid_vars, signal_vars
<1>3. ASSUME NEW w \in Nurbs, NEW s \in BSpline, CreateNURBSSpace(w, s)
      PROVE  IInv'
  <2>1. Constructs(w) /\ UNCHANGED <<bsplines, interior_mult>>
    <3>1. <<w, "weights">> \in Slot
      BY DEF Slot
    <3> QED BY <1>1, <1>3, <3>1 DEF CreateNURBSSpace
  <2>2. UNCHANGED maps /\ DOMAIN nurbs' = DOMAIN nurbs \cup {w} /\ born' = born \cup {w}
    BY <1>3, <2>1 DEF CreateNURBSSpace, With, Constructs
  <2>3. ObjectsOk'
    BY <2>1, <2>2 DEF IInv, ObjectsOk
  <2> QED BY <2>1, <2>3, ConstructOther DEF IInv
<1>4. ASSUME NEW x \in Mapping, Constructs(x), UNCHANGED <<bsplines, interior_mult, nurbs>>,
             NEW v, maps' = With(maps, x, v),
             \A s \in BSpline : v.connection \notin {<<s, "spline">>, <<s, "bspline">>}
      PROVE  IInv'
  <2>1. DOMAIN maps' = DOMAIN maps \cup {x} /\ born' = born \cup {x}
        /\ \A m \in DOMAIN maps' : maps'[m] = IF m = x THEN v ELSE maps[m]
    BY <1>4 DEF With, Constructs
  <2>2. ObjectsOk'
    BY <1>4, <2>1 DEF IInv, ObjectsOk
  <2> QED BY <1>4, <2>2, ConstructOther DEF IInv
<1>5. ASSUME NEW m \in Map, NEW r \in Space, CreateIgMapping(m, r)
      PROVE  IInv'
  <2>1. Constructs(m) /\ UNCHANGED <<bsplines, interior_mult, nurbs>>
    <3>1. <<m, "control_mesh">> \in Slot
      BY DEF Slot
    <3> QED BY <1>1, <1>5, <3>1 DEF CreateIgMapping
  <2>2. maps' = With(maps, m, [data |-> m, connection |-> <<m, "control_mesh">>])
    BY <1>5 DEF CreateIgMapping
  <2>3. \A s \in BSpline : [data |-> m, connection |-> <<m, "control_mesh">>].connection
                             \notin {<<s, "spline">>, <<s, "bspline">>}
    OBVIOUS
  <2>4. m \in Mapping
    BY DEF Mapping
  <2> QED BY <1>4, <2>1, <2>2, <2>3, <2>4
<1>6. ASSUME NEW c \in Cursor, NEW m \in Mapping, ShareIgMappingData(c, m)
      PROVE  IInv'
  <2>1. Constructs(c) /\ UNCHANGED <<bsplines, interior_mult, nurbs>>
    BY <1>2, <1>6 DEF ShareIgMappingData
  <2>2. maps' = With(maps, c, [data |-> maps[m].data, connection |-> NoConnection])
    BY <1>6 DEF ShareIgMappingData
  <2>3. \A s \in BSpline : [data |-> maps[m].data, connection |-> NoConnection].connection
                             \notin {<<s, "spline">>, <<s, "bspline">>}
    BY DEF NoConnection
  <2>4. c \in Mapping
    BY DEF Mapping
  <2> QED BY <1>4, <2>1, <2>2, <2>3, <2>4
<1>7. ASSUME NEW c \in Copy, NEW m \in Mapping, CopyIgMapping(c, m)
      PROVE  IInv'
  <2>1. Constructs(c) /\ UNCHANGED <<bsplines, interior_mult, nurbs>>
    BY <1>2, <1>7 DEF CopyIgMapping
  <2>2. m \in DOMAIN maps /\ maps' = With(maps, c, [data |-> c, connection |-> maps[m].connection])
    BY <1>7 DEF CopyIgMapping
  <2>3. \A s \in BSpline : [data |-> c, connection |-> maps[m].connection].connection
                             \notin {<<s, "spline">>, <<s, "bspline">>}
    BY <2>2 DEF IInv, ObjectsOk
  <2>4. c \in Mapping
    BY DEF Mapping
  <2> QED BY <1>4, <2>1, <2>2, <2>3, <2>4
<1> QED BY <1>3, <1>5, <1>6, <1>7

\* Objects die: those that live keep their slots, for what a destructor closes
\* is a connection of the object that dies, or one of a mapping.
LEMMA ReleaseIInv ==
  ASSUME GridRefinementAssumption, IInv, NEW o, Release(o)
  PROVE  IInv'
<1>a. PICK live : live = KeptAlive(held \ {o})
  OBVIOUS
<1>1. /\ ~refining
      /\ bsplines' = Restrict(bsplines, DOMAIN bsplines \cap live)
      /\ nurbs' = Restrict(nurbs, DOMAIN nurbs \cap live)
      /\ maps' = Restrict(maps, DOMAIN maps \cap live)
      /\ disconnected' = disconnected \cup {StoredConnection(x) : x \in Live \ live}
      /\ UNCHANGED <<grid_vars, signal_vars, interior_mult, refine_signals, born>>
  BY <1>a DEF Release
<1>2. /\ DOMAIN bsplines' = DOMAIN bsplines \cap live
      /\ \A s \in DOMAIN bsplines' : bsplines'[s] = bsplines[s]
      /\ DOMAIN nurbs' \subseteq DOMAIN nurbs
      /\ DOMAIN maps' \subseteq DOMAIN maps
      /\ \A m \in DOMAIN maps' : maps'[m] = maps[m]
  BY <1>1 DEF Restrict
<1>3. ASSUME NEW s \in BSpline, s \in DOMAIN bsplines' \/ s \notin born, NEW x \in Live \ live
      PROVE  StoredConnection(x) \notin {<<s, "spline">>, <<s, "bspline">>}
  <2>0. /\ DOMAIN bsplines \subseteq BSpline \cap born /\ DOMAIN nurbs \subseteq Nurbs
        /\ DOMAIN maps \subseteq Mapping
        /\ BSpline \cap (Nurbs \cup Mapping) = {} /\ Nurbs \cap Mapping = {}
    BY DEF IInv, ObjectsOk, GridRefinementAssumption
  <2>1. CASE x \in DOMAIN bsplines
    <3>1. StoredConnection(x) = <<x, "bspline">>
      BY <2>0, <2>1 DEF StoredConnection
    <3>2. x # s
      BY <1>2, <1>3, <2>0, <2>1
    <3> QED BY <3>1, <3>2
  <2>2. CASE x \in DOMAIN nurbs
    <3>1. StoredConnection(x) = <<x, "weights">>
      BY <2>0, <2>2 DEF StoredConnection
    <3> QED BY <3>1
  <2>3. CASE x \in DOMAIN maps
    <3>1. StoredConnection(x) = maps[x].connection
      BY <2>0, <2>3 DEF StoredConnection
    <3> QED BY <2>3, <3>1 DEF IInv, ObjectsOk
  <2> QED BY <1>3, <2>1, <2>2, <2>3 DEF Live
<1>4. GridOk'
  BY <1>1 DEF IInv, GridOk, grid_vars, signal_vars
<1>5. SignalsOk'
  <2>1. ASSUME NEW s \in BSpline, s \in DOMAIN bsplines' \/ s \notin born'
        PROVE  <<s, "spline">> \notin disconnected' /\ <<s, "bspline">> \notin disconnected'
    <3>1. s \in DOMAIN bsplines' \/ s \notin born
      BY <1>1, <2>1
    <3>2. <<s, "spline">> \notin disconnected /\ <<s, "bspline">> \notin disconnected
      BY <1>2, <3>1 DEF IInv, SignalsOk
    <3> QED BY <1>1, <1>3, <3>1, <3>2
  <2> QED BY <1>1, <1>2, <2>1 DEF IInv, SignalsOk, signal_vars
<1>6. ObjectsOk'
  BY <1>1, <1>2 DEF IInv, ObjectsOk
<1>7. \A s \in DOMAIN bsplines' : Follows(s)'
  <2>1. UNCHANGED <<knot_coordinates, grid_pre_refinement, pending, interior_mult>>
    BY <1>1 DEF grid_vars, signal_vars
  <2>2. \A s \in DOMAIN bsplines' : Follows(s) /\ bsplines'[s] = bsplines[s]
    BY <1>2 DEF IInv
  <2> QED BY <2>1, <2>2, FollowsStays DEF Calls
<1> QED BY <1>4, <1>5, <1>6, <1>7 DEF IInv

\* A refinement begins: the knots are new, and every space is to follow.
LEMMA RefineIInv ==
  ASSUME GridRefinementAssumption, IInv, NEW dirs \in SUBSET Dir, NEW n \in [dirs -> Subdivisions],
         Refine(dirs, n)
  PROVE  IInv'
<1>1. /\ ~refining /\ refining' = TRUE /\ refinement_directions' = dirs
      /\ pending' = refine_signals
      /\ grid_pre_refinement' = knot_coordinates
      /\ knot_coordinates' = KnotsAfter(knot_coordinates, dirs, n)
      /\ UNCHANGED <<object_vars, client_vars>>
  BY DEF Refine, CallOrder, KnotsAfter
<1>2. n \in [dirs -> Nat \ {0}]
  BY DEF GridRefinementAssumption
<1>3. GridOk'
  <2>1. GridKnots(knot_coordinates)
    BY DEF IInv, GridOk
  <2>2. GridKnots(knot_coordinates')
    BY <1>1, <1>2, <2>1, RefinedGrid
  <2> QED BY <1>1, <1>2, <2>1, <2>2 DEF GridOk, GridKnots, KnotsAfter
<1>4. SignalsOk'
  BY <1>1 DEF IInv, SignalsOk, Connected, Waiting, object_vars, client_vars
<1>5. ObjectsOk'
  BY <1>1 DEF IInv, ObjectsOk, object_vars, client_vars
<1>6. ASSUME NEW s \in DOMAIN bsplines'
      PROVE  Follows(s)'
  <2>1. s \in DOMAIN bsplines /\ Follows(s)
    BY <1>1 DEF IInv, object_vars
  <2>2. Fits(interior_mult[s], knot_coordinates)
    BY <1>1, <2>1, NothingWaits DEF IInv, Follows
  <2>3. Calls(pending', <<s, "spline">>)
    BY <1>1, <2>1 DEF IInv, SignalsOk, Connected
  <2>4. bsplines' = bsplines /\ interior_mult' = interior_mult
    BY <1>1 DEF object_vars
  <2> QED BY <1>1, <2>1, <2>2, <2>3, <2>4 DEF Follows, Fits, Calls
<1> QED BY <1>3, <1>4, <1>5, <1>6 DEF IInv

\* The second slot of a space is first only when the first has been called.
LEMMA FirstInOrder ==
  ASSUME IInv, NEW s \in DOMAIN bsplines, pending # << >>, Head(pending) = <<s, "bspline">>
  PROVE  ~Calls(pending, <<s, "spline">>)
<1>1. pending \in Seq(Slot) /\ InOrder(pending, s)
  BY DEF IInv, SignalsOk, Waiting
<1>2. 1 \in DOMAIN pending /\ pending[1] = <<s, "bspline">> /\ \A j \in DOMAIN pending : ~(j < 1)
  BY <1>1
<1> QED BY <1>1, <1>2 DEF Calls, InOrder

\* The first slot to call is called or passed over: the others still wait.
LEMMA FirstIsOver ==
  ASSUME IInv, pending # << >>, pending' = Tail(pending),
         UNCHANGED <<knot_coordinates, grid_pre_refinement, refining, refinement_directions, client_vars>>,
         DOMAIN bsplines' = DOMAIN bsplines
  PROVE  /\ GridOk' /\ SignalsOk'
         /\ ~Calls(pending', Head(pending))
         /\ \A slot : slot # Head(pending) => (Calls(pending', slot) <=> Calls(pending, slot))
<1>1. GridOk'
  BY DEF IInv, GridOk
<1>2. pending \in Seq(Slot) /\ Once(pending) /\ refining
  BY DEF IInv, SignalsOk
<1>3. /\ pending' \in Seq(Slot) /\ Once(pending')
      /\ \A slot : slot # Head(pending) => (Calls(pending', slot) <=> Calls(pending, slot))
      /\ ~Calls(pending', Head(pending))
      /\ \A s : InOrder(pending, s) => InOrder(pending', s)
  BY <1>2, AfterFirst
<1>4. ASSUME NEW s \in DOMAIN bsplines
      PROVE  Waiting(pending', s)
  <2>1. Waiting(pending, s) /\ s \in BSpline
    BY DEF IInv, SignalsOk, ObjectsOk
  <2>2. InOrder(pending', s)
    BY <1>3, <2>1 DEF Waiting
  <2>3. ASSUME Calls(pending', <<s, "spline">>)
        PROVE  Calls(pending', <<s, "bspline">>)
    <3>1. Calls(pending, <<s, "spline">>) /\ Calls(pending, <<s, "bspline">>)
      BY <1>3, <2>1, <2>3 DEF Waiting
    <3>2. Head(pending) # <<s, "bspline">>
      BY <3>1, FirstInOrder
    <3> QED BY <1>3, <3>1, <3>2
  <2> QED BY <2>2, <2>3 DEF Waiting
<1> QED BY <1>1, <1>2, <1>3, <1>4 DEF IInv, SignalsOk, client_vars

\* The slot of the base class.
LEMMA SplineSlotIInv ==
  ASSUME GridRefinementAssumption, IInv, NEW s \in BSpline, SplineSlot(s)
  PROVE  IInv'
<1>1. /\ pending # << >> /\ Head(pending) = <<s, "spline">>
      /\ s \in Live
      /\ pending' = Tail(pending)
      /\ UNCHANGED <<knot_coordinates, grid_pre_refinement, refining, refinement_directions,
                     client_vars, nurbs, maps, data>>
  BY DEF SplineSlot, Called, grid_vars
<1>2. s \in DOMAIN bsplines
  BY <1>1 DEF IInv, ObjectsOk, Live, GridRefinementAssumption
<1>a. PICK M, K : M = interior_mult[s] /\ K = grid_pre_refinement
  OBVIOUS
<1>b. PICK M2 : M2 = MultAfter(K, knot_coordinates, M, refinement_directions)
  OBVIOUS
<1>3. bsplines[s] = [mult |-> s, space_dim |-> bsplines[s].space_dim,
                     previous |-> bsplines[s].previous, dofs |-> bsplines[s].dofs]
      /\ M \in [Dir -> Seq(Nat)] /\ Fits(M, K)
  <2>1. Calls(pending, <<s, "spline">>)
    <3>1. 1 \in DOMAIN pending /\ pending[1] = Head(pending)
      BY <1>1 DEF IInv, SignalsOk
    <3> QED BY <1>1, <3>1 DEF Calls
  <2>2. Follows(s)
    BY <1>2 DEF IInv
  <2> QED BY <1>a, <2>1, <2>2 DEF Follows
<1>4. bsplines[s].mult = s /\ Mult(s) = M
  BY <1>a, <1>3 DEF Mult
<1>5. /\ interior_mult' = [interior_mult EXCEPT ![s] = M2]
      /\ bsplines' = [bsplines EXCEPT ![s].previous = [knots |-> K, mult |-> M],
                                     ![s].space_dim = NumBasisTable(M2)]
  <2>1. RefinedMult(M) = M2
    BY <1>a, <1>b DEF RefinedMult, RefineFactor, MultAfter
  <2> QED BY <1>a, <1>4, <2>1 DEF SplineSlot
<1>6. /\ s \in DOMAIN interior_mult /\ DOMAIN interior_mult' = DOMAIN interior_mult
      /\ interior_mult'[s] = M2
      /\ \A r \in DOMAIN bsplines : r # s => interior_mult'[r] = interior_mult[r]
  BY <1>2, <1>5 DEF IInv, ObjectsOk
<1>7. /\ DOMAIN bsplines' = DOMAIN bsplines
      /\ \A r \in DOMAIN bsplines : r # s => bsplines'[r] = bsplines[r]
      /\ bsplines'[s] = [mult |-> s, space_dim |-> NumBasisTable(M2),
                         previous |-> [knots |-> K, mult |-> M], dofs |-> bsplines[s].dofs]
  <2>a. PICK dim, old, dofs : dim = bsplines[s].space_dim /\ old = bsplines[s].previous
                              /\ dofs = bsplines[s].dofs
    OBVIOUS
  <2>1. /\ DOMAIN bsplines' = DOMAIN bsplines
        /\ \A r \in DOMAIN bsplines : r # s => bsplines'[r] = bsplines[r]
    BY <1>5
  <2>2. bsplines[s] = [mult |-> s, space_dim |-> dim, previous |-> old, dofs |-> dofs]
    BY <1>3, <2>a
  <2>3. bsplines'[s] = [[bsplines[s] EXCEPT !.previous = [knots |-> K, mult |-> M]]
                          EXCEPT !.space_dim = NumBasisTable(M2)]
    BY <1>2, <1>5
  <2>4. bsplines'[s] = [mult |-> s, space_dim |-> NumBasisTable(M2),
                        previous |-> [knots |-> K, mult |-> M], dofs |-> dofs]
    <3>1. [bsplines[s] EXCEPT !.previous = [knots |-> K, mult |-> M]]
            = [mult |-> s, space_dim |-> dim, previous |-> [knots |-> K, mult |-> M], dofs |-> dofs]
      BY <2>2
    <3> QED BY <2>3, <3>1
  <2> QED BY <2>a, <2>1, <2>4
<1>8. /\ GridOk' /\ SignalsOk' /\ ~Calls(pending', <<s, "spline">>)
      /\ \A slot : slot # <<s, "spline">> => (Calls(pending', slot) <=> Calls(pending, slot))
  BY <1>1, <1>7, FirstIsOver
<1>9. ObjectsOk'
  BY <1>1, <1>6, <1>7 DEF IInv, ObjectsOk, client_vars
<1>10. \A r \in DOMAIN bsplines : r # s => Follows(r)'
  BY <1>1, <1>6, <1>7, <1>8, FollowsStays DEF IInv
<1>11. /\ M2 \in [Dir -> Seq(Nat)] /\ Fits(M2, knot_coordinates)
       /\ NestedIn(K, M, knot_coordinates, M2)
  <2>1. refining
    BY <1>1 DEF IInv, SignalsOk
  <2>2. PICK n \in [refinement_directions -> Nat \ {0}] :
          knot_coordinates = KnotsAfter(K, refinement_directions, n)
    BY <1>a, <2>1 DEF IInv, GridOk
  <2>3. GridKnots(K) /\ refinement_directions \in SUBSET Dir
    BY <1>a, <2>1 DEF IInv, GridOk
  <2> QED BY <1>b, <1>3, <2>2, <2>3, RefinedSpace
<1>12. Follows(s)'
  <2>1. Calls(pending', <<s, "bspline">>)
    <3>1. Calls(pending, <<s, "spline">>)
      <4>1. 1 \in DOMAIN pending /\ pending[1] = Head(pending)
        BY <1>1 DEF IInv, SignalsOk
      <4> QED BY <1>1, <4>1 DEF Calls
    <3>2. Calls(pending, <<s, "bspline">>)
      BY <1>2, <3>1 DEF IInv, SignalsOk, Waiting
    <3> QED BY <1>8, <3>2
  <2>2. /\ bsplines'[s].space_dim = NumBasisTable(M2)
        /\ bsplines'[s].previous.knots = K /\ bsplines'[s].previous.mult = M
        /\ bsplines'[s] = [mult |-> s, space_dim |-> bsplines'[s].space_dim,
                           previous |-> bsplines'[s].previous, dofs |-> bsplines'[s].dofs]
    BY <1>7
  <2> QED BY <1>1, <1>6, <1>8, <1>11, <2>1, <2>2 DEF Follows
<1> QED BY <1>7, <1>8, <1>9, <1>10, <1>12 DEF IInv

\* The slot of BSplineSpace.
LEMMA BSplineSlotIInv ==
  ASSUME GridRefinementAssumption, IInv, NEW s \in BSpline, BSplineSlot(s)
  PROVE  IInv'
<1>1. /\ pending # << >> /\ Head(pending) = <<s, "bspline">>
      /\ s \in Live
      /\ pending' = Tail(pending)
      /\ bsplines' = [bsplines EXCEPT ![s].dofs = bsplines[s].space_dim]
      /\ UNCHANGED <<knot_coordinates, grid_pre_refinement, refining, refinement_directions,
                     client_vars, interior_mult, nurbs, maps, data>>
  BY DEF BSplineSlot, Called, grid_vars
<1>2. s \in DOMAIN bsplines
  BY <1>1 DEF IInv, ObjectsOk, Live, GridRefinementAssumption
<1>3. Follows(s) /\ ~Calls(pending, <<s, "spline">>)
  BY <1>1, <1>2, FirstInOrder DEF IInv
<1>4. /\ DOMAIN bsplines' = DOMAIN bsplines
      /\ \A r \in DOMAIN bsplines : r # s => bsplines'[r] = bsplines[r]
      /\ bsplines'[s] = [mult |-> s, space_dim |-> bsplines[s].space_dim,
                         previous |-> bsplines[s].previous, dofs |-> bsplines[s].space_dim]
  <2>1. bsplines[s] = [mult |-> s, space_dim |-> bsplines[s].space_dim,
                       previous |-> bsplines[s].previous, dofs |-> bsplines[s].dofs]
    BY <1>3 DEF Follows
  <2> QED BY <1>1, <1>2, <2>1
<1>5. /\ GridOk' /\ SignalsOk'
      /\ \A slot : slot # <<s, "bspline">> => (Calls(pending', slot) <=> Calls(pending, slot))
  BY <1>1, <1>4, FirstIsOver
<1>6. ObjectsOk'
  BY <1>1, <1>4 DEF IInv, ObjectsOk, client_vars
<1>7. \A r \in DOMAIN bsplines : r # s => Follows(r)'
  BY <1>1, <1>4, <1>5, FollowsStays DEF IInv
<1>8. Follows(s)'
  <2>1. ~Calls(pending', <<s, "spline">>)
    BY <1>3, <1>5
  <2>2. /\ bsplines'[s].space_dim = bsplines[s].space_dim
        /\ bsplines'[s].dofs = bsplines'[s].space_dim
        /\ bsplines'[s].previous = bsplines[s].previous
        /\ bsplines'[s] = [mult |-> s, space_dim |-> bsplines'[s].space_dim,
                           previous |-> bsplines'[s].previous, dofs |-> bsplines'[s].dofs]
    BY <1>4
  <2> QED BY <1>1, <1>3, <2>1, <2>2 DEF Follows
<1> QED BY <1>4, <1>5, <1>6, <1>7, <1>8 DEF IInv

\* The other slots, and connections that have been closed.
LEMMA OtherSlotIInv ==
  ASSUME IInv,
         \/ \E w \in Nurbs : WeightsSlot(w)
         \/ \E m \in Map : ControlMeshSlot(m)
         \/ PassOver
  PROVE  IInv'
<1>1. /\ pending # << >> /\ pending' = Tail(pending)
      /\ UNCHANGED <<knot_coordinates, grid_pre_refinement, refining, refinement_directions,
                     client_vars, bsplines, interior_mult, maps>>
      /\ DOMAIN nurbs' = DOMAIN nurbs
  BY DEF WeightsSlot, ControlMeshSlot, PassOver, Called, grid_vars, object_vars
<1>2. \A s \in DOMAIN bsplines : Head(pending) # <<s, "spline">> /\ Head(pending) # <<s, "bspline">>
  <2>1. CASE PassOver
    BY <2>1 DEF PassOver, IInv, SignalsOk, ObjectsOk
  <2>2. CASE \/ \E w \in Nurbs : WeightsSlot(w)
             \/ \E m \in Map : ControlMeshSlot(m)
    <3>1. Head(pending)[2] = "weights" \/ Head(pending)[2] = "control_mesh"
      <4>1. ASSUME NEW o, NEW function, Called(o, function)
            PROVE  Head(pending)[2] = function
        BY <4>1 DEF Called
      <4> QED BY <2>2, <4>1 DEF WeightsSlot, ControlMeshSlot
    <3> QED BY <3>1
  <2> QED BY <2>1, <2>2
<1>3. /\ GridOk' /\ SignalsOk'
      /\ \A slot : slot # Head(pending) => (Calls(pending', slot) <=> Calls(pending, slot))
  BY <1>1, FirstIsOver
<1>4. ObjectsOk'
  BY <1>1 DEF IInv, ObjectsOk, client_vars
<1>5. \A s \in DOMAIN bsplines : Follows(s)'
  BY <1>1, <1>2, <1>3, FollowsStays DEF IInv
<1> QED BY <1>1, <1>3, <1>4, <1>5 DEF IInv

\* Every step keeps the invariant.
LEMMA NextIInv ==
  ASSUME GridRefinementAssumption, ~SharesTables, IInv, [Next]_vars
  PROVE  IInv'
<1>1. CASE UNCHANGED vars
  <2>1. UNCHANGED <<knot_coordinates, grid_pre_refinement, refine_signals, disconnected, refining,
                    refinement_directions, pending, interior_mult, bsplines, nurbs, maps, born>>
    BY <1>1 DEF vars, grid_vars, signal_vars, object_vars, client_vars
  <2> QED BY <2>1 DEF IInv, GridOk, SignalsOk, ObjectsOk, Follows, Calls
<1>2. CASE RefinementDone
  <2>1. /\ pending = << >> /\ refining' = FALSE
        /\ UNCHANGED <<knot_coordinates, grid_pre_refinement, refine_signals, disconnected,
                       refinement_directions, pending, interior_mult, bsplines, nurbs, maps, born>>
    BY <1>2 DEF RefinementDone, grid_vars, object_vars, client_vars
  <2> QED BY <2>1 DEF IInv, GridOk, SignalsOk, ObjectsOk, Follows, Calls
<1>3. ASSUME NEW s \in BSpline, NEW r \in BSpline, CreateOnTableOf(s, r)
      PROVE  FALSE
  BY <1>3 DEF CreateOnTableOf
<1>4. ASSUME NEW dirs \in SUBSET Dir, NEW n \in [dirs -> Subdivisions], Refine(dirs, n)
      PROVE  IInv'
  BY <1>4, RefineIInv
<1>5. ASSUME NEW s \in BSpline, NEW m \in Multiplicity, CreateBSplineSpace(s, m)
      PROVE  IInv'
  BY <1>5, CreateBSplineIInv
<1>6. CASE \/ \E s \in BSpline : \E w \in Nurbs : CreateNURBSSpace(w, s)
           \/ \E m \in Map, r \in Space : CreateIgMapping(m, r)
           \/ \E m \in Mapping, c \in Cursor : ShareIgMappingData(c, m)
           \/ \E m \in Mapping, c \in Copy : CopyIgMapping(c, m)
  BY <1>6, CreateOtherIInv
<1>7. ASSUME NEW o \in Releasable, Release(o)
      PROVE  IInv'
  BY <1>7, ReleaseIInv
<1>8. ASSUME NEW s \in BSpline, SplineSlot(s) \/ BSplineSlot(s)
      PROVE  IInv'
  BY <1>8, SplineSlotIInv, BSplineSlotIInv
<1>9. CASE \/ \E w \in Nurbs : WeightsSlot(w)
           \/ \E m \in Map : ControlMeshSlot(m)
           \/ PassOver
  BY <1>9, OtherSlotIInv
<1> QED BY <1>1, <1>2, <1>3, <1>4, <1>5, <1>6, <1>7, <1>8, <1>9 DEF Next

-----------------------------------------------------------------------------
(* The theorems.                                                             *)

\* Between refinements every space has been told of the last one.
THEOREM RefinementInvariant ==
  ASSUME GridRefinementAssumption, ~SharesTables
  PROVE  Spec => []IInv
<1>1. Init => IInv
  BY InitIInv
<1>2. IInv /\ [Next]_vars => IInv'
  BY NextIInv
<1> QED BY <1>1, <1>2, PTL DEF Spec

\* After every refinement each space has one multiplicity per interior knot of
\* the grid, and as many basis functions and dofs as these give, whatever was
\* created and released, in any dimension, degree and number of subdivisions.
THEOREM SpacesAlwaysFollow ==
  ASSUME GridRefinementAssumption, ~SharesTables
  PROVE  Spec => []SpacesFollowGrid
<1>1. ASSUME IInv
      PROVE  SpacesFollowGrid
  <2>1. ASSUME ~refining, NEW s \in DOMAIN bsplines
        PROVE  /\ \A d \in Dir : Len(Mult(s)[d]) = Len(knot_coordinates[d]) - 2
               /\ bsplines[s].space_dim = NumBasisTable(Mult(s))
               /\ bsplines[s].dofs = bsplines[s].space_dim
    <3>1. Follows(s) /\ \A slot : ~Calls(pending, slot)
      BY <1>1, <2>1, NothingWaits DEF IInv
    <3>2. Mult(s) = interior_mult[s]
      BY <3>1 DEF Follows, Mult
    <3> QED BY <3>1, <3>2 DEF Follows, Fits
  <2> QED BY <2>1 DEF SpacesFollowGrid
<1> QED BY <1>1, RefinementInvariant, PTL

\* The spaces are nested: the knots of a space keep their multiplicity when the
\* grid is refined, and the knots that are new have multiplicity one.
THEOREM SpacesAreNested ==
  ASSUME GridRefinementAssumption, ~SharesTables
  PROVE  Spec => []NestedSpaces
<1>1. ASSUME IInv
      PROVE  NestedSpaces
  <2>1. ASSUME ~refining, NEW s \in DOMAIN bsplines, bsplines[s].previous # << >>
        PROVE  NestedIn(bsplines[s].previous.knots, bsplines[s].previous.mult,
                        knot_coordinates, Mult(s))
    <3>1. Follows(s) /\ \A slot : ~Calls(pending, slot)
      BY <1>1, <2>1, NothingWaits DEF IInv
    <3>2. Mult(s) = interior_mult[s]
      BY <3>1 DEF Follows, Mult
    <3> QED BY <2>1, <3>1, <3>2 DEF Follows
  <2> QED BY <2>1 DEF NestedSpaces, NestedIn
<1> QED BY <1>1, RefinementInvariant, PTL

-----------------------------------------------------------------------------
(* Life times.                                                               *)

\* The members of the objects, and of what kind each object is.
Members ==
  /\ DOMAIN bsplines \subseteq BSpline /\ DOMAIN nurbs \subseteq Nurbs /\ DOMAIN maps \subseteq Mapping
  /\ \A s \in DOMAIN bsplines :
       bsplines[s] = [mult |-> bsplines[s].mult, space_dim |-> bsplines[s].space_dim,
                      previous |-> bsplines[s].previous, dofs |-> bsplines[s].dofs]
  /\ \A w \in DOMAIN nurbs :
       nurbs[w] = [sp_space |-> nurbs[w].sp_space, weights |-> nurbs[w].weights]
  /\ \A d \in DOMAIN data :
       data[d] = [ref_space |-> data[d].ref_space, ctrl_mesh |-> data[d].ctrl_mesh,
                  control_points |-> data[d].control_points]

LivesInv == ReferencesLive /\ Members

\* Nothing lives in a new grid.
LEMMA InitLives ==
  ASSUME Init
  PROVE  LivesInv
<1>1. /\ DOMAIN bsplines = {} /\ DOMAIN nurbs = {} /\ DOMAIN maps = {} /\ DOMAIN data = {}
      /\ held = {}
  BY DEF Init
<1> QED BY <1>1 DEF LivesInv, ReferencesLive, Members, Live

\* A new BSplineSpace, with a table of its own or that of another space.
LEMMA CreateSpaceLives ==
  ASSUME LivesInv, NEW s \in BSpline,
         \/ \E m \in Multiplicity : CreateBSplineSpace(s, m)
         \/ \E r \in BSpline : CreateOnTableOf(s, r)
  PROVE  LivesInv'
<1>1. /\ Construct(s) /\ UNCHANGED <<nurbs, maps, data>>
      /\ \E table, mult : NewBSpline(s, table, mult) /\ table \in DOMAIN interior_mult'
      /\ DOMAIN interior_mult \subseteq DOMAIN interior_mult'
  <2>1. CASE \E m \in Multiplicity : CreateBSplineSpace(s, m)
    <3>1. PICK m \in Multiplicity : CreateBSplineSpace(s, m)
      BY <2>1
    <3>2. PICK mult : mult = [d \in Dir |-> [i \in 1 .. Len(knot_coordinates[d]) - 2 |-> m]]
      OBVIOUS
    <3>3. /\ Construct(s) /\ UNCHANGED <<nurbs, maps, data>> /\ NewBSpline(s, s, mult)
          /\ interior_mult' = With(interior_mult, s, mult)
      BY <3>1, <3>2 DEF CreateBSplineSpace
    <3>4. DOMAIN interior_mult' = DOMAIN interior_mult \cup {s}
      BY <3>3 DEF With
    <3> QED BY <3>3, <3>4
  <2>2. ASSUME NEW r \in BSpline, CreateOnTableOf(s, r)
        PROVE  NewBSpline(s, bsplines[r].mult, Mult(r)) /\ bsplines[r].mult \in DOMAIN interior_mult'
               /\ Construct(s) /\ UNCHANGED <<interior_mult, nurbs, maps, data>>
    BY <2>2 DEF CreateOnTableOf, LivesInv, ReferencesLive
  <2> QED BY <2>1, <2>2
<1>2. PICK table, mult : NewBSpline(s, table, mult) /\ table \in DOMAIN interior_mult'
  BY <1>1
<1>3. /\ DOMAIN bsplines' = DOMAIN bsplines \cup {s}
      /\ \A r \in DOMAIN bsplines : r # s => bsplines'[r] = bsplines[r]
      /\ bsplines'[s] = [mult |-> table, space_dim |-> NumBasisTable(mult),
                         previous |-> << >>, dofs |-> NumBasisTable(mult)]
  BY <1>2 DEF NewBSpline, With
<1>4. held' = held \cup {s} /\ born' = born \cup {s}
  BY <1>1 DEF Construct
<1>5. Members'
  <2>1. bsplines'[s] = [mult |-> bsplines'[s].mult, space_dim |-> bsplines'[s].space_dim,
                        previous |-> bsplines'[s].previous, dofs |-> bsplines'[s].dofs]
    BY <1>3
  <2> QED BY <1>1, <1>3, <2>1 DEF LivesInv, Members
<1>6. ReferencesLive'
  BY <1>1, <1>2, <1>3, <1>4 DEF LivesInv, ReferencesLive, Live
<1> QED BY <1>5, <1>6 DEF LivesInv

\* A new NURBSSpace.
LEMMA CreateNURBSLives ==
  ASSUME LivesInv, NEW w \in Nurbs, NEW s \in BSpline, CreateNURBSSpace(w, s)
  PROVE  LivesInv'
<1>1. /\ DOMAIN nurbs' = DOMAIN nurbs \cup {w}
      /\ \A r \in DOMAIN nurbs : r # w => nurbs'[r] = nurbs[r]
      /\ nurbs'[w] = [sp_space |-> s, weights |-> bsplines[s].space_dim]
  BY DEF CreateNURBSSpace, With
<1>2. held' = held \cup {w} /\ born' = born \cup {w} /\ s \in DOMAIN bsplines
      /\ UNCHANGED <<interior_mult, bsplines, maps, data>>
  BY DEF CreateNURBSSpace, Construct
<1>3. Members'
  BY <1>1, <1>2 DEF LivesInv, Members
<1>4. ReferencesLive'
  BY <1>1, <1>2 DEF LivesInv, ReferencesLive, Live
<1> QED BY <1>3, <1>4 DEF LivesInv

\* A new mapping: x, which uses the data named d.
LEMMA CreateMappingLives ==
  ASSUME LivesInv, NEW x \in Mapping, NEW d, NEW connection,
         Construct(x), UNCHANGED <<interior_mult, bsplines, nurbs>>,
         maps' = With(maps, x, [data |-> d, connection |-> connection]),
         d \in DOMAIN data', DOMAIN data \subseteq DOMAIN data',
         \A e \in DOMAIN data' :
           /\ data'[e].ref_space \in DOMAIN bsplines \cup DOMAIN nurbs
           /\ data'[e] = [ref_space |-> data'[e].ref_space, ctrl_mesh |-> data'[e].ctrl_mesh,
                          control_points |-> data'[e].control_points]
  PROVE  LivesInv'
<1>1. /\ DOMAIN maps' = DOMAIN maps \cup {x}
      /\ \A m \in DOMAIN maps : m # x => maps'[m] = maps[m]
      /\ maps'[x].data = d
  BY DEF With
<1>2. held' = held \cup {x} /\ born' = born \cup {x}
  BY DEF Construct
<1>3. Members'
  BY <1>1, <1>2 DEF LivesInv, Members
<1>4. ReferencesLive'
  BY <1>1, <1>2 DEF LivesInv, ReferencesLive, Live
<1> QED BY <1>3, <1>4 DEF LivesInv

\* The constructors of mappings.
LEMMA MappingsLive ==
  ASSUME LivesInv,
         \/ \E m \in Map, r \in Space : CreateIgMapping(m, r)
         \/ \E m \in Mapping, c \in Cursor : ShareIgMappingData(c, m)
         \/ \E m \in Mapping, c \in Copy : CopyIgMapping(c, m)
  PROVE  LivesInv'
<1>1. ASSUME NEW m \in Map, NEW r \in Space, CreateIgMapping(m, r)
      PROVE  LivesInv'
  <2>a. PICK sizes : sizes = bsplines[BSplineOf(r)].space_dim
    OBVIOUS
  <2>1. /\ DOMAIN data' = DOMAIN data \cup {m}
        /\ \A e \in DOMAIN data : e # m => data'[e] = data[e]
        /\ data'[m] = [ref_space |-> r, ctrl_mesh |-> sizes, control_points |-> TotalBasis(sizes)]
    <3>1. data' = With(data, m, [ref_space |-> r, ctrl_mesh |-> sizes,
                                 control_points |-> TotalBasis(sizes)])
      BY <1>1, <2>a DEF CreateIgMapping
    <3> QED BY <3>1 DEF With
  <2>2. /\ r \in DOMAIN bsplines \cup DOMAIN nurbs /\ m \in Mapping
        /\ Construct(m) /\ UNCHANGED <<interior_mult, bsplines, nurbs>>
        /\ maps' = With(maps, m, [data |-> m, connection |-> <<m, "control_mesh">>])
    BY <1>1 DEF CreateIgMapping, Mapping
  <2>3. \A e \in DOMAIN data' :
          /\ data'[e].ref_space \in DOMAIN bsplines \cup DOMAIN nurbs
          /\ data'[e] = [ref_space |-> data'[e].ref_space, ctrl_mesh |-> data'[e].ctrl_mesh,
                         control_points |-> data'[e].control_points]
    BY <2>1, <2>2 DEF LivesInv, ReferencesLive, Members
  <2> QED BY <2>1, <2>2, <2>3, CreateMappingLives
<1>2. ASSUME NEW m \in Mapping, NEW c \in Cursor, ShareIgMappingData(c, m)
      PROVE  LivesInv'
  <2>1. /\ m \in DOMAIN maps /\ c \in Mapping /\ data' = data
        /\ Construct(c) /\ UNCHANGED <<interior_mult, bsplines, nurbs>>
        /\ maps' = With(maps, c, [data |-> maps[m].data, connection |-> NoConnection])
    BY <1>2 DEF ShareIgMappingData, Mapping
  <2>2. maps[m].data \in DOMAIN data
    BY <2>1 DEF LivesInv, ReferencesLive
  <2>3. \A e \in DOMAIN data' :
          /\ data'[e].ref_space \in DOMAIN bsplines \cup DOMAIN nurbs
          /\ data'[e] = [ref_space |-> data'[e].ref_space, ctrl_mesh |-> data'[e].ctrl_mesh,
                         control_points |-> data'[e].control_points]
    BY <2>1 DEF LivesInv, ReferencesLive, Members
  <2> QED BY <2>1, <2>2, <2>3, CreateMappingLives
<1>3. ASSUME NEW m \in Mapping, NEW c \in Copy, CopyIgMapping(c, m)
      PROVE  LivesInv'
  <2>1. /\ DOMAIN data' = DOMAIN data \cup {c}
        /\ \A e \in DOMAIN data : e # c => data'[e] = data[e]
        /\ data'[c] = data[maps[m].data]
    <3>1. data' = With(data, c, data[maps[m].data])
      BY <1>3 DEF CopyIgMapping
    <3> QED BY <3>1 DEF With
  <2>2. /\ m \in DOMAIN maps /\ c \in Mapping
        /\ Construct(c) /\ UNCHANGED <<interior_mult, bsplines, nurbs>>
        /\ maps' = With(maps, c, [data |-> c, connection |-> maps[m].connection])
    BY <1>3 DEF CopyIgMapping, Mapping
  <2>3. maps[m].data \in DOMAIN data
    BY <2>2 DEF LivesInv, ReferencesLive
  <2>4. \A e \in DOMAIN data' :
          /\ data'[e].ref_space \in DOMAIN bsplines \cup DOMAIN nurbs
          /\ data'[e] = [ref_space |-> data'[e].ref_space, ctrl_mesh |-> data'[e].ctrl_mesh,
                         control_points |-> data'[e].control_points]
    BY <2>1, <2>3 DEF LivesInv, ReferencesLive, Members
  <2> QED BY <2>1, <2>2, <2>4, CreateMappingLives
<1> QED BY <1>1, <1>2, <1>3

\* A client lets go: what a live object keeps alive lives on, for a mapping keeps
\* the BSplineSpace behind its NURBSSpace as well.
LEMMA ReleaseLives ==
  ASSUME GridRefinementAssumption, LivesInv, NEW o, Release(o)
  PROVE  LivesInv'
<1>a. PICK live, roots : roots = held \ {o} /\ live = KeptAlive(roots)
  OBVIOUS
<1>1. /\ held' = roots /\ UNCHANGED <<interior_mult, born>>
      /\ bsplines' = Restrict(bsplines, DOMAIN bsplines \cap live)
      /\ nurbs' = Restrict(nurbs, DOMAIN nurbs \cap live)
      /\ maps' = Restrict(maps, DOMAIN maps \cap live)
      /\ data' = Restrict(data, {maps[x].data : x \in DOMAIN maps \cap live})
  BY <1>a DEF Release
<1>2. /\ DOMAIN bsplines' = DOMAIN bsplines \cap live
      /\ \A s \in DOMAIN bsplines' : bsplines'[s] = bsplines[s]
      /\ DOMAIN nurbs' = DOMAIN nurbs \cap live
      /\ \A w \in DOMAIN nurbs' : nurbs'[w] = nurbs[w]
      /\ DOMAIN maps' = DOMAIN maps \cap live
      /\ \A m \in DOMAIN maps' : maps'[m] = maps[m]
      /\ DOMAIN data' = {maps[x].data : x \in DOMAIN maps \cap live}
      /\ \A d \in DOMAIN data' : data'[d] = data[d]
  BY <1>1 DEF Restrict
<1>3. /\ DOMAIN bsplines \subseteq BSpline /\ DOMAIN nurbs \subseteq Nurbs
      /\ DOMAIN maps \subseteq Mapping
      /\ BSpline \cap (Nurbs \cup Mapping) = {} /\ Nurbs \cap Mapping = {}
  BY DEF LivesInv, Members, GridRefinementAssumption
<1>4. roots \subseteq live /\ \A r \in roots : Keeps(r) \subseteq live
  BY <1>a DEF KeptAlive
<1>5. roots \subseteq DOMAIN bsplines \cup DOMAIN nurbs \cup DOMAIN maps
  BY <1>a DEF LivesInv, ReferencesLive, Live
<1>6. ASSUME NEW m \in DOMAIN maps
      PROVE  /\ maps[m].data \in DOMAIN data
             /\ LET r == data[maps[m].data].ref_space
                IN  Keeps(m) = {r, BSplineOf(r)}
             /\ data[maps[m].data].ref_space \in DOMAIN bsplines \cup DOMAIN nurbs
  <2>1. m \in Mapping /\ m \notin BSpline /\ m \notin Nurbs
    BY <1>3
  <2>2. Keeps(m) = LET r == data[maps[m].data].ref_space IN {r, BSplineOf(r)}
    BY <2>1 DEF Keeps
  <2> QED BY <2>2 DEF LivesInv, ReferencesLive
<1>7. ASSUME NEW w \in DOMAIN nurbs
      PROVE  /\ Keeps(w) = {nurbs[w].sp_space} /\ BSplineOf(w) = nurbs[w].sp_space
             /\ nurbs[w].sp_space \in DOMAIN bsplines
  <2>1. w \in Nurbs /\ w \notin BSpline
    BY <1>3
  <2> QED BY <2>1 DEF Keeps, BSplineOf, LivesInv, ReferencesLive
<1>8. ASSUME NEW s \in DOMAIN bsplines
      PROVE  Keeps(s) = {} /\ BSplineOf(s) = s
  <2>1. s \in BSpline /\ s \notin Nurbs
    BY <1>3
  <2> QED BY <2>1 DEF Keeps, BSplineOf
<1>9. \A r \in roots : Keeps(r) \subseteq DOMAIN bsplines \cup DOMAIN nurbs
  <2>1. ASSUME NEW m \in DOMAIN maps
        PROVE  Keeps(m) \subseteq DOMAIN bsplines \cup DOMAIN nurbs
    <3>1. PICK r : r = data[maps[m].data].ref_space
      OBVIOUS
    <3>2. Keeps(m) = {r, BSplineOf(r)} /\ r \in DOMAIN bsplines \cup DOMAIN nurbs
      BY <1>6, <3>1
    <3>3. BSplineOf(r) \in DOMAIN bsplines
      BY <1>7, <1>8, <3>2
    <3> QED BY <3>2, <3>3
  <2> QED BY <1>5, <1>7, <1>8, <2>1
<1>10. \A x \in live : x \in roots \/ \E r \in roots : x \in Keeps(r)
  BY <1>a DEF KeptAlive
<1>11. \A m \in DOMAIN maps' : m \in roots
  BY <1>2, <1>3, <1>9, <1>10
<1>12. ASSUME NEW m \in DOMAIN maps'
       PROVE  /\ maps[m].data \in DOMAIN data
              /\ data[maps[m].data].ref_space \in DOMAIN bsplines' \cup DOMAIN nurbs'
  <2>1. m \in DOMAIN maps /\ m \in roots
    BY <1>2, <1>11
  <2>2. data[maps[m].data].ref_space \in live
    BY <1>4, <1>6, <2>1
  <2> QED BY <1>2, <1>6, <2>1, <2>2
<1>13. ASSUME NEW w \in DOMAIN nurbs'
       PROVE  nurbs[w].sp_space \in DOMAIN bsplines'
  <2>0. w \in DOMAIN nurbs /\ w \in live
    BY <1>2
  <2>1. CASE w \in roots
    BY <1>2, <1>4, <1>7, <2>0, <2>1
  <2>2. ASSUME NEW r \in roots, w \in Keeps(r)
        PROVE  nurbs[w].sp_space \in live
    <3>1. r \in DOMAIN maps
      BY <1>3, <1>5, <1>7, <1>8, <2>0, <2>2
    <3>2. w = data[maps[r].data].ref_space
      <4>1. w = data[maps[r].data].ref_space \/ w = BSplineOf(data[maps[r].data].ref_space)
        BY <1>6, <2>2, <3>1
      <4>2. BSplineOf(data[maps[r].data].ref_space) \in DOMAIN bsplines
        BY <1>6, <1>7, <1>8, <3>1
      <4> QED BY <1>3, <2>0, <4>1, <4>2
    <3>3. BSplineOf(w) \in Keeps(r)
      BY <1>6, <3>1, <3>2
    <3> QED BY <1>4, <1>7, <2>0, <3>3
  <2> QED BY <1>2, <1>7, <1>10, <2>0, <2>1, <2>2
<1>14. ReferencesLive'
  <2>1. \A s \in DOMAIN bsplines' : bsplines'[s].mult \in DOMAIN interior_mult'
    BY <1>1, <1>2 DEF LivesInv, ReferencesLive
  <2>2. \A w \in DOMAIN nurbs' : nurbs'[w].sp_space \in DOMAIN bsplines'
    BY <1>2, <1>13
  <2>3. \A m \in DOMAIN maps' : maps'[m].data \in DOMAIN data'
    BY <1>2
  <2>4. \A d \in DOMAIN data' : data'[d].ref_space \in DOMAIN bsplines' \cup DOMAIN nurbs'
    BY <1>2, <1>12
  <2>5. held' \subseteq Live'
    BY <1>1, <1>2, <1>4, <1>5 DEF Live
  <2>6. Live' \subseteq born'
    BY <1>1, <1>2 DEF LivesInv, ReferencesLive, Live
  <2> QED BY <2>1, <2>2, <2>3, <2>4, <2>5, <2>6 DEF ReferencesLive
<1>15. Members'
  <2>1. DOMAIN data' \subseteq DOMAIN data
    BY <1>2, <1>12
  <2> QED BY <1>2, <2>1 DEF LivesInv, Members
<1> QED BY <1>14, <1>15 DEF LivesInv

\* A slot of space s has been called.
SlotOf(s, old, dim, dofs) ==
  /\ UNCHANGED <<nurbs, maps, data>>
  /\ DOMAIN interior_mult' = DOMAIN interior_mult
  /\ DOMAIN bsplines' = DOMAIN bsplines
  /\ \A r \in DOMAIN bsplines : r # s => bsplines'[r] = bsplines[r]
  /\ s \in DOMAIN bsplines =>
       bsplines'[s] = [mult |-> bsplines[s].mult, space_dim |-> dim,
                       previous |-> old, dofs |-> dofs]

\* The slots change sizes, never what an object points to.
LEMMA SlotLives ==
  ASSUME LivesInv,
         \/ \E s \in BSpline : SplineSlot(s) \/ BSplineSlot(s)
         \/ \E w \in Nurbs : WeightsSlot(w)
         \/ \E m \in Map : ControlMeshSlot(m)
  PROVE  LivesInv'
<1>1. UNCHANGED <<held, born>>
  BY DEF SplineSlot, BSplineSlot, WeightsSlot, ControlMeshSlot, Called, client_vars
<1>2. ASSUME NEW s, NEW old, NEW dim, NEW dofs, SlotOf(s, old, dim, dofs)
      PROVE  LivesInv'
  <2>1. \A r \in DOMAIN bsplines' :
          /\ bsplines'[r].mult = bsplines[r].mult
          /\ bsplines'[r] = [mult |-> bsplines'[r].mult, space_dim |-> bsplines'[r].space_dim,
                             previous |-> bsplines'[r].previous, dofs |-> bsplines'[r].dofs]
    BY <1>2 DEF SlotOf, LivesInv, Members
  <2>2. ReferencesLive'
    BY <1>1, <1>2, <2>1 DEF SlotOf, LivesInv, ReferencesLive, Live
  <2>3. Members'
    BY <1>2, <2>1 DEF SlotOf, LivesInv, Members
  <2> QED BY <2>2, <2>3 DEF LivesInv
<1>3. ASSUME NEW s \in BSpline, SplineSlot(s)
      PROVE  LivesInv'
  <2>a. PICK new, old, dim : new = RefinedMult(Mult(s))
                             /\ old = [knots |-> grid_pre_refinement, mult |-> Mult(s)]
                             /\ dim = NumBasisTable(new)
    OBVIOUS
  <2>1. /\ interior_mult' = [interior_mult EXCEPT ![bsplines[s].mult] = new]
        /\ bsplines' = [bsplines EXCEPT ![s].previous = old, ![s].space_dim = dim]
        /\ UNCHANGED <<nurbs, maps, data>>
    BY <1>3, <2>a DEF SplineSlot
  <2>2. /\ DOMAIN interior_mult' = DOMAIN interior_mult
        /\ DOMAIN bsplines' = DOMAIN bsplines
        /\ \A r \in DOMAIN bsplines : r # s => bsplines'[r] = bsplines[r]
    BY <2>1
  <2>b. PICK dofs : dofs = bsplines[s].dofs
    OBVIOUS
  <2>3. ASSUME s \in DOMAIN bsplines
        PROVE  bsplines'[s] = [mult |-> bsplines[s].mult, space_dim |-> dim,
                               previous |-> old, dofs |-> dofs]
    <3>a. PICK mult, dim0, old0 :
            bsplines[s] = [mult |-> mult, space_dim |-> dim0, previous |-> old0, dofs |-> dofs]
      BY <2>3, <2>b DEF LivesInv, Members
    <3>1. bsplines'[s] = [[bsplines[s] EXCEPT !.previous = old] EXCEPT !.space_dim = dim]
      BY <2>1, <2>3
    <3>2. [bsplines[s] EXCEPT !.previous = old]
            = [mult |-> mult, space_dim |-> dim0, previous |-> old, dofs |-> dofs]
      BY <3>a
    <3>3. bsplines'[s] = [mult |-> mult, space_dim |-> dim, previous |-> old, dofs |-> dofs]
      BY <3>1, <3>2
    <3> QED BY <3>a, <3>3
  <2>4. SlotOf(s, old, dim, dofs)
    BY <2>1, <2>2, <2>3 DEF SlotOf
  <2> QED BY <1>2, <2>4
<1>4. ASSUME NEW s \in BSpline, BSplineSlot(s)
      PROVE  LivesInv'
  <2>a. PICK old, dim : old = bsplines[s].previous /\ dim = bsplines[s].space_dim
    OBVIOUS
  <2>1. /\ bsplines' = [bsplines EXCEPT ![s].dofs = dim]
        /\ UNCHANGED <<interior_mult, nurbs, maps, data>>
    BY <1>4, <2>a DEF BSplineSlot
  <2>2. /\ DOMAIN bsplines' = DOMAIN bsplines
        /\ \A r \in DOMAIN bsplines : r # s => bsplines'[r] = bsplines[r]
    BY <2>1
  <2>3. ASSUME s \in DOMAIN bsplines
        PROVE  bsplines'[s] = [mult |-> bsplines[s].mult, space_dim |-> dim,
                               previous |-> old, dofs |-> dim]
    <3>1. bsplines[s] = [mult |-> bsplines[s].mult, space_dim |-> dim,
                         previous |-> old, dofs |-> bsplines[s].dofs]
      BY <2>3, <2>a DEF LivesInv, Members
    <3> QED BY <2>1, <2>3, <3>1
  <2>4. SlotOf(s, old, dim, dim)
    BY <2>1, <2>2, <2>3 DEF SlotOf
  <2> QED BY <1>2, <2>4
<1>5. ASSUME NEW w \in Nurbs, WeightsSlot(w)
      PROVE  LivesInv'
  <2>a. PICK sizes : sizes = InsertKnots(nurbs[w].weights)
    OBVIOUS
  <2>1. /\ nurbs' = [nurbs EXCEPT ![w].weights = sizes]
        /\ UNCHANGED <<interior_mult, bsplines, maps, data>>
    BY <1>5, <2>a DEF WeightsSlot
  <2>2. \A r \in DOMAIN nurbs :
          /\ nurbs'[r].sp_space = nurbs[r].sp_space
          /\ nurbs'[r] = [sp_space |-> nurbs'[r].sp_space, weights |-> nurbs'[r].weights]
    BY <2>1 DEF LivesInv, Members
  <2>3. DOMAIN nurbs' = DOMAIN nurbs
    BY <2>1
  <2>4. ReferencesLive'
    BY <1>1, <2>1, <2>2, <2>3 DEF LivesInv, ReferencesLive, Live
  <2>5. Members'
    BY <2>1, <2>2, <2>3 DEF LivesInv, Members
  <2> QED BY <2>4, <2>5 DEF LivesInv
<1>6. ASSUME NEW m \in Map, ControlMeshSlot(m)
      PROVE  LivesInv'
  <2>a. PICK d, mesh, points :
          /\ d = maps[m].data
          /\ mesh = InsertKnots(data[d].ctrl_mesh)
          /\ points = TotalBasis(bsplines[BSplineOf(data[d].ref_space)].space_dim)
    OBVIOUS
  <2>1. /\ data' = [data EXCEPT ![d].ctrl_mesh = mesh, ![d].control_points = points]
        /\ UNCHANGED <<interior_mult, bsplines, nurbs, maps>>
    BY <1>6, <2>a DEF ControlMeshSlot
  <2>2. DOMAIN data' = DOMAIN data /\ \A e \in DOMAIN data : e # d => data'[e] = data[e]
    BY <2>1
  <2>3. ASSUME d \in DOMAIN data
        PROVE  data'[d] = [ref_space |-> data[d].ref_space, ctrl_mesh |-> mesh,
                           control_points |-> points]
    <3>a. PICK space, mesh0, points0 :
            data[d] = [ref_space |-> space, ctrl_mesh |-> mesh0, control_points |-> points0]
      BY <2>3 DEF LivesInv, Members
    <3>1. data'[d] = [[data[d] EXCEPT !.ctrl_mesh = mesh] EXCEPT !.control_points = points]
      BY <2>1, <2>3
    <3>2. [data[d] EXCEPT !.ctrl_mesh = mesh]
            = [ref_space |-> space, ctrl_mesh |-> mesh, control_points |-> points0]
      BY <3>a
    <3>3. data'[d] = [ref_space |-> space, ctrl_mesh |-> mesh, control_points |-> points]
      BY <3>1, <3>2
    <3> QED BY <3>a, <3>3
  <2>4. \A e \in DOMAIN data :
          /\ data'[e].ref_space = data[e].ref_space
          /\ data'[e] = [ref_space |-> data'[e].ref_space, ctrl_mesh |-> data'[e].ctrl_mesh,
                         control_points |-> data'[e].control_points]
    BY <2>2, <2>3 DEF LivesInv, Members
  <2>5. ReferencesLive'
    BY <1>1, <2>1, <2>2, <2>4 DEF LivesInv, ReferencesLive, Live
  <2>6. Members'
    BY <2>1, <2>2, <2>4 DEF LivesInv, Members
  <2> QED BY <2>5, <2>6 DEF LivesInv
<1> QED BY <1>3, <1>4, <1>5, <1>6

\* No step leaves a reference to something that is gone.
LEMMA NextLives ==
  ASSUME GridRefinementAssumption, LivesInv, [Next]_vars
  PROVE  LivesInv'
<1>1. ASSUME UNCHANGED <<object_vars, held, born>>
      PROVE  LivesInv'
  BY <1>1 DEF LivesInv, ReferencesLive, Members, Live, object_vars
<1>2. ASSUME NEW dirs, NEW n, Refine(dirs, n)
      PROVE  LivesInv'
  BY <1>1, <1>2 DEF Refine, client_vars
<1>3. CASE RefinementDone \/ PassOver
  BY <1>1, <1>3 DEF RefinementDone, PassOver, client_vars
<1>4. CASE UNCHANGED vars
  BY <1>1, <1>4 DEF vars, client_vars
<1>5. CASE \E s \in BSpline : \/ \E m \in Multiplicity : CreateBSplineSpace(s, m)
                              \/ \E r \in BSpline : CreateOnTableOf(s, r)
  BY <1>5, CreateSpaceLives
<1>6. CASE \E s \in BSpline, w \in Nurbs : CreateNURBSSpace(w, s)
  BY <1>6, CreateNURBSLives
<1>7. CASE \/ \E m \in Map, r \in Space : CreateIgMapping(m, r)
           \/ \E m \in Mapping, c \in Cursor : ShareIgMappingData(c, m)
           \/ \E m \in Mapping, c \in Copy : CopyIgMapping(c, m)
  BY <1>7, MappingsLive
<1>8. CASE \E o \in Releasable : Release(o)
  BY <1>8, ReleaseLives
<1>9. CASE \/ \E s \in BSpline : SplineSlot(s) \/ BSplineSlot(s)
           \/ \E w \in Nurbs : WeightsSlot(w)
           \/ \E m \in Map : ControlMeshSlot(m)
  BY <1>9, SlotLives
<1> QED BY <1>2, <1>3, <1>4, <1>5, <1>6, <1>7, <1>8, <1>9 DEF Next

\* No live object ever points to one that is gone, however tables and data are
\* shared, mappings copied, and objects let go, in any grid.
THEOREM ReferencesStayLive ==
  ASSUME GridRefinementAssumption
  PROVE  Spec => []ReferencesLive
<1>1. Init => LivesInv
  BY InitLives
<1>2. LivesInv /\ [Next]_vars => LivesInv'
  BY NextLives
<1>3. LivesInv => ReferencesLive
  BY DEF LivesInv
<1> QED BY <1>1, <1>2, <1>3, PTL DEF Spec

-----------------------------------------------------------------------------
(* Types.                                                                    *)

\* The signal, what is left to call, and what has been closed.
SignalTypes ==
  /\ grid_pre_refinement = << >> \/ DOMAIN grid_pre_refinement = Dir
  /\ refine_signals \in Seq(Slot) /\ pending \in Seq(Slot)
  /\ disconnected \subseteq Slot \cup {NoConnection}
  /\ refinement_directions \subseteq Dir
  /\ pending # << >> => refining
  /\ \A m \in DOMAIN maps : maps[m].connection \in Slot \cup {NoConnection}

\* Multiplicities, and how many of everything there are.
SizeTypes ==
  /\ \A s \in DOMAIN interior_mult : interior_mult[s] \in Table
  /\ \A s \in DOMAIN bsplines : bsplines[s].space_dim \in Sizes /\ bsplines[s].dofs \in Sizes
  /\ \A w \in DOMAIN nurbs : nurbs[w].weights \in Sizes
  /\ \A d \in DOMAIN data : data[d].ctrl_mesh \in Sizes

TypeInv == GridOk /\ LivesInv /\ SignalTypes /\ SizeTypes

\* The grid stays one, refined in the directions of the last refinement.
LEMMA NextGrid ==
  ASSUME GridRefinementAssumption, GridOk, [Next]_vars
  PROVE  GridOk'
<1>1. ASSUME UNCHANGED <<knot_coordinates, grid_pre_refinement, refining, refinement_directions>>
      PROVE  GridOk'
  BY <1>1 DEF GridOk
<1>2. ASSUME NEW dirs \in SUBSET Dir, NEW n \in [dirs -> Subdivisions], Refine(dirs, n)
      PROVE  GridOk'
  <2>1. /\ refining' = TRUE /\ refinement_directions' = dirs
        /\ grid_pre_refinement' = knot_coordinates
        /\ knot_coordinates' = KnotsAfter(knot_coordinates, dirs, n)
    BY <1>2 DEF Refine, KnotsAfter
  <2>2. n \in [dirs -> Nat \ {0}]
    BY DEF GridRefinementAssumption
  <2>3. GridKnots(knot_coordinates)
    BY DEF GridOk
  <2>4. GridKnots(knot_coordinates')
    BY <2>1, <2>2, <2>3, RefinedGrid
  <2> QED BY <2>1, <2>2, <2>3, <2>4 DEF GridOk, GridKnots, KnotsAfter
<1>3. CASE RefinementDone
  BY <1>3 DEF RefinementDone, GridOk, grid_vars
<1>4. ASSUME NEW o, Construct(o)
      PROVE  GridOk'
  BY <1>1, <1>4 DEF Construct, grid_vars, signal_vars
<1>5. ASSUME NEW o, NEW f, Called(o, f)
      PROVE  GridOk'
  BY <1>1, <1>5 DEF Called, grid_vars
<1>6. CASE \/ \E s \in BSpline : \/ \E m \in Multiplicity : CreateBSplineSpace(s, m)
                                 \/ \E r \in BSpline : CreateOnTableOf(s, r)
                                 \/ \E w \in Nurbs : CreateNURBSSpace(w, s)
           \/ \E m \in Map, r \in Space : CreateIgMapping(m, r)
           \/ \E m \in Mapping, c \in Cursor : ShareIgMappingData(c, m)
           \/ \E m \in Mapping, c \in Copy : CopyIgMapping(c, m)
  <2>1. \E o : Construct(o)
    BY <1>6 DEF CreateBSplineSpace, CreateOnTableOf, CreateNURBSSpace, CreateIgMapping,
                ShareIgMappingData, CopyIgMapping
  <2> QED BY <1>4, <2>1
<1>7. CASE \/ \E s \in BSpline : SplineSlot(s) \/ BSplineSlot(s)
           \/ \E w \in Nurbs : WeightsSlot(w)
           \/ \E m \in Map : ControlMeshSlot(m)
  <2>1. \E o, f : Called(o, f)
    BY <1>7 DEF SplineSlot, BSplineSlot, WeightsSlot, ControlMeshSlot
  <2> QED BY <1>5, <2>1
<1>8. CASE PassOver \/ UNCHANGED vars
  BY <1>1, <1>8 DEF PassOver, vars, grid_vars, signal_vars
<1>9. ASSUME NEW o, Release(o)
      PROVE  GridOk'
  BY <1>1, <1>9 DEF Release, grid_vars, signal_vars
<1> QED BY <1>2, <1>3, <1>6, <1>7, <1>8, <1>9 DEF Next

\* A space has a natural number of functions in every direction.
LEMMA NumBasisTyped ==
  ASSUME GridRefinementAssumption, NEW mult \in Table
  PROVE  NumBasisTable(mult) \in Sizes
<1>1. ASSUME NEW d \in Dir
      PROVE  NumBasis(Degree, mult[d]) \in Nat
  <2>1. PICK b : b = Degree + 1 /\ b \in Nat
    BY DEF GridRefinementAssumption
  <2>2. mult[d] \in Seq(1 .. b)
    BY <2>1 DEF Table
  <2>3. Cardinality(Repeated(mult[d])) \in Nat
    BY <2>1, <2>2, RepeatedFinite
  <2> QED BY <2>3 DEF NumBasis, GridRefinementAssumption
<1> QED BY <1>1 DEF NumBasisTable, Sizes

\* While the grid is refined, each of its directions has been cut or left.
LEMMA InRefinement ==
  ASSUME GridRefinementAssumption, GridOk, refining, NEW d \in Dir
  PROVE  /\ grid_pre_refinement[d] \in Seq(Int) /\ Len(grid_pre_refinement[d]) >= 2
         /\ knot_coordinates[d] \in Seq(Int) /\ Len(knot_coordinates[d]) >= 2
         /\ d \notin refinement_directions => knot_coordinates[d] = grid_pre_refinement[d]
         /\ d \in refinement_directions =>
              /\ RefineFactor(d) \in Nat \ {0}
              /\ KnotsAdded(d) = (RefineFactor(d) - 1) * (Len(grid_pre_refinement[d]) - 1)
              /\ KnotsAdded(d) \in Nat
<1>1. PICK n \in [refinement_directions -> Nat \ {0}] :
        knot_coordinates = KnotsAfter(grid_pre_refinement, refinement_directions, n)
  BY DEF GridOk
<1>2. /\ grid_pre_refinement[d] \in Seq(Int) /\ Len(grid_pre_refinement[d]) >= 2
      /\ knot_coordinates[d] \in Seq(Int) /\ Len(knot_coordinates[d]) >= 2
  BY DEF GridOk, GridKnots
<1>3. d \notin refinement_directions => knot_coordinates[d] = grid_pre_refinement[d]
  BY <1>1 DEF KnotsAfter
<1>4. ASSUME d \in refinement_directions
      PROVE  /\ RefineFactor(d) \in Nat \ {0}
             /\ KnotsAdded(d) = (RefineFactor(d) - 1) * (Len(grid_pre_refinement[d]) - 1)
             /\ KnotsAdded(d) \in Nat
  <2>a. PICK f, K : f = n[d] /\ K = grid_pre_refinement[d]
    OBVIOUS
  <2>1. f \in Nat \ {0}
    BY <1>4, <2>a
  <2>2. knot_coordinates[d] = RefineKnots(K, f)
    BY <1>1, <1>4, <2>a DEF KnotsAfter
  <2>3. /\ Intervals(RefineKnots(K, f)) \div Intervals(K) = f
        /\ Len(RefineKnots(K, f)) - Len(K) = (f - 1) * (Len(K) - 1)
        /\ (f - 1) * (Len(K) - 1) \in Nat
    BY <1>2, <2>a, <2>1, RefinedCounts
  <2>4. RefineFactor(d) = f
    BY <2>a, <2>2, <2>3 DEF RefineFactor
  <2>5. KnotsAdded(d) = (f - 1) * (Len(K) - 1)
    BY <2>a, <2>2, <2>3 DEF KnotsAdded
  <2> QED BY <2>a, <2>1, <2>3, <2>4, <2>5
<1> QED BY <1>2, <1>3, <1>4

\* A refined table is a table.
LEMMA RefinedTyped ==
  ASSUME GridRefinementAssumption, GridOk, refining, NEW mult \in Table
  PROVE  RefinedMult(mult) \in Table
<1>1. ASSUME NEW d \in Dir
      PROVE  RefinedMult(mult)[d] \in Seq(1 .. Degree + 1)
  <2>1. PICK b : b = Degree + 1 /\ b \in Nat \ {0}
    BY DEF GridRefinementAssumption
  <2>2. mult[d] \in Seq(1 .. b)
    BY <2>1 DEF Table
  <2>3. CASE d \in refinement_directions
    <3>a. PICK f : f = RefineFactor(d)
      OBVIOUS
    <3>1. f \in Nat \ {0}
      BY <2>3, <3>a, InRefinement
    <3>2. RefineMultiplicities(mult[d], f) \in Seq(1 .. b)
      BY <2>1, <2>2, <3>1, RefinedBounds
    <3> QED BY <2>1, <2>3, <3>a, <3>2 DEF RefinedMult
  <2>4. CASE d \notin refinement_directions
    BY <2>1, <2>2, <2>4 DEF RefinedMult
  <2> QED BY <2>3, <2>4
<1> QED BY <1>1 DEF RefinedMult, Table

\* Knots are inserted, never taken away.
LEMMA InsertedTyped ==
  ASSUME GridRefinementAssumption, GridOk, refining, NEW sizes \in Sizes
  PROVE  InsertKnots(sizes) \in Sizes
<1>1. ASSUME NEW d \in Dir
      PROVE  InsertKnots(sizes)[d] \in Nat
  <2>1. sizes[d] \in Nat
    BY DEF Sizes
  <2>2. CASE d \in refinement_directions
    <3>1. KnotsAdded(d) \in Nat
      BY <2>2, InRefinement
    <3> QED BY <2>1, <2>2, <3>1 DEF InsertKnots
  <2>3. CASE d \notin refinement_directions
    BY <2>1, <2>3 DEF InsertKnots
  <2> QED BY <2>2, <2>3
<1> QED BY <1>1 DEF InsertKnots, Sizes

\* Connections are to slots.
LEMMA NextSignalTypes ==
  ASSUME GridRefinementAssumption, TypeInv, [Next]_vars
  PROVE  SignalTypes'
<1>0. SignalTypes /\ GridOk
  BY DEF TypeInv
<1>1. ASSUME UNCHANGED <<grid_vars, signal_vars, maps, refine_signals, disconnected>>
      PROVE  SignalTypes'
  BY <1>0, <1>1 DEF SignalTypes, grid_vars, signal_vars
<1>2. ASSUME NEW o, Construct(o), refine_signals' \in Seq(Slot),
             \A m \in DOMAIN maps' : maps'[m].connection \in Slot \cup {NoConnection}
      PROVE  SignalTypes'
  BY <1>0, <1>2 DEF Construct, SignalTypes, grid_vars, signal_vars
<1>3. ASSUME NEW s \in BSpline, \/ \E m \in Multiplicity : CreateBSplineSpace(s, m)
                                \/ \E r \in BSpline : CreateOnTableOf(s, r)
      PROVE  SignalTypes'
  <2>1. Construct(s) /\ refine_signals' = refine_signals \o BSplineSlots(s) /\ maps' = maps
    BY <1>3 DEF CreateBSplineSpace, CreateOnTableOf
  <2>2. BSplineSlots(s) \in Seq(Slot)
    BY DEF BSplineSlots, Slot
  <2>3. refine_signals' \in Seq(Slot)
    <3>1. \A q, r \in Seq(Slot) : q \o r \in Seq(Slot)
      OBVIOUS
    <3> QED BY <1>0, <2>1, <2>2, <3>1 DEF SignalTypes
  <2> QED BY <1>0, <1>2, <2>1, <2>3 DEF SignalTypes
<1>4. ASSUME NEW o, NEW f, <<o, f>> \in Slot, Construct(o),
             refine_signals' = Append(refine_signals, <<o, f>>)
      PROVE  refine_signals' \in Seq(Slot)
  BY <1>0, <1>4 DEF SignalTypes
<1>5. ASSUME NEW w \in Nurbs, NEW s \in BSpline, CreateNURBSSpace(w, s)
      PROVE  SignalTypes'
  <2>1. Construct(w) /\ refine_signals' = Append(refine_signals, <<w, "weights">>) /\ maps' = maps
    BY <1>5 DEF CreateNURBSSpace
  <2>2. <<w, "weights">> \in Slot
    BY DEF Slot
  <2> QED BY <1>0, <1>2, <1>4, <2>1, <2>2 DEF SignalTypes
<1>6. ASSUME NEW m \in Map, NEW r \in Space, CreateIgMapping(m, r)
      PROVE  SignalTypes'
  <2>1. Construct(m) /\ refine_signals' = Append(refine_signals, <<m, "control_mesh">>)
        /\ maps' = With(maps, m, [data |-> m, connection |-> <<m, "control_mesh">>])
    BY <1>6 DEF CreateIgMapping
  <2>2. <<m, "control_mesh">> \in Slot
    BY DEF Slot
  <2>3. \A x \in DOMAIN maps' : maps'[x].connection \in Slot \cup {NoConnection}
    BY <1>0, <2>1, <2>2 DEF With, SignalTypes
  <2> QED BY <1>2, <1>4, <2>1, <2>2, <2>3
<1>7. ASSUME NEW m \in Mapping, NEW c, ShareIgMappingData(c, m) \/ CopyIgMapping(c, m)
      PROVE  SignalTypes'
  <2>1. /\ m \in DOMAIN maps /\ Construct(c) /\ refine_signals' = refine_signals
        /\ \E d : \E k \in {NoConnection, maps[m].connection} :
             maps' = With(maps, c, [data |-> d, connection |-> k])
    <3>1. CASE ShareIgMappingData(c, m)
      BY <3>1 DEF ShareIgMappingData
    <3>2. CASE CopyIgMapping(c, m)
      BY <3>2 DEF CopyIgMapping
    <3> QED BY <1>7, <3>1, <3>2
  <2>2. PICK d : \E k \in {NoConnection, maps[m].connection} :
                  maps' = With(maps, c, [data |-> d, connection |-> k])
    BY <2>1
  <2>b. PICK k \in {NoConnection, maps[m].connection} :
          maps' = With(maps, c, [data |-> d, connection |-> k])
    BY <2>2
  <2>3. k \in Slot \cup {NoConnection}
    BY <1>0, <2>1 DEF SignalTypes
  <2>4. \A x \in DOMAIN maps' : maps'[x].connection \in Slot \cup {NoConnection}
    BY <1>0, <2>b, <2>3 DEF With, SignalTypes
  <2> QED BY <1>0, <1>2, <2>1, <2>4 DEF SignalTypes
<1>8. ASSUME NEW o, Release(o)
      PROVE  SignalTypes'
  <2>a. PICK live : live = KeptAlive(held \ {o})
    OBVIOUS
  <2>1. /\ disconnected' = disconnected \cup {StoredConnection(x) : x \in Live \ live}
        /\ maps' = Restrict(maps, DOMAIN maps \cap live)
        /\ UNCHANGED <<grid_vars, signal_vars, refine_signals>>
    BY <1>8, <2>a DEF Release
  <2>2. /\ DOMAIN bsplines \subseteq BSpline /\ DOMAIN nurbs \subseteq Nurbs
        /\ DOMAIN maps \subseteq Mapping
        /\ BSpline \cap (Nurbs \cup Mapping) = {} /\ Nurbs \cap Mapping = {}
    BY DEF TypeInv, LivesInv, Members, GridRefinementAssumption
  <2>3. ASSUME NEW x \in Live
        PROVE  StoredConnection(x) \in Slot \cup {NoConnection}
    <3>1. CASE x \in DOMAIN bsplines
      BY <2>2, <3>1 DEF StoredConnection, Slot
    <3>2. CASE x \in DOMAIN nurbs
      <4>1. x \in Nurbs /\ x \notin BSpline
        BY <2>2, <3>2
      <4> QED BY <4>1 DEF StoredConnection, Slot
    <3>3. CASE x \in DOMAIN maps
      <4>1. x \in Mapping /\ x \notin BSpline /\ x \notin Nurbs
        BY <2>2, <3>3
      <4>2. StoredConnection(x) = maps[x].connection
        BY <4>1 DEF StoredConnection
      <4> QED BY <1>0, <3>3, <4>2 DEF SignalTypes
    <3> QED BY <3>1, <3>2, <3>3 DEF Live
  <2>4. disconnected' \subseteq Slot \cup {NoConnection}
    BY <1>0, <2>1, <2>3 DEF SignalTypes
  <2>5. \A m \in DOMAIN maps' : m \in DOMAIN maps /\ maps'[m] = maps[m]
    BY <2>1 DEF Restrict
  <2> QED BY <1>0, <2>1, <2>4, <2>5 DEF SignalTypes, grid_vars, signal_vars
<1>9. ASSUME NEW dirs \in SUBSET Dir, NEW n, Refine(dirs, n)
      PROVE  SignalTypes'
  <2>1. /\ refining' = TRUE /\ refinement_directions' = dirs /\ pending' = refine_signals
        /\ grid_pre_refinement' = knot_coordinates
        /\ UNCHANGED <<maps, refine_signals, disconnected>>
    BY <1>9 DEF Refine, CallOrder, object_vars, client_vars
  <2>2. DOMAIN knot_coordinates = Dir
    BY <1>0 DEF GridOk, GridKnots
  <2> QED BY <1>0, <2>1, <2>2 DEF SignalTypes
<1>10. ASSUME pending # << >>, pending' = Tail(pending),
              UNCHANGED <<grid_vars, refining, refinement_directions, maps, client_vars>>
       PROVE  SignalTypes'
  <2>1. pending \in Seq(Slot) /\ refining
    BY <1>0, <1>10 DEF SignalTypes
  <2>2. pending' \in Seq(Slot)
    BY <1>10, <2>1
  <2> QED BY <1>0, <1>10, <2>1, <2>2 DEF SignalTypes, grid_vars, client_vars
<1>11. CASE \/ \E s \in BSpline : SplineSlot(s) \/ BSplineSlot(s)
            \/ \E w \in Nurbs : WeightsSlot(w)
            \/ \E m \in Map : ControlMeshSlot(m)
  <2>1. (\E o, f : Called(o, f)) /\ maps' = maps
    BY <1>11 DEF SplineSlot, BSplineSlot, WeightsSlot, ControlMeshSlot
  <2> QED BY <1>10, <2>1 DEF Called
<1>12. CASE PassOver
  BY <1>10, <1>12 DEF PassOver, object_vars
<1>13. CASE RefinementDone
  BY <1>0, <1>13 DEF RefinementDone, SignalTypes, grid_vars, object_vars, client_vars
<1>14. CASE UNCHANGED vars
  BY <1>1, <1>14 DEF vars, object_vars, client_vars
<1> QED BY <1>3, <1>5, <1>6, <1>7, <1>8, <1>9, <1>11, <1>12, <1>13, <1>14 DEF Next

\* Sizes are naturals and multiplicities within their bounds.
LEMMA NextSizeTypes ==
  ASSUME GridRefinementAssumption, TypeInv, [Next]_vars
  PROVE  SizeTypes'
<1>0. SizeTypes /\ LivesInv /\ GridOk /\ SignalTypes
  BY DEF TypeInv
<1>1. ASSUME UNCHANGED object_vars
      PROVE  SizeTypes'
  BY <1>0, <1>1 DEF SizeTypes, object_vars
<1>2. ASSUME NEW s, NEW table, NEW mult \in Table, NewBSpline(s, table, mult),
             \/ UNCHANGED interior_mult
             \/ interior_mult' = With(interior_mult, s, mult),
             UNCHANGED <<nurbs, data>>
      PROVE  SizeTypes'
  <2>1. NumBasisTable(mult) \in Sizes
    BY NumBasisTyped
  <2>2. \A r \in DOMAIN bsplines' :
          \/ r \in DOMAIN bsplines /\ bsplines'[r] = bsplines[r]
          \/ bsplines'[r] = [mult |-> table, space_dim |-> NumBasisTable(mult),
                             previous |-> << >>, dofs |-> NumBasisTable(mult)]
    BY <1>2 DEF NewBSpline, With
  <2>3. \A r \in DOMAIN bsplines' : bsplines'[r].space_dim \in Sizes /\ bsplines'[r].dofs \in Sizes
    BY <1>0, <2>1, <2>2 DEF SizeTypes
  <2>4. \A t \in DOMAIN interior_mult' : interior_mult'[t] \in Table
    BY <1>0, <1>2 DEF SizeTypes, With
  <2> QED BY <1>0, <1>2, <2>3, <2>4 DEF SizeTypes
<1>3. ASSUME NEW s \in BSpline, NEW m \in Multiplicity, CreateBSplineSpace(s, m)
      PROVE  SizeTypes'
  <2>a. PICK mult : mult = [d \in Dir |-> [i \in 1 .. Len(knot_coordinates[d]) - 2 |-> m]]
    OBVIOUS
  <2>1. /\ interior_mult' = With(interior_mult, s, mult)
        /\ NewBSpline(s, s, mult) /\ UNCHANGED <<nurbs, data>>
    BY <1>3, <2>a DEF CreateBSplineSpace
  <2>2. m \in 1 .. Degree + 1
    BY DEF GridRefinementAssumption
  <2>3. ASSUME NEW d \in Dir
        PROVE  mult[d] \in Seq(1 .. Degree + 1)
    <3>1. PICK n : n = Len(knot_coordinates[d]) - 2
      OBVIOUS
    <3>2. n \in Nat
      BY <1>0, <3>1 DEF GridOk, GridKnots
    <3>3. mult[d] = [i \in 1 .. n |-> m]
      BY <2>a, <3>1
    <3> QED BY <2>2, <3>2, <3>3
  <2>4. mult \in Table
    BY <2>a, <2>3 DEF Table
  <2> QED BY <1>2, <2>1, <2>4
<1>4. ASSUME NEW s \in BSpline, NEW r \in BSpline, CreateOnTableOf(s, r)
      PROVE  SizeTypes'
  <2>a. PICK table, mult : table = bsplines[r].mult /\ mult = Mult(r)
    OBVIOUS
  <2>1. /\ r \in DOMAIN bsplines
        /\ NewBSpline(s, table, mult) /\ UNCHANGED <<interior_mult, nurbs, data>>
    BY <1>4, <2>a DEF CreateOnTableOf
  <2>2. mult \in Table
    BY <1>0, <2>a, <2>1 DEF Mult, SizeTypes, LivesInv, ReferencesLive
  <2> QED BY <1>2, <2>1, <2>2
<1>5. ASSUME NEW r \in DOMAIN bsplines \cup DOMAIN nurbs
      PROVE  BSplineOf(r) \in DOMAIN bsplines
  BY <1>0 DEF BSplineOf, LivesInv, ReferencesLive, Members, GridRefinementAssumption
<1>6. ASSUME NEW w \in Nurbs, NEW s \in BSpline, CreateNURBSSpace(w, s)
      PROVE  SizeTypes'
  <2>1. /\ s \in DOMAIN bsplines /\ UNCHANGED <<interior_mult, bsplines, data>>
        /\ nurbs' = With(nurbs, w, [sp_space |-> s, weights |-> bsplines[s].space_dim])
    BY <1>6 DEF CreateNURBSSpace
  <2>2. \A v \in DOMAIN nurbs' : nurbs'[v].weights \in Sizes
    BY <1>0, <2>1 DEF SizeTypes, With
  <2> QED BY <1>0, <2>1, <2>2 DEF SizeTypes
<1>7. ASSUME NEW m, NEW d, d.ctrl_mesh \in Sizes, data' = With(data, m, d),
             UNCHANGED <<interior_mult, bsplines, nurbs>>
      PROVE  SizeTypes'
  BY <1>0, <1>7 DEF SizeTypes, With
<1>8. ASSUME NEW m \in Map, NEW r \in Space, CreateIgMapping(m, r)
      PROVE  SizeTypes'
  <2>a. PICK sizes, d : /\ sizes = bsplines[BSplineOf(r)].space_dim
                        /\ d = [ref_space |-> r, ctrl_mesh |-> sizes,
                                control_points |-> TotalBasis(sizes)]
    OBVIOUS
  <2>1. /\ r \in DOMAIN bsplines \cup DOMAIN nurbs
        /\ data' = With(data, m, d) /\ UNCHANGED <<interior_mult, bsplines, nurbs>>
    BY <1>8, <2>a DEF CreateIgMapping
  <2>2. sizes \in Sizes
    BY <1>0, <1>5, <2>a, <2>1 DEF SizeTypes
  <2>3. d.ctrl_mesh \in Sizes
    BY <2>a, <2>2
  <2> QED BY <1>7, <2>1, <2>3
<1>9. ASSUME NEW c, NEW m \in Mapping, CopyIgMapping(c, m)
      PROVE  SizeTypes'
  <2>1. /\ m \in DOMAIN maps /\ data' = With(data, c, data[maps[m].data])
        /\ UNCHANGED <<interior_mult, bsplines, nurbs>>
    BY <1>9 DEF CopyIgMapping
  <2>2. data[maps[m].data].ctrl_mesh \in Sizes
    BY <1>0, <2>1 DEF LivesInv, ReferencesLive, SizeTypes
  <2> QED BY <1>7, <2>1, <2>2
<1>10. ASSUME NEW o, Release(o)
       PROVE  SizeTypes'
  <2>a. PICK live : live = KeptAlive(held \ {o})
    OBVIOUS
  <2>1. /\ bsplines' = Restrict(bsplines, DOMAIN bsplines \cap live)
        /\ nurbs' = Restrict(nurbs, DOMAIN nurbs \cap live)
        /\ maps' = Restrict(maps, DOMAIN maps \cap live)
        /\ data' = Restrict(data, {maps[x].data : x \in DOMAIN maps \cap live})
        /\ interior_mult' = interior_mult
    BY <1>10, <2>a DEF Release
  <2>2. /\ \A s \in DOMAIN bsplines' : s \in DOMAIN bsplines /\ bsplines'[s] = bsplines[s]
        /\ \A w \in DOMAIN nurbs' : w \in DOMAIN nurbs /\ nurbs'[w] = nurbs[w]
        /\ \A d \in DOMAIN data' : d \in DOMAIN data /\ data'[d] = data[d]
    BY <1>0, <2>1 DEF Restrict, LivesInv, ReferencesLive
  <2> QED BY <1>0, <2>1, <2>2 DEF SizeTypes
<1>11. ASSUME NEW o, NEW f, Called(o, f)
       PROVE  refining /\ o \in Live
  BY <1>0, <1>11 DEF Called, SignalTypes
<1>12. ASSUME NEW s \in BSpline, SplineSlot(s)
       PROVE  SizeTypes'
  <2>a. PICK M2, dim, old, table :
          /\ M2 = RefinedMult(Mult(s)) /\ dim = NumBasisTable(M2)
          /\ old = [knots |-> grid_pre_refinement, mult |-> Mult(s)]
          /\ table = bsplines[s].mult
    OBVIOUS
  <2>1. /\ interior_mult' = [interior_mult EXCEPT ![table] = M2]
        /\ bsplines' = [bsplines EXCEPT ![s].previous = old, ![s].space_dim = dim]
        /\ refining /\ s \in Live /\ UNCHANGED <<nurbs, data>>
    BY <1>11, <1>12, <2>a DEF SplineSlot
  <2>2. s \in DOMAIN bsplines
    BY <1>0, <2>1 DEF Live, LivesInv, Members, GridRefinementAssumption
  <2>3. Mult(s) \in Table
    BY <1>0, <2>2 DEF Mult, SizeTypes, LivesInv, ReferencesLive
  <2>4. M2 \in Table /\ dim \in Sizes
    BY <1>0, <2>a, <2>1, <2>3, RefinedTyped, NumBasisTyped
  <2>5. bsplines'[s].space_dim = dim /\ bsplines'[s].dofs = bsplines[s].dofs
    <3>a. PICK dofs : dofs = bsplines[s].dofs
      OBVIOUS
    <3>b. PICK dim0, old0 :
            bsplines[s] = [mult |-> table, space_dim |-> dim0, previous |-> old0, dofs |-> dofs]
      BY <1>0, <2>a, <2>2, <3>a DEF LivesInv, Members
    <3>1. bsplines'[s] = [[bsplines[s] EXCEPT !.previous = old] EXCEPT !.space_dim = dim]
      BY <2>1, <2>2
    <3>2. [bsplines[s] EXCEPT !.previous = old]
            = [mult |-> table, space_dim |-> dim0, previous |-> old, dofs |-> dofs]
      BY <3>b
    <3>3. bsplines'[s] = [mult |-> table, space_dim |-> dim, previous |-> old, dofs |-> dofs]
      BY <3>1, <3>2
    <3> QED BY <3>a, <3>3
  <2>6. DOMAIN bsplines' = DOMAIN bsplines /\ \A r \in DOMAIN bsplines : r # s => bsplines'[r] = bsplines[r]
    BY <2>1
  <2>7. \A t \in DOMAIN interior_mult' : interior_mult'[t] \in Table
    BY <1>0, <2>1, <2>4 DEF SizeTypes
  <2>8. \A r \in DOMAIN bsplines' : bsplines'[r].space_dim \in Sizes /\ bsplines'[r].dofs \in Sizes
    BY <1>0, <2>2, <2>4, <2>5, <2>6 DEF SizeTypes
  <2> QED BY <1>0, <2>1, <2>7, <2>8 DEF SizeTypes
<1>13. ASSUME NEW s \in BSpline, BSplineSlot(s)
       PROVE  SizeTypes'
  <2>1. /\ bsplines' = [bsplines EXCEPT ![s].dofs = bsplines[s].space_dim]
        /\ UNCHANGED <<interior_mult, nurbs, data>>
    BY <1>13 DEF BSplineSlot
  <2>2. \A r \in DOMAIN bsplines : r # s => bsplines'[r] = bsplines[r]
    BY <2>1
  <2>3. s \in DOMAIN bsplines => /\ bsplines'[s].space_dim = bsplines[s].space_dim
                                 /\ bsplines'[s].dofs = bsplines[s].space_dim
    <3>a. PICK dim, old, dofs, table : /\ dim = bsplines[s].space_dim /\ old = bsplines[s].previous
                                       /\ dofs = bsplines[s].dofs /\ table = bsplines[s].mult
      OBVIOUS
    <3>1. ASSUME s \in DOMAIN bsplines
          PROVE  bsplines'[s] = [mult |-> table, space_dim |-> dim, previous |-> old, dofs |-> dim]
      <4>1. bsplines[s] = [mult |-> table, space_dim |-> dim, previous |-> old, dofs |-> dofs]
        BY <1>0, <3>a, <3>1 DEF LivesInv, Members
      <4> QED BY <2>1, <3>a, <3>1, <4>1
    <3> QED BY <3>a, <3>1
  <2>4. DOMAIN bsplines' = DOMAIN bsplines
    BY <2>1
  <2>5. \A r \in DOMAIN bsplines' : bsplines'[r].space_dim \in Sizes /\ bsplines'[r].dofs \in Sizes
    BY <1>0, <2>2, <2>3, <2>4 DEF SizeTypes
  <2> QED BY <1>0, <2>1, <2>5 DEF SizeTypes
<1>14. ASSUME NEW w \in Nurbs, WeightsSlot(w)
       PROVE  SizeTypes'
  <2>a. PICK sizes : sizes = InsertKnots(nurbs[w].weights)
    OBVIOUS
  <2>1. /\ nurbs' = [nurbs EXCEPT ![w].weights = sizes]
        /\ UNCHANGED <<interior_mult, bsplines, data>> /\ refining
    BY <1>11, <1>14, <2>a DEF WeightsSlot
  <2>2. ASSUME w \in DOMAIN nurbs
        PROVE  sizes \in Sizes /\ nurbs'[w].weights = sizes
    <3>1. sizes \in Sizes
      BY <1>0, <2>a, <2>1, <2>2, InsertedTyped DEF SizeTypes
    <3>2. nurbs[w] = [sp_space |-> nurbs[w].sp_space, weights |-> nurbs[w].weights]
      BY <1>0, <2>2 DEF LivesInv, Members
    <3> QED BY <2>1, <2>2, <3>1, <3>2
  <2>3. DOMAIN nurbs' = DOMAIN nurbs /\ \A v \in DOMAIN nurbs : v # w => nurbs'[v] = nurbs[v]
    BY <2>1
  <2> QED BY <1>0, <2>1, <2>2, <2>3 DEF SizeTypes
<1>15. ASSUME NEW m \in Map, ControlMeshSlot(m)
       PROVE  SizeTypes'
  <2>a. PICK d, mesh, points :
          /\ d = maps[m].data
          /\ mesh = InsertKnots(data[d].ctrl_mesh)
          /\ points = TotalBasis(bsplines[BSplineOf(data[d].ref_space)].space_dim)
    OBVIOUS
  <2>1. /\ data' = [data EXCEPT ![d].ctrl_mesh = mesh, ![d].control_points = points]
        /\ UNCHANGED <<interior_mult, bsplines, nurbs>> /\ refining
    BY <1>11, <1>15, <2>a DEF ControlMeshSlot
  <2>2. DOMAIN data' = DOMAIN data /\ \A e \in DOMAIN data : e # d => data'[e] = data[e]
    BY <2>1
  <2>3. ASSUME d \in DOMAIN data
        PROVE  data'[d].ctrl_mesh = mesh /\ mesh \in Sizes
    <3>a. PICK space, mesh0, points0 :
            data[d] = [ref_space |-> space, ctrl_mesh |-> mesh0, control_points |-> points0]
      BY <1>0, <2>3 DEF LivesInv, Members
    <3>1. data'[d] = [[data[d] EXCEPT !.ctrl_mesh = mesh] EXCEPT !.control_points = points]
      BY <2>1, <2>3
    <3>2. [data[d] EXCEPT !.ctrl_mesh = mesh]
            = [ref_space |-> space, ctrl_mesh |-> mesh, control_points |-> points0]
      BY <3>a
    <3>3. data'[d] = [ref_space |-> space, ctrl_mesh |-> mesh, control_points |-> points]
      BY <3>1, <3>2
    <3>4. mesh \in Sizes
      BY <1>0, <2>a, <2>1, <2>3, InsertedTyped DEF SizeTypes
    <3> QED BY <3>3, <3>4
  <2> QED BY <1>0, <2>1, <2>2, <2>3 DEF SizeTypes
<1>16. ASSUME NEW m \in Mapping, NEW c, ShareIgMappingData(c, m)
       PROVE  SizeTypes'
  BY <1>0, <1>16 DEF ShareIgMappingData, SizeTypes
<1>17. CASE \/ \E dirs, n : Refine(dirs, n)
            \/ PassOver \/ RefinementDone \/ UNCHANGED vars
  <2>1. UNCHANGED object_vars
    BY <1>17 DEF Refine, PassOver, RefinementDone, vars
  <2> QED BY <1>1, <2>1
<1> QED BY <1>3, <1>4, <1>6, <1>8, <1>9, <1>10, <1>12, <1>13, <1>14, <1>15, <1>16, <1>17 DEF Next

\* Types of a new grid, and of what a step leaves.
LEMMA InitTypes ==
  ASSUME GridRefinementAssumption, Init
  PROVE  TypeInv
<1>1. /\ DOMAIN interior_mult = {} /\ DOMAIN bsplines = {} /\ DOMAIN nurbs = {}
      /\ DOMAIN maps = {} /\ DOMAIN data = {}
  BY DEF Init
<1>2. GridKnots(knot_coordinates)
  BY DEF GridRefinementAssumption, Init, GridKnots
<1>3. GridOk
  BY <1>2 DEF Init, GridOk
<1>4. SignalTypes
  BY <1>1 DEF Init, SignalTypes
<1>5. SizeTypes
  BY <1>1 DEF SizeTypes
<1> QED BY <1>3, <1>4, <1>5, InitLives DEF TypeInv

LEMMA NextTypes ==
  ASSUME GridRefinementAssumption, TypeInv, [Next]_vars
  PROVE  TypeInv'
  BY NextGrid, NextLives, NextSignalTypes, NextSizeTypes DEF TypeInv

\* Every member keeps its type: multiplicities stay between one and degree + 1,
\* sizes stay natural numbers and connections slots, whatever is shared, copied or
\* released, in any grid.
THEOREM ObjectsWellTyped ==
  ASSUME GridRefinementAssumption
  PROVE  Spec => []TypeOK
<1>1. Init => TypeInv
  BY InitTypes
<1>2. TypeInv /\ [Next]_vars => TypeInv'
  BY NextTypes
<1>3. TypeInv => TypeOK
  BY DEF TypeInv, LivesInv, SignalTypes, SizeTypes, GridOk, GridKnots, TypeOK
<1> QED BY <1>1, <1>2, <1>3, PTL DEF Spec

-----------------------------------------------------------------------------
(* Weights and control points.                                               *)

\* Slot a is called before slot b.
Before(q, a, b) == \A i, j \in DOMAIN q : q[i] = b /\ q[j] = a => j < i

\* The objects with coefficients over a space that have a slot of their own, and
\* of each its space, its slot and the sizes of its coefficients.
Carriers == DOMAIN nurbs \cup (DOMAIN maps \cap Map)

BaseOf(o) == IF o \in Nurbs THEN nurbs[o].sp_space ELSE BSplineOf(data[o].ref_space)
OwnSlot(o) == IF o \in Nurbs THEN <<o, "weights">> ELSE <<o, "control_mesh">>
SizesOf(o) == IF o \in Nurbs THEN nurbs[o].weights ELSE data[o].ctrl_mesh

\* The slot of o is connected behind that of its space and waits whenever that does.
Attached(o) ==
  /\ OwnSlot(o) \notin disconnected
  /\ Calls(refine_signals, OwnSlot(o))
  /\ Before(refine_signals, <<BaseOf(o), "spline">>, OwnSlot(o))
  /\ Calls(pending, <<BaseOf(o), "spline">>) => Calls(pending, OwnSlot(o))
  /\ Before(pending, <<BaseOf(o), "spline">>, OwnSlot(o))

\* The multiplicities o was last refined to.
MultOf(o) ==
  IF Calls(pending, OwnSlot(o)) /\ ~Calls(pending, <<BaseOf(o), "spline">>)
    THEN bsplines[BaseOf(o)].previous.mult ELSE interior_mult[BaseOf(o)]

\* As many coefficients as functions, control points once o is not to change any more.
Carries(o) ==
  /\ Attached(o)
  /\ SizesOf(o) = NumBasisTable(MultOf(o))
  /\ o \notin Nurbs /\ ~Calls(pending, OwnSlot(o)) =>
       data[o].control_points = TotalBasis(bsplines[BaseOf(o)].space_dim)

\* Space s has its dimension, and remembers the space it was before the refinement.
Remembers(s) ==
  /\ bsplines[s].space_dim = NumBasisTable(interior_mult[s])
  /\ refining /\ ~Calls(pending, <<s, "spline">>) =>
       /\ bsplines[s].previous # << >>
       /\ bsplines[s].previous.knots = grid_pre_refinement
       /\ bsplines[s].previous.mult \in Table
       /\ Fits(bsplines[s].previous.mult, grid_pre_refinement)
       /\ interior_mult[s] = MultAfter(grid_pre_refinement, knot_coordinates,
                                       bsplines[s].previous.mult, refinement_directions)

\* A mapping created from a space has data of its own, every other one shares them.
DataOk ==
  /\ \A m \in DOMAIN maps \cap Map :
       m \in held /\ maps[m] = [data |-> m, connection |-> <<m, "control_mesh">>]
  /\ \A m \in DOMAIN maps \ Map :
       maps[m].connection = NoConnection /\ maps[m].data \in DOMAIN maps \cap Map
  /\ DOMAIN data \subseteq DOMAIN maps

\* Slots are those of objects that live, or closed; those of a space die with it
\* only when clients release no space.
SlotsOk ==
  /\ \A i \in DOMAIN pending : pending[i][1] \in born
  /\ \A slot \in disconnected : slot = NoConnection \/ slot[1] \in born
  /\ \A w \in Nurbs \cap born : w \in DOMAIN nurbs \/ <<w, "weights">> \in disconnected
  /\ \A m \in Map \cap born : m \in DOMAIN maps
  /\ Releasable \cap BSpline = {} => \A s \in BSpline \cap born : s \in DOMAIN bsplines \cap held

CoefficientsOk ==
  /\ \A s \in DOMAIN bsplines : Remembers(s)
  /\ \A o \in Carriers : Carries(o)

FollowInv == IInv /\ TypeInv /\ DataOk /\ SlotsOk /\ CoefficientsOk

\* Multiplicity tables, control meshes and connections have one owner, and a mapping
\* with slots lives as long as its data are used.
OneOwner == ~SharesTables /\ Copy = {} /\ Releasable \cap Map = {}

\* The order stays when the first slot has been called.
LEMMA BeforeAfterFirst ==
  ASSUME NEW q \in Seq(Slot), q # << >>, NEW a, NEW b, Before(q, a, b)
  PROVE  Before(Tail(q), a, b)
<1>a. PICK t : t = Tail(q)
  OBVIOUS
<1>1. /\ DOMAIN q = 1 .. Len(q) /\ DOMAIN t = 1 .. Len(q) - 1 /\ Len(q) \in Nat
      /\ \A i \in DOMAIN t : i \in Nat /\ i + 1 \in DOMAIN q /\ t[i] = q[i + 1]
  BY <1>a
<1>2. ASSUME NEW i \in DOMAIN t, NEW j \in DOMAIN t, t[i] = b, t[j] = a
      PROVE  j < i
  <2>1. j + 1 < i + 1
    BY <1>1, <1>2 DEF Before
  <2> QED BY <1>1, <2>1
<1> QED BY <1>a, <1>2 DEF Before

\* New slots of x leave the order of the others as it is.
LEMMA BeforeExtends ==
  ASSUME NEW q, NEW r, NEW x, Extends(r, q, x), NEW a, NEW b, a[1] # x, b[1] # x
  PROVE  /\ Before(q, a, b) => Before(r, a, b)
         /\ Calls(q, a) => Calls(r, a)
<1>1. \A i \in DOMAIN r : r[i] = a \/ r[i] = b => i \in DOMAIN q /\ q[i] = r[i]
  BY DEF Extends
<1> QED BY <1>1 DEF Before, Calls, Extends

\* A slot connected now is called last.
LEMMA BehindAll ==
  ASSUME NEW q \in Seq(Slot), NEW x, NEW f, <<x, f>> \in Slot, NEW a, a[1] # x,
         \A i \in DOMAIN q : q[i][1] # x
  PROVE  /\ Calls(Append(q, <<x, f>>), <<x, f>>)
         /\ Before(Append(q, <<x, f>>), a, <<x, f>>)
<1>a. PICK r, n : r = Append(q, <<x, f>>) /\ n = Len(q)
  OBVIOUS
<1>1. /\ n \in Nat /\ DOMAIN q = 1 .. n /\ DOMAIN r = 1 .. n + 1 /\ n + 1 \in DOMAIN r
      /\ \A i \in DOMAIN q : r[i] = q[i]
      /\ r[n + 1] = <<x, f>>
  BY <1>a
<1>2. \A i \in DOMAIN r : i \in DOMAIN q \/ i = n + 1
  BY <1>1
<1>3. ASSUME NEW i \in DOMAIN r, NEW j \in DOMAIN r, r[i] = <<x, f>>, r[j] = a
      PROVE  j < i
  <2>1. i = n + 1 /\ j \in DOMAIN q
    BY <1>1, <1>2, <1>3
  <2> QED BY <1>1, <2>1
<1>4. Calls(r, <<x, f>>)
  BY <1>1 DEF Calls
<1>5. Before(r, a, <<x, f>>)
  BY <1>3 DEF Before
<1> QED BY <1>a, <1>4, <1>5

\* The slot of o is first only when that of its space has been called.
LEMMA FirstAttached ==
  ASSUME IInv, NEW o, Attached(o), pending # << >>, Head(pending) = OwnSlot(o)
  PROVE  ~Calls(pending, <<BaseOf(o), "spline">>)
<1>1. pending \in Seq(Slot) /\ Before(pending, <<BaseOf(o), "spline">>, OwnSlot(o))
  BY DEF IInv, SignalsOk, Attached
<1>2. 1 \in DOMAIN pending /\ pending[1] = OwnSlot(o) /\ \A j \in DOMAIN pending : ~(j < 1)
  BY <1>1
<1> QED BY <1>1, <1>2 DEF Calls, Before

\* What carries coefficients, and the space it has them over.
LEMMA BasesLive ==
  ASSUME GridRefinementAssumption, LivesInv, DataOk, NEW o \in Carriers
  PROVE  /\ BaseOf(o) \in DOMAIN bsplines /\ BaseOf(o) \in BSpline
         /\ \/ o \in Nurbs /\ o \in DOMAIN nurbs /\ o \notin Map
            \/ o \in Map /\ o \in DOMAIN maps /\ o \in DOMAIN data /\ o \notin Nurbs
         /\ o \notin BSpline /\ OwnSlot(o) \in Slot /\ OwnSlot(o)[1] = o
         /\ \A s : OwnSlot(o) # <<s, "spline">> /\ OwnSlot(o) # <<s, "bspline">>
<1>0. /\ DOMAIN bsplines \subseteq BSpline /\ DOMAIN nurbs \subseteq Nurbs
      /\ BSpline \cap (Nurbs \cup Map) = {} /\ Nurbs \cap Map = {}
  BY DEF LivesInv, Members, GridRefinementAssumption, Mapping
<1>1. CASE o \in DOMAIN nurbs
  <2>1. o \in Nurbs /\ BaseOf(o) = nurbs[o].sp_space /\ OwnSlot(o) = <<o, "weights">>
    BY <1>0, <1>1 DEF BaseOf, OwnSlot
  <2>2. BaseOf(o) \in DOMAIN bsplines
    BY <1>1, <2>1 DEF LivesInv, ReferencesLive
  <2> QED BY <1>0, <1>1, <2>1, <2>2 DEF Slot
<1>2. CASE o \in DOMAIN maps \cap Map
  <2>1. o \notin Nurbs /\ BaseOf(o) = BSplineOf(data[o].ref_space) /\ OwnSlot(o) = <<o, "control_mesh">>
    BY <1>0, <1>2 DEF BaseOf, OwnSlot
  <2>2. maps[o].data = o
    BY <1>2 DEF DataOk
  <2>3. o \in DOMAIN data /\ data[o].ref_space \in DOMAIN bsplines \cup DOMAIN nurbs
    BY <1>2, <2>2 DEF LivesInv, ReferencesLive
  <2>4. BaseOf(o) \in DOMAIN bsplines
    BY <1>0, <2>1, <2>3 DEF BSplineOf, LivesInv, ReferencesLive
  <2> QED BY <1>0, <1>2, <2>1, <2>3, <2>4 DEF Slot
<1> QED BY <1>1, <1>2 DEF Carriers

\* Knot insertion makes as many coefficients as the refined space has functions.
LEMMA InsertedNumber ==
  ASSUME GridRefinementAssumption, GridOk, refining, NEW M \in Table, Fits(M, grid_pre_refinement)
  PROVE  InsertKnots(NumBasisTable(M))
           = NumBasisTable(MultAfter(grid_pre_refinement, knot_coordinates, M, refinement_directions))
<1>a. PICK M2 : M2 = MultAfter(grid_pre_refinement, knot_coordinates, M, refinement_directions)
  OBVIOUS
<1>1. ASSUME NEW d \in Dir
      PROVE  InsertKnots(NumBasisTable(M))[d] = NumBasis(Degree, M2[d])
  <2>1. NumBasisTable(M)[d] = NumBasis(Degree, M[d])
    BY DEF NumBasisTable
  <2>2. CASE d \notin refinement_directions
    BY <1>a, <2>1, <2>2 DEF InsertKnots, MultAfter
  <2>3. CASE d \in refinement_directions
    <3>a. PICK f, b, c, k : f = RefineFactor(d) /\ b = Degree + 1 /\ c = Cardinality(Repeated(M[d]))
                            /\ k = Len(M[d])
      OBVIOUS
    <3>1. /\ f \in Nat \ {0}
          /\ KnotsAdded(d) = (f - 1) * (Len(grid_pre_refinement[d]) - 1)
          /\ Len(grid_pre_refinement[d]) \in Nat
      BY <2>3, <3>a, InRefinement
    <3>2. M2[d] = RefineMultiplicities(M[d], f)
      BY <1>a, <2>3, <3>a DEF MultAfter, RefineFactor
    <3>3. b \in Nat /\ M[d] \in Seq(1 .. b)
      BY <3>a DEF Table, GridRefinementAssumption
    <3>4. Cardinality(Repeated(M2[d])) = c + (f - 1) * (k + 1)
      BY <3>a, <3>1, <3>2, <3>3, RefinedNumber
    <3>5. c \in Nat
      BY <3>a, <3>3, RepeatedFinite
    <3>6. k + 1 = Len(grid_pre_refinement[d]) - 1 /\ k \in Nat
      BY <3>a, <3>1, <3>3 DEF Fits
    <3>7. NumBasis(Degree, M2[d]) = Degree + 1 + (c + KnotsAdded(d))
      BY <3>1, <3>4, <3>6 DEF NumBasis
    <3>8. InsertKnots(NumBasisTable(M))[d] = (Degree + 1 + c) + KnotsAdded(d)
      BY <2>1, <2>3, <3>a DEF InsertKnots, NumBasis
    <3>9. KnotsAdded(d) \in Nat /\ Degree \in Nat
      BY <2>3, InRefinement DEF GridRefinementAssumption
    <3> QED BY <3>5, <3>7, <3>8, <3>9
  <2> QED BY <2>2, <2>3
<1> QED BY <1>a, <1>1 DEF InsertKnots, NumBasisTable

\* An object that no step touches, over a space whose multiplicities stay.
LEMMA CarriesStays ==
  ASSUME NEW o, Carries(o), Attached(o)',
         BaseOf(o)' = BaseOf(o), SizesOf(o)' = SizesOf(o),
         o \notin Nurbs => data'[o] = data[o],
         bsplines'[BaseOf(o)].previous = bsplines[BaseOf(o)].previous,
         bsplines'[BaseOf(o)].space_dim = bsplines[BaseOf(o)].space_dim,
         interior_mult'[BaseOf(o)] = interior_mult[BaseOf(o)],
         Calls(pending', OwnSlot(o)) <=> Calls(pending, OwnSlot(o)),
         Calls(pending', <<BaseOf(o), "spline">>) <=> Calls(pending, <<BaseOf(o), "spline">>)
  PROVE  Carries(o)'
<1>1. MultOf(o)' = MultOf(o)
  BY DEF MultOf, OwnSlot
<1>2. SizesOf(o)' = NumBasisTable(MultOf(o)')
  BY <1>1 DEF Carries
<1>3. OwnSlot(o)' = OwnSlot(o)
  BY DEF OwnSlot
<1>4. o \notin Nurbs /\ ~Calls(pending', OwnSlot(o)) =>
        data'[o].control_points = TotalBasis(bsplines'[BaseOf(o)].space_dim)
  BY DEF Carries
<1> QED BY <1>2, <1>3, <1>4 DEF Carries, NumBasisTable

\* A space that no step touches.
LEMMA RemembersStays ==
  ASSUME NEW s, Remembers(s),
         bsplines'[s].previous = bsplines[s].previous,
         bsplines'[s].space_dim = bsplines[s].space_dim,
         interior_mult'[s] = interior_mult[s],
         UNCHANGED <<knot_coordinates, grid_pre_refinement, refining, refinement_directions>>,
         Calls(pending', <<s, "spline">>) <=> Calls(pending, <<s, "spline">>)
  PROVE  Remembers(s)'
  BY DEF Remembers

\* The constructors, by what they make.
LEMMA Constructors ==
  ASSUME Copy = {}, ~SharesTables,
         \/ \E s \in BSpline : \/ \E m \in Multiplicity : CreateBSplineSpace(s, m)
                               \/ \E r \in BSpline : CreateOnTableOf(s, r)
                               \/ \E w \in Nurbs : CreateNURBSSpace(w, s)
         \/ \E m \in Map, r \in Space : CreateIgMapping(m, r)
         \/ \E m \in Mapping, c \in Cursor : ShareIgMappingData(c, m)
         \/ \E m \in Mapping, c \in Copy : CopyIgMapping(c, m)
  PROVE  \/ \E s \in BSpline : \E m \in Multiplicity : CreateBSplineSpace(s, m)
         \/ \E w \in Nurbs : \E s \in BSpline : CreateNURBSSpace(w, s)
         \/ \E m \in Map : \E r \in Space : CreateIgMapping(m, r)
         \/ \E c \in Cursor : \E m \in Mapping : ShareIgMappingData(c, m)
<1>1. \A s, r : ~CreateOnTableOf(s, r)
  BY DEF CreateOnTableOf
<1> QED BY <1>1

\* The mappings that share data share those of one that lives.
LEMMA NextDataOk ==
  ASSUME GridRefinementAssumption, OneOwner, FollowInv, [Next]_vars
  PROVE  DataOk'
<1>0. DataOk /\ Live \subseteq born /\ Map \cap Cursor = {}
      /\ Map \cap (BSpline \cup Nurbs) = {} /\ Cursor \cap (BSpline \cup Nurbs) = {}
  BY DEF FollowInv, TypeInv, LivesInv, ReferencesLive, GridRefinementAssumption, Mapping
<1>1. ASSUME UNCHANGED maps, held \subseteq held', DOMAIN data' = DOMAIN data
      PROVE  DataOk'
  BY <1>0, <1>1 DEF DataOk
<1>2. ASSUME NEW s \in BSpline, NEW m \in Multiplicity, CreateBSplineSpace(s, m)
      PROVE  DataOk'
  BY <1>1, <1>2 DEF CreateBSplineSpace, Construct
<1>3. ASSUME NEW w \in Nurbs, NEW s \in BSpline, CreateNURBSSpace(w, s)
      PROVE  DataOk'
  BY <1>1, <1>3 DEF CreateNURBSSpace, Construct
<1>4. ASSUME NEW m \in Map, NEW r \in Space, CreateIgMapping(m, r)
      PROVE  DataOk'
  <2>1. /\ m \notin born /\ held' = held \cup {m} /\ DOMAIN data' = DOMAIN data \cup {m}
        /\ maps' = With(maps, m, [data |-> m, connection |-> <<m, "control_mesh">>])
    BY <1>4 DEF CreateIgMapping, Construct, With
  <2>2. /\ DOMAIN maps' = DOMAIN maps \cup {m}
        /\ maps'[m] = [data |-> m, connection |-> <<m, "control_mesh">>]
        /\ \A x \in DOMAIN maps : x # m /\ maps'[x] = maps[x]
    BY <1>0, <2>1 DEF With, Live
  <2> QED BY <1>0, <2>1, <2>2 DEF DataOk
<1>5. ASSUME NEW c \in Cursor, NEW m \in Mapping, ShareIgMappingData(c, m)
      PROVE  DataOk'
  <2>1. /\ c \notin born /\ held' = held \cup {c} /\ m \in DOMAIN maps /\ data' = data
        /\ maps' = With(maps, c, [data |-> maps[m].data, connection |-> NoConnection])
    BY <1>5 DEF ShareIgMappingData, Construct
  <2>2. /\ DOMAIN maps' = DOMAIN maps \cup {c}
        /\ maps'[c] = [data |-> maps[m].data, connection |-> NoConnection]
        /\ \A x \in DOMAIN maps : x # c /\ maps'[x] = maps[x]
    BY <1>0, <2>1 DEF With, Live
  <2>3. maps[m].data \in DOMAIN maps \cap Map
    BY <1>0, <2>1 DEF DataOk
  <2>4. DOMAIN maps' \cap Map = DOMAIN maps \cap Map
    BY <1>0, <2>2
  <2>5. maps'[c].connection = NoConnection /\ maps'[c].data \in DOMAIN maps' \cap Map
    BY <2>2, <2>3, <2>4
  <2>6. \A x \in DOMAIN maps' \ Map :
          maps'[x].connection = NoConnection /\ maps'[x].data \in DOMAIN maps' \cap Map
    BY <1>0, <2>2, <2>4, <2>5 DEF DataOk
  <2>7. \A x \in DOMAIN maps' \cap Map :
          x \in held' /\ maps'[x] = [data |-> x, connection |-> <<x, "control_mesh">>]
    BY <1>0, <2>1, <2>2, <2>4 DEF DataOk
  <2>8. DOMAIN data' \subseteq DOMAIN maps'
    BY <1>0, <2>1, <2>2 DEF DataOk
  <2> QED BY <2>6, <2>7, <2>8 DEF DataOk
<1>6. ASSUME NEW o \in Releasable, Release(o)
      PROVE  DataOk'
  <2>a. PICK live : live = KeptAlive(held \ {o})
    OBVIOUS
  <2>1. held' = held \ {o} /\ maps' = Restrict(maps, DOMAIN maps \cap live) /\ o \notin Map
    BY <1>6, <2>a DEF Release, OneOwner
  <2>2. DOMAIN maps' = DOMAIN maps \cap live /\ \A m \in DOMAIN maps' : maps'[m] = maps[m]
    BY <2>1 DEF Restrict
  <2>3. \A m \in DOMAIN maps \cap Map : m \in DOMAIN maps' /\ m \in held'
    BY <1>0, <2>a, <2>1, <2>2 DEF DataOk, KeptAlive
  <2>4. ASSUME NEW d \in DOMAIN data'
        PROVE  d \in DOMAIN maps'
    <3>1. PICK m \in DOMAIN maps \cap live : d = maps[m].data
      BY <1>6, <2>a DEF Release, Restrict
    <3>2. d \in DOMAIN maps \cap Map
      BY <1>0, <3>1 DEF DataOk
    <3> QED BY <2>3, <3>2
  <2> QED BY <1>0, <2>2, <2>3, <2>4 DEF DataOk
<1>7. CASE \/ \E dirs, n : Refine(dirs, n)
           \/ \E s \in BSpline : SplineSlot(s) \/ BSplineSlot(s)
           \/ \E w \in Nurbs : WeightsSlot(w)
           \/ \E m \in Map : ControlMeshSlot(m)
           \/ PassOver \/ RefinementDone \/ UNCHANGED vars
  <2>1. UNCHANGED <<maps, held>> /\ DOMAIN data' = DOMAIN data
    BY <1>7 DEF Refine, SplineSlot, BSplineSlot, WeightsSlot, ControlMeshSlot, Called, PassOver,
                RefinementDone, vars, object_vars, client_vars
  <2> QED BY <1>1, <2>1
<1> QED BY <1>2, <1>3, <1>4, <1>5, <1>6, <1>7, Constructors DEF Next, OneOwner

\* Slots are connected by live objects, and what dies closes its own.
LEMMA NextSlotsOk ==
  ASSUME GridRefinementAssumption, OneOwner, FollowInv, [Next]_vars
  PROVE  SlotsOk'
<1>0. /\ SlotsOk /\ DataOk /\ SignalsOk /\ LivesInv
      /\ Map \cap Cursor = {} /\ Nurbs \cap (BSpline \cup Map \cup Cursor) = {}
      /\ BSpline \cap (Map \cup Cursor) = {}
  BY DEF FollowInv, IInv, TypeInv, GridRefinementAssumption, Mapping
<1>1. ASSUME NEW x, Construct(x),
             DOMAIN bsplines' = IF x \in BSpline THEN DOMAIN bsplines \cup {x} ELSE DOMAIN bsplines,
             DOMAIN nurbs' = IF x \in Nurbs THEN DOMAIN nurbs \cup {x} ELSE DOMAIN nurbs,
             DOMAIN maps \subseteq DOMAIN maps', x \in Map => x \in DOMAIN maps'
      PROVE  SlotsOk'
  <2>1. /\ born' = born \cup {x} /\ held' = held \cup {x} /\ pending' = pending
        /\ disconnected' = disconnected
    BY <1>1 DEF Construct, signal_vars
  <2>2. \A i \in DOMAIN pending' : pending'[i][1] \in born'
    BY <1>0, <2>1 DEF SlotsOk
  <2>3. \A w \in Nurbs \cap born' : w \in DOMAIN nurbs' \/ <<w, "weights">> \in disconnected'
    BY <1>0, <1>1, <2>1 DEF SlotsOk
  <2>4. \A m \in Map \cap born' : m \in DOMAIN maps'
    BY <1>0, <1>1, <2>1 DEF SlotsOk
  <2>5. Releasable \cap BSpline = {} => \A s \in BSpline \cap born' : s \in DOMAIN bsplines' \cap held'
    BY <1>0, <1>1, <2>1 DEF SlotsOk
  <2>6. \A slot \in disconnected' : slot = NoConnection \/ slot[1] \in born'
    BY <1>0, <2>1 DEF SlotsOk
  <2> QED BY <2>2, <2>3, <2>4, <2>5, <2>6 DEF SlotsOk
<1>2. ASSUME NEW s \in BSpline, NEW m \in Multiplicity, CreateBSplineSpace(s, m)
      PROVE  SlotsOk'
  <2>1. /\ Construct(s) /\ UNCHANGED <<nurbs, maps>>
        /\ \E mult : NewBSpline(s, s, mult)
    BY <1>2 DEF CreateBSplineSpace
  <2>2. DOMAIN bsplines' = DOMAIN bsplines \cup {s}
    BY <2>1 DEF NewBSpline, With
  <2> QED BY <1>0, <1>1, <2>1, <2>2
<1>3. ASSUME NEW w \in Nurbs, NEW s \in BSpline, CreateNURBSSpace(w, s)
      PROVE  SlotsOk'
  <2>1. Construct(w) /\ UNCHANGED <<bsplines, maps>> /\ DOMAIN nurbs' = DOMAIN nurbs \cup {w}
    BY <1>3 DEF CreateNURBSSpace, With
  <2> QED BY <1>0, <1>1, <2>1
<1>4. ASSUME NEW m \in Map, NEW r \in Space, CreateIgMapping(m, r)
      PROVE  SlotsOk'
  <2>1. Construct(m) /\ UNCHANGED <<bsplines, nurbs>> /\ DOMAIN maps' = DOMAIN maps \cup {m}
    BY <1>4 DEF CreateIgMapping, With
  <2> QED BY <1>0, <1>1, <2>1
<1>5. ASSUME NEW c \in Cursor, NEW m \in Mapping, ShareIgMappingData(c, m)
      PROVE  SlotsOk'
  <2>1. Construct(c) /\ UNCHANGED <<bsplines, nurbs>> /\ DOMAIN maps' = DOMAIN maps \cup {c}
    BY <1>5 DEF ShareIgMappingData, With
  <2> QED BY <1>0, <1>1, <2>1
<1>6. ASSUME NEW o \in Releasable, Release(o)
      PROVE  SlotsOk'
  <2>a. PICK live : live = KeptAlive(held \ {o})
    OBVIOUS
  <2>1. /\ held' = held \ {o}
        /\ bsplines' = Restrict(bsplines, DOMAIN bsplines \cap live)
        /\ nurbs' = Restrict(nurbs, DOMAIN nurbs \cap live)
        /\ maps' = Restrict(maps, DOMAIN maps \cap live)
        /\ disconnected' = disconnected \cup {StoredConnection(x) : x \in Live \ live}
        /\ UNCHANGED <<pending, born>> /\ o \notin Map
    BY <1>6, <2>a DEF Release, OneOwner, signal_vars
  <2>2. /\ DOMAIN bsplines' = DOMAIN bsplines \cap live
        /\ DOMAIN nurbs' = DOMAIN nurbs \cap live
        /\ DOMAIN maps' = DOMAIN maps \cap live
        /\ held' \subseteq live
    BY <2>a, <2>1 DEF Restrict, KeptAlive
  <2>3. ASSUME NEW w \in Nurbs \cap born, w \in DOMAIN nurbs, w \notin live
        PROVE  <<w, "weights">> \in disconnected'
    <3>1. StoredConnection(w) = <<w, "weights">> /\ w \in Live
      BY <1>0, <2>3 DEF StoredConnection, Live
    <3> QED BY <2>1, <2>3, <3>1
  <2>4. \A w \in Nurbs \cap born' : w \in DOMAIN nurbs' \/ <<w, "weights">> \in disconnected'
    BY <1>0, <2>1, <2>2, <2>3 DEF SlotsOk
  <2>5. \A m \in Map \cap born' : m \in DOMAIN maps'
    BY <1>0, <2>1, <2>2 DEF SlotsOk, DataOk
  <2>6. Releasable \cap BSpline = {} => \A s \in BSpline \cap born' : s \in DOMAIN bsplines' \cap held'
    BY <1>0, <2>1, <2>2 DEF SlotsOk
  <2>7. \A i \in DOMAIN pending' : pending'[i][1] \in born'
    BY <1>0, <2>1 DEF SlotsOk
  <2>8. ASSUME NEW x \in Live
        PROVE  StoredConnection(x) = NoConnection \/ StoredConnection(x)[1] \in born
    <3>1. x \in born
      BY <1>0 DEF LivesInv, ReferencesLive
    <3>2. CASE x \in BSpline \cup Nurbs
      BY <3>1, <3>2 DEF StoredConnection
    <3>3. CASE x \notin BSpline \cup Nurbs
      <4>1. x \in DOMAIN maps /\ x \in Mapping
        BY <1>0, <3>3 DEF Live, LivesInv, Members
      <4>2. StoredConnection(x) = maps[x].connection
        BY <3>3, <4>1 DEF StoredConnection
      <4> QED BY <1>0, <3>1, <4>1, <4>2 DEF DataOk
    <3> QED BY <3>2, <3>3
  <2>9. \A slot \in disconnected' : slot = NoConnection \/ slot[1] \in born'
    BY <1>0, <2>1, <2>8 DEF SlotsOk
  <2> QED BY <2>4, <2>5, <2>6, <2>7, <2>9 DEF SlotsOk
<1>7. ASSUME NEW q, pending' = q, \A i \in DOMAIN q : q[i][1] \in born, UNCHANGED client_vars,
             DOMAIN bsplines' = DOMAIN bsplines, DOMAIN nurbs' = DOMAIN nurbs,
             DOMAIN maps' = DOMAIN maps
      PROVE  SlotsOk'
  BY <1>0, <1>7 DEF SlotsOk, client_vars
<1>8. ASSUME NEW dirs, NEW n, Refine(dirs, n)
      PROVE  SlotsOk'
  <2>1. pending' = refine_signals /\ UNCHANGED <<object_vars, client_vars>>
    BY <1>8 DEF Refine, CallOrder
  <2> QED BY <1>0, <1>7, <2>1 DEF SignalsOk, object_vars
<1>9. CASE \/ \E s \in BSpline : SplineSlot(s) \/ BSplineSlot(s)
           \/ \E w \in Nurbs : WeightsSlot(w)
           \/ \E m \in Map : ControlMeshSlot(m)
           \/ PassOver
  <2>1. /\ pending # << >> /\ pending' = Tail(pending) /\ UNCHANGED client_vars
        /\ DOMAIN bsplines' = DOMAIN bsplines /\ DOMAIN nurbs' = DOMAIN nurbs
        /\ DOMAIN maps' = DOMAIN maps
    BY <1>9 DEF SplineSlot, BSplineSlot, WeightsSlot, ControlMeshSlot, Called, PassOver, object_vars
  <2>2. pending \in Seq(Slot)
    BY <1>0 DEF SignalsOk
  <2>3. \A i \in DOMAIN Tail(pending) : i + 1 \in DOMAIN pending /\ Tail(pending)[i] = pending[i + 1]
    BY <2>1, <2>2
  <2>4. \A i \in DOMAIN Tail(pending) : Tail(pending)[i][1] \in born
    BY <1>0, <2>3 DEF SlotsOk
  <2> QED BY <1>7, <2>1, <2>4
<1>10. CASE RefinementDone \/ UNCHANGED vars
  <2>1. UNCHANGED <<pending, object_vars, client_vars>>
    BY <1>10 DEF RefinementDone, vars, signal_vars
  <2> QED BY <1>0, <1>7, <2>1 DEF SlotsOk, object_vars
<1> QED BY <1>2, <1>3, <1>4, <1>5, <1>6, <1>8, <1>9, <1>10, Constructors DEF Next, OneOwner

\* The space of an object is the same before and after a step that changes no
\* reference.
LEMMA BaseStays ==
  ASSUME GridRefinementAssumption, LivesInv, LivesInv', DataOk, DataOk',
         NEW o \in Carriers, o \in Carriers',
         \A w \in DOMAIN nurbs \cap DOMAIN nurbs' : nurbs'[w].sp_space = nurbs[w].sp_space,
         o \notin Nurbs => data'[o].ref_space = data[o].ref_space
  PROVE  BaseOf(o)' = BaseOf(o) /\ BaseOf(o) \in DOMAIN bsplines'
<1>1. CASE o \in Nurbs
  <2>1. o \in DOMAIN nurbs /\ o \in DOMAIN nurbs'
    BY <1>1 DEF Carriers, GridRefinementAssumption, Mapping
  <2> QED BY <1>1, <2>1 DEF BaseOf, LivesInv, ReferencesLive
<1>2. CASE o \notin Nurbs
  <2>a. PICK r : r = data[o].ref_space
    OBVIOUS
  <2>1. o \in DOMAIN maps \cap Map /\ o \in DOMAIN maps' \cap Map
    BY <1>2 DEF Carriers, LivesInv, Members
  <2>2. maps[o].data = o /\ maps'[o].data = o
    BY <2>1 DEF DataOk
  <2>3. /\ r \in DOMAIN bsplines \cup DOMAIN nurbs
        /\ r \in DOMAIN bsplines' \cup DOMAIN nurbs' /\ data'[o].ref_space = r
    BY <1>2, <2>a, <2>1, <2>2 DEF LivesInv, ReferencesLive
  <2>4. r \in Nurbs => r \in DOMAIN nurbs \cap DOMAIN nurbs'
    BY <2>3 DEF LivesInv, Members, GridRefinementAssumption
  <2>5. BaseOf(o) = BSplineOf(r) /\ BaseOf(o)' = BSplineOf(r)'
    BY <1>2, <2>a, <2>3 DEF BaseOf, BSplineOf
  <2>6. CASE r \in Nurbs
    BY <2>4, <2>5, <2>6 DEF BSplineOf, LivesInv, ReferencesLive
  <2>7. CASE r \notin Nurbs
    BY <2>3, <2>5, <2>7 DEF BSplineOf, LivesInv, Members
  <2> QED BY <2>6, <2>7
<1> QED BY <1>1, <1>2

\* Constructors leave the objects that are there as they are.
LEMMA ConstructKeeps ==
  ASSUME GridRefinementAssumption, FollowInv, LivesInv', DataOk', NEW x, Constructs(x),
         \A s \in DOMAIN bsplines : /\ bsplines'[s] = bsplines[s]
                                    /\ interior_mult'[s] = interior_mult[s],
         \A w \in DOMAIN nurbs : w \in DOMAIN nurbs' /\ nurbs'[w] = nurbs[w],
         \A m \in DOMAIN maps : m \in DOMAIN maps',
         \A d \in DOMAIN data : data'[d] = data[d]
  PROVE  /\ \A s \in DOMAIN bsplines : Remembers(s)'
         /\ \A o \in Carriers : Carries(o)'
<1>0. /\ LivesInv /\ DataOk /\ SignalsOk /\ CoefficientsOk /\ Live \subseteq born
  BY DEF FollowInv, IInv, TypeInv, LivesInv, ReferencesLive
<1>1. /\ ~refining /\ x \notin born /\ pending' = pending /\ disconnected' = disconnected
      /\ Extends(refine_signals', refine_signals, x)
      /\ UNCHANGED <<knot_coordinates, grid_pre_refinement, refining, refinement_directions>>
  BY DEF Constructs
<1>2. \A s \in DOMAIN bsplines : Remembers(s)'
  BY <1>0, <1>1, RemembersStays DEF CoefficientsOk
<1>3. ASSUME NEW o \in Carriers
      PROVE  Carries(o)'
  <2>a. PICK s, slot : s = BaseOf(o) /\ slot = OwnSlot(o)
    OBVIOUS
  <2>1. /\ s \in DOMAIN bsplines
        /\ \/ o \in Nurbs /\ o \in DOMAIN nurbs /\ o \notin Map
           \/ o \in Map /\ o \in DOMAIN maps /\ o \in DOMAIN data /\ o \notin Nurbs
        /\ slot[1] = o
    BY <1>0, <2>a, BasesLive
  <2>2. Carries(o) /\ Attached(o)
    BY <1>0 DEF CoefficientsOk, Carries
  <2>3. o # x /\ s # x
    BY <1>0, <1>1, <2>1 DEF Live
  <2>4. o \in Carriers'
    BY <2>1 DEF Carriers
  <2>5. BaseOf(o)' = s
    BY <1>0, <2>a, <2>1, <2>4, BaseStays
  <2>6. SizesOf(o)' = SizesOf(o) /\ (o \notin Nurbs => data'[o] = data[o])
    BY <2>1 DEF SizesOf
  <2>7. Attached(o)'
    <3>1. /\ Calls(refine_signals, slot) => Calls(refine_signals', slot)
          /\ Before(refine_signals, <<s, "spline">>, slot) => Before(refine_signals', <<s, "spline">>, slot)
      <4>1. slot[1] # x /\ <<s, "spline">>[1] # x
        BY <2>1, <2>3
      <4> QED BY <1>1, <4>1, BeforeExtends
    <3>2. OwnSlot(o)' = slot
      BY <2>a DEF OwnSlot
    <3> QED BY <1>1, <2>a, <2>2, <2>5, <3>1, <3>2 DEF Attached
  <2> QED BY <1>1, <2>a, <2>1, <2>2, <2>5, <2>6, <2>7, CarriesStays
<1> QED BY <1>2, <1>3

\* What carries coefficients from its construction on has as many as its space has
\* functions, and its slot behind that of the space.
LEMMA NewCarrier ==
  ASSUME GridRefinementAssumption, FollowInv, LivesInv', DataOk', NEW o, NEW s, NEW f,
         <<o, f>> \in Slot, <<o, f>> \notin disconnected, ~refining, o \notin born,
         s \in DOMAIN bsplines, s # o,
         UNCHANGED <<pending, disconnected, bsplines, interior_mult>>,
         refine_signals' = Append(refine_signals, <<o, f>>),
         OwnSlot(o) = <<o, f>>, BaseOf(o)' = s, SizesOf(o)' = bsplines[s].space_dim,
         o \notin Nurbs => data'[o].control_points = TotalBasis(bsplines[s].space_dim)
  PROVE  Carries(o)'
<1>1. /\ refine_signals \in Seq(Slot) /\ \A i \in DOMAIN refine_signals : refine_signals[i][1] # o
      /\ pending = << >> /\ Remembers(s)
  BY NewObject DEF FollowInv, IInv, SignalsOk, CoefficientsOk
<1>2. /\ Calls(refine_signals', <<o, f>>)
      /\ Before(refine_signals', <<s, "spline">>, <<o, f>>)
  <2>1. <<s, "spline">>[1] # o
    OBVIOUS
  <2> QED BY <1>1, <2>1, BehindAll
<1>3. ~Calls(pending', <<s, "spline">>) /\ Before(pending', <<s, "spline">>, <<o, f>>)
  BY <1>1 DEF Calls, Before
<1>4. OwnSlot(o)' = <<o, f>> /\ ~Calls(pending', <<o, f>>)
  BY <1>1 DEF OwnSlot, Calls
<1>5. Attached(o)'
  BY <1>2, <1>3, <1>4 DEF Attached
<1>6. MultOf(o)' = interior_mult[s]
  BY <1>4 DEF MultOf
<1>7. SizesOf(o)' = NumBasisTable(MultOf(o)')
  BY <1>1, <1>6 DEF Remembers
<1> QED BY <1>5, <1>7 DEF Carries, NumBasisTable

\* The constructors.
LEMMA ConstructFollows ==
  ASSUME GridRefinementAssumption, OneOwner, FollowInv, LivesInv', DataOk',
         \/ \E s \in BSpline : \E m \in Multiplicity : CreateBSplineSpace(s, m)
         \/ \E w \in Nurbs : \E s \in BSpline : CreateNURBSSpace(w, s)
         \/ \E m \in Map : \E r \in Space : CreateIgMapping(m, r)
         \/ \E c \in Cursor : \E m \in Mapping : ShareIgMappingData(c, m)
  PROVE  CoefficientsOk'
<1>0. /\ LivesInv /\ DataOk /\ SignalsOk /\ SlotsOk /\ CoefficientsOk /\ Live \subseteq born
      /\ refine_signals \in Seq(Slot) /\ Once(refine_signals)
      /\ Map \cap Cursor = {} /\ Nurbs \cap (BSpline \cup Map \cup Cursor) = {}
      /\ BSpline \cap (Map \cup Cursor) = {}
      /\ DOMAIN bsplines \subseteq BSpline /\ DOMAIN nurbs \subseteq Nurbs
  BY DEF FollowInv, IInv, TypeInv, LivesInv, ReferencesLive, Members, SignalsOk,
         GridRefinementAssumption, Mapping
<1>1. ASSUME NEW x, NEW f, <<x, f>> \in Slot, Construct(x),
             refine_signals' = Append(refine_signals, <<x, f>>)
      PROVE  /\ Constructs(x) /\ UNCHANGED <<pending, disconnected>> /\ ~refining /\ x \notin born
  <2>1. ~refining /\ x \notin born /\ born' = born \cup {x}
        /\ UNCHANGED <<grid_vars, signal_vars, disconnected>>
    BY <1>1 DEF Construct
  <2>2. \A i \in DOMAIN refine_signals : refine_signals[i][1] # x
    BY <1>0, <2>1, NewObject
  <2>3. Extends(refine_signals', refine_signals, x)
    BY <1>0, <1>1, <2>2, AppendExtends
  <2> QED BY <2>1, <2>3 DEF Constructs, grid_vars, signal_vars
<1>2. ASSUME NEW s \in BSpline, NEW m \in Multiplicity, CreateBSplineSpace(s, m)
      PROVE  CoefficientsOk'
  <2>a. PICK mult : mult = [d \in Dir |-> [i \in 1 .. Len(knot_coordinates[d]) - 2 |-> m]]
    OBVIOUS
  <2>1. /\ Construct(s) /\ interior_mult' = With(interior_mult, s, mult)
        /\ NewBSpline(s, s, mult)
        /\ refine_signals' = refine_signals \o BSplineSlots(s)
        /\ UNCHANGED <<nurbs, maps, data>>
    BY <1>2, <2>a DEF CreateBSplineSpace
  <2>2. /\ ~refining /\ s \notin born /\ born' = born \cup {s}
        /\ UNCHANGED <<grid_vars, signal_vars, disconnected>>
    BY <2>1 DEF Construct
  <2>3. Extends(refine_signals', refine_signals, s)
    BY <1>0, <2>1, <2>2, NewObject, BSplineSlotsExtend
  <2>4. Constructs(s)
    BY <2>2, <2>3 DEF Constructs, grid_vars, signal_vars
  <2>5. /\ DOMAIN bsplines' = DOMAIN bsplines \cup {s}
        /\ \A r \in DOMAIN bsplines : bsplines'[r] = bsplines[r] /\ interior_mult'[r] = interior_mult[r]
        /\ bsplines'[s] = [mult |-> s, space_dim |-> NumBasisTable(mult),
                           previous |-> << >>, dofs |-> NumBasisTable(mult)]
        /\ interior_mult'[s] = mult
    BY <1>0, <2>1, <2>2 DEF NewBSpline, With, Live, FollowInv, IInv, ObjectsOk
  <2>6. Carriers' = Carriers
    BY <2>1 DEF Carriers
  <2>7. /\ \A r \in DOMAIN bsplines : Remembers(r)'
        /\ \A o \in Carriers : Carries(o)'
    BY <2>1, <2>4, <2>5, ConstructKeeps
  <2>8. Remembers(s)'
    BY <2>2, <2>5 DEF Remembers, signal_vars, NumBasisTable
  <2> QED BY <2>5, <2>6, <2>7, <2>8 DEF CoefficientsOk
<1>3. ASSUME NEW w \in Nurbs, NEW s \in BSpline, CreateNURBSSpace(w, s)
      PROVE  CoefficientsOk'
  <2>1. /\ s \in DOMAIN bsplines /\ Construct(w)
        /\ nurbs' = With(nurbs, w, [sp_space |-> s, weights |-> bsplines[s].space_dim])
        /\ refine_signals' = Append(refine_signals, <<w, "weights">>)
        /\ UNCHANGED <<interior_mult, bsplines, maps, data>>
    BY <1>3 DEF CreateNURBSSpace
  <2>2. <<w, "weights">> \in Slot /\ OwnSlot(w) = <<w, "weights">> /\ s # w
    BY <1>0 DEF Slot, OwnSlot
  <2>3. Constructs(w) /\ UNCHANGED <<pending, disconnected>> /\ ~refining /\ w \notin born
    BY <1>1, <2>1, <2>2
  <2>4. /\ DOMAIN nurbs' = DOMAIN nurbs \cup {w}
        /\ nurbs'[w] = [sp_space |-> s, weights |-> bsplines[s].space_dim]
        /\ \A v \in DOMAIN nurbs : nurbs'[v] = nurbs[v]
    BY <1>0, <2>1, <2>3 DEF With, Live
  <2>5. /\ \A r \in DOMAIN bsplines : Remembers(r)'
        /\ \A o \in Carriers : Carries(o)'
    BY <2>1, <2>3, <2>4, ConstructKeeps
  <2>6. BaseOf(w)' = s /\ SizesOf(w)' = bsplines[s].space_dim
    BY <2>4 DEF BaseOf, SizesOf
  <2>7. <<w, "weights">> \notin disconnected
    BY <1>0, <2>3 DEF SlotsOk, NoConnection
  <2>8. Carries(w)'
    BY <2>1, <2>2, <2>3, <2>6, <2>7, NewCarrier
  <2>9. Carriers' = Carriers \cup {w}
    BY <2>1, <2>4 DEF Carriers
  <2> QED BY <2>1, <2>5, <2>8, <2>9 DEF CoefficientsOk
<1>4. ASSUME NEW m \in Map, NEW r \in Space, CreateIgMapping(m, r)
      PROVE  CoefficientsOk'
  <2>a. PICK s, d : /\ s = BSplineOf(r)
                    /\ d = [ref_space |-> r, ctrl_mesh |-> bsplines[s].space_dim,
                            control_points |-> TotalBasis(bsplines[s].space_dim)]
    OBVIOUS
  <2>1. /\ r \in DOMAIN bsplines \cup DOMAIN nurbs /\ Construct(m)
        /\ data' = With(data, m, d)
        /\ maps' = With(maps, m, [data |-> m, connection |-> <<m, "control_mesh">>])
        /\ refine_signals' = Append(refine_signals, <<m, "control_mesh">>)
        /\ UNCHANGED <<interior_mult, bsplines, nurbs>>
    BY <1>4, <2>a DEF CreateIgMapping
  <2>2. /\ <<m, "control_mesh">> \in Slot /\ OwnSlot(m) = <<m, "control_mesh">>
        /\ m \notin Nurbs /\ m \notin BSpline
    BY <1>0 DEF Slot, OwnSlot
  <2>3. s \in DOMAIN bsplines /\ s # m
    BY <1>0, <2>a, <2>1, <2>2 DEF BSplineOf, LivesInv, ReferencesLive
  <2>4. Constructs(m) /\ UNCHANGED <<pending, disconnected>> /\ ~refining /\ m \notin born
    BY <1>1, <2>1, <2>2
  <2>5. /\ DOMAIN maps' = DOMAIN maps \cup {m} /\ data'[m] = d
        /\ \A e \in DOMAIN data : e # m => data'[e] = data[e]
    BY <2>1 DEF With
  <2>6. Carriers' = Carriers \cup {m} /\ m \notin Carriers
    BY <1>0, <2>1, <2>2, <2>4, <2>5 DEF Carriers, Live
  <2>7. BaseOf(m)' = s /\ SizesOf(m)' = bsplines[s].space_dim
    BY <2>a, <2>1, <2>2, <2>5 DEF BaseOf, BSplineOf, SizesOf
  <2>8. <<m, "control_mesh">> \notin disconnected
    BY <1>0, <2>4 DEF SlotsOk, NoConnection
  <2>9. data'[m].control_points = TotalBasis(bsplines[s].space_dim)
    BY <2>a, <2>5
  <2>10. Carries(m)'
    BY <2>1, <2>2, <2>3, <2>4, <2>7, <2>8, <2>9, NewCarrier
  <2>11. \A e \in DOMAIN data : data'[e] = data[e]
    BY <1>0, <2>4, <2>5 DEF DataOk, Live
  <2>12. /\ \A q \in DOMAIN bsplines : Remembers(q)'
         /\ \A o \in Carriers : Carries(o)'
    BY <2>1, <2>4, <2>5, <2>11, ConstructKeeps
  <2> QED BY <2>1, <2>6, <2>10, <2>12 DEF CoefficientsOk
<1>5. ASSUME NEW c \in Cursor, NEW m \in Mapping, ShareIgMappingData(c, m)
      PROVE  CoefficientsOk'
  <2>1. /\ Construct(c) /\ DOMAIN maps' = DOMAIN maps \cup {c}
        /\ UNCHANGED <<interior_mult, bsplines, nurbs, data, refine_signals>>
    BY <1>5 DEF ShareIgMappingData, With
  <2>2. Constructs(c)
    BY <1>0, <2>1 DEF Construct, Constructs, Extends, grid_vars, signal_vars
  <2>3. Carriers' = Carriers
    BY <1>0, <2>1 DEF Carriers
  <2>4. /\ \A q \in DOMAIN bsplines : Remembers(q)'
        /\ \A o \in Carriers : Carries(o)'
    BY <2>1, <2>2, ConstructKeeps
  <2> QED BY <2>1, <2>3, <2>4 DEF CoefficientsOk
<1> QED BY <1>2, <1>3, <1>4, <1>5

\* What a client lets go of leaves the others their slots and their coefficients.
LEMMA ReleaseFollows ==
  ASSUME GridRefinementAssumption, OneOwner, FollowInv, LivesInv', DataOk', NEW x \in Releasable,
         Release(x)
  PROVE  CoefficientsOk'
<1>0. /\ LivesInv /\ DataOk /\ CoefficientsOk /\ SignalsOk
      /\ Nurbs \cap (BSpline \cup Map) = {} /\ BSpline \cap Map = {}
      /\ BSpline \cap (Nurbs \cup Mapping) = {} /\ Nurbs \cap Mapping = {}
  BY DEF FollowInv, IInv, TypeInv, GridRefinementAssumption, Mapping
<1>a. PICK live : live = KeptAlive(held \ {x})
  OBVIOUS
<1>1. /\ ~refining
      /\ bsplines' = Restrict(bsplines, DOMAIN bsplines \cap live)
      /\ nurbs' = Restrict(nurbs, DOMAIN nurbs \cap live)
      /\ maps' = Restrict(maps, DOMAIN maps \cap live)
      /\ data' = Restrict(data, {maps[y].data : y \in DOMAIN maps \cap live})
      /\ disconnected' = disconnected \cup {StoredConnection(y) : y \in Live \ live}
      /\ UNCHANGED <<grid_vars, signal_vars, interior_mult, refine_signals>>
  BY <1>a DEF Release
<1>2. /\ DOMAIN bsplines' = DOMAIN bsplines \cap live
      /\ \A s \in DOMAIN bsplines' : bsplines'[s] = bsplines[s]
      /\ DOMAIN nurbs' = DOMAIN nurbs \cap live
      /\ \A w \in DOMAIN nurbs' : nurbs'[w] = nurbs[w]
      /\ DOMAIN maps' = DOMAIN maps \cap live
      /\ \A m \in DOMAIN maps' : maps'[m] = maps[m]
      /\ \A d \in DOMAIN data' : data'[d] = data[d]
  BY <1>1 DEF Restrict
<1>3. \A s \in DOMAIN bsplines' : Remembers(s)'
  <2>1. \A s \in DOMAIN bsplines' : Remembers(s) /\ bsplines'[s] = bsplines[s]
    BY <1>0, <1>2 DEF CoefficientsOk
  <2> QED BY <1>1, <2>1, RemembersStays DEF grid_vars, signal_vars
<1>4. ASSUME NEW o \in Carriers'
      PROVE  Carries(o)'
  <2>1. o \in Carriers /\ o \in live /\ Carries(o) /\ Attached(o)
    BY <1>0, <1>2, <1>4 DEF Carriers, CoefficientsOk, Carries
  <2>2. /\ \/ o \in Nurbs /\ o \in DOMAIN nurbs /\ o \notin Map
           \/ o \in Map /\ o \in DOMAIN maps /\ o \in DOMAIN data /\ o \notin Nurbs
        /\ OwnSlot(o)[1] = o
        /\ \A s : OwnSlot(o) # <<s, "bspline">>
    BY <1>0, <2>1, BasesLive
  <2>3. /\ o \in Nurbs => o \in DOMAIN nurbs'
        /\ o \notin Nurbs => o \in DOMAIN data'
    <3>1. o \in Nurbs => o \in DOMAIN nurbs'
      BY <1>2, <2>1, <2>2
    <3>2. ASSUME o \notin Nurbs
          PROVE  o \in DOMAIN data'
      <4>1. o \in DOMAIN maps' /\ o \in Map
        BY <1>2, <2>1, <2>2, <3>2
      <4>2. maps'[o].data = o
        BY <4>1 DEF DataOk
      <4> QED BY <4>1, <4>2 DEF LivesInv, ReferencesLive
    <3> QED BY <3>1, <3>2
  <2>4. BaseOf(o)' = BaseOf(o) /\ BaseOf(o) \in DOMAIN bsplines'
    <3>1. \A w \in DOMAIN nurbs \cap DOMAIN nurbs' : nurbs'[w].sp_space = nurbs[w].sp_space
      BY <1>2
    <3>2. o \notin Nurbs => data'[o].ref_space = data[o].ref_space
      BY <1>2, <2>3
    <3> QED BY <1>0, <1>4, <2>1, <3>1, <3>2, BaseStays
  <2>5. SizesOf(o)' = SizesOf(o) /\ (o \notin Nurbs => data'[o] = data[o])
    BY <1>2, <2>3 DEF SizesOf
  <2>6. OwnSlot(o) \notin disconnected'
    <3>1. ASSUME NEW y \in Live \ live
          PROVE  StoredConnection(y) # OwnSlot(o)
      <4>1. CASE y \in BSpline
        BY <2>2, <4>1 DEF StoredConnection
      <4>2. CASE y \in Nurbs
        <5>1. StoredConnection(y)[1] = y
          BY <1>0, <4>2 DEF StoredConnection
        <5> QED BY <2>1, <2>2, <3>1, <5>1
      <4>3. CASE y \notin BSpline \cup Nurbs
        <5>1. y \in DOMAIN maps /\ y \in Mapping
          BY <1>0, <3>1, <4>3 DEF Live, LivesInv, Members
        <5>2. StoredConnection(y) = maps[y].connection
          BY <4>3, <5>1 DEF StoredConnection
        <5>3. StoredConnection(y) = <<y, "control_mesh">> \/ StoredConnection(y) = NoConnection
          BY <1>0, <5>1, <5>2 DEF DataOk
        <5>4. OwnSlot(o) # NoConnection
          BY DEF OwnSlot, NoConnection
        <5> QED BY <2>1, <2>2, <3>1, <5>3, <5>4
      <4> QED BY <4>1, <4>2, <4>3
    <3> QED BY <1>1, <2>1, <3>1 DEF Attached
  <2>7. Attached(o)'
    <3>1. OwnSlot(o)' = OwnSlot(o)
      BY DEF OwnSlot
    <3> QED BY <1>1, <2>1, <2>4, <2>6, <3>1 DEF Attached, signal_vars
  <2>8. /\ bsplines'[BaseOf(o)] = bsplines[BaseOf(o)] /\ interior_mult' = interior_mult
        /\ pending' = pending
    BY <1>1, <1>2, <2>4 DEF signal_vars
  <2> QED BY <2>1, <2>4, <2>5, <2>7, <2>8, CarriesStays
<1> QED BY <1>3, <1>4 DEF CoefficientsOk

\* A refinement begins: no coefficients have been refined, and all slots wait.
LEMMA RefineFollows ==
  ASSUME GridRefinementAssumption, FollowInv, NEW dirs, NEW n, Refine(dirs, n)
  PROVE  CoefficientsOk'
<1>0. /\ LivesInv /\ DataOk /\ CoefficientsOk /\ SignalsOk
  BY DEF FollowInv, IInv, TypeInv
<1>1. /\ ~refining /\ pending = << >> /\ pending' = refine_signals
      /\ UNCHANGED <<interior_mult, bsplines, nurbs, maps, data, refine_signals, disconnected>>
  BY <1>0 DEF Refine, CallOrder, SignalsOk, object_vars, client_vars
<1>2. ASSUME NEW s \in DOMAIN bsplines
      PROVE  Remembers(s)' /\ Calls(pending', <<s, "spline">>)
  <2>1. Calls(pending', <<s, "spline">>)
    BY <1>0, <1>1 DEF SignalsOk, Connected
  <2>2. Remembers(s)
    BY <1>0 DEF CoefficientsOk
  <2> QED BY <1>1, <2>1, <2>2 DEF Remembers
<1>3. ASSUME NEW o \in Carriers
      PROVE  Carries(o)'
  <2>1. /\ Carries(o) /\ Attached(o)
        /\ BaseOf(o)' = BaseOf(o) /\ SizesOf(o)' = SizesOf(o) /\ OwnSlot(o)' = OwnSlot(o)
    BY <1>0, <1>1 DEF CoefficientsOk, Carries, BaseOf, BSplineOf, SizesOf, OwnSlot
  <2>2. Calls(pending', <<BaseOf(o), "spline">>) /\ Calls(pending', OwnSlot(o))
    BY <1>0, <1>1, <1>2, <2>1, BasesLive DEF Attached
  <2>3. Attached(o)'
    BY <1>1, <2>1, <2>2 DEF Attached
  <2>4. MultOf(o)' = interior_mult[BaseOf(o)]
    BY <1>1, <2>1, <2>2 DEF MultOf
  <2>5. MultOf(o) = interior_mult[BaseOf(o)]
    BY <1>1 DEF MultOf, Calls
  <2> QED BY <2>1, <2>2, <2>3, <2>4, <2>5 DEF Carries, NumBasisTable
<1> QED BY <1>1, <1>2, <1>3 DEF CoefficientsOk, Carriers

\* What is left to call when the first slot is over.
LEMMA AttachedStays ==
  ASSUME IInv, NEW o, Attached(o), pending # << >>, pending' = Tail(pending),
         UNCHANGED <<refine_signals, disconnected>>, BaseOf(o)' = BaseOf(o)
  PROVE  Attached(o)'
<1>1. pending \in Seq(Slot) /\ Once(pending)
  BY DEF IInv, SignalsOk
<1>2. /\ \A slot : slot # Head(pending) => (Calls(pending', slot) <=> Calls(pending, slot))
      /\ ~Calls(pending', Head(pending)) /\ Calls(pending, Head(pending))
  BY <1>1, AfterFirst
<1>3. ASSUME Calls(pending', <<BaseOf(o), "spline">>)
      PROVE  Calls(pending', OwnSlot(o))
  <2>1. Calls(pending, <<BaseOf(o), "spline">>)
    BY <1>2, <1>3
  <2>2. Head(pending) # OwnSlot(o)
    BY <2>1, FirstAttached
  <2> QED BY <1>2, <2>1, <2>2 DEF Attached
<1>4. Before(pending', <<BaseOf(o), "spline">>, OwnSlot(o))
  BY <1>1, BeforeAfterFirst DEF Attached
<1>5. OwnSlot(o)' = OwnSlot(o)
  BY DEF OwnSlot
<1> QED BY <1>3, <1>4, <1>5 DEF Attached

\* A space is refined: what carries coefficients over it has yet to be.
LEMMA SplineSlotFollows ==
  ASSUME GridRefinementAssumption, FollowInv, NEW s \in BSpline, SplineSlot(s)
  PROVE  CoefficientsOk'
<1>0. /\ LivesInv /\ DataOk /\ CoefficientsOk /\ SignalsOk /\ IInv /\ SizeTypes /\ ObjectsOk
  BY DEF FollowInv, IInv, TypeInv
<1>a. PICK M, K, M2 : /\ M = interior_mult[s] /\ K = grid_pre_refinement
                      /\ M2 = MultAfter(K, knot_coordinates, M, refinement_directions)
  OBVIOUS
<1>1. /\ pending # << >> /\ Head(pending) = <<s, "spline">> /\ pending' = Tail(pending)
      /\ s \in Live /\ refining
      /\ UNCHANGED <<knot_coordinates, grid_pre_refinement, refining, refinement_directions,
                     refine_signals, disconnected, nurbs, maps, data>>
  BY <1>0 DEF SplineSlot, Called, SignalsOk, grid_vars, client_vars
<1>2. s \in DOMAIN bsplines /\ Follows(s) /\ bsplines[s].mult = s /\ Mult(s) = M
  <2>1. s \in DOMAIN bsplines
    BY <1>0, <1>1 DEF ObjectsOk, Live, GridRefinementAssumption
  <2>2. Follows(s)
    BY <1>0, <2>1 DEF IInv
  <2>3. bsplines[s].mult = s
    BY <2>2 DEF Follows
  <2> QED BY <1>a, <2>1, <2>2, <2>3 DEF Mult
<1>3. /\ pending \in Seq(Slot) /\ Calls(pending, <<s, "spline">>) /\ ~Calls(pending', <<s, "spline">>)
      /\ \A slot : slot # <<s, "spline">> => (Calls(pending', slot) <=> Calls(pending, slot))
  <2>1. pending \in Seq(Slot) /\ Once(pending)
    BY <1>0 DEF SignalsOk
  <2> QED BY <1>1, <2>1, AfterFirst
<1>4. M \in Table /\ Fits(M, K)
  <2>1. s \in DOMAIN interior_mult
    BY <1>0, <1>2 DEF ObjectsOk
  <2> QED BY <1>0, <1>a, <1>2, <1>3, <2>1 DEF SizeTypes, Follows
<1>5. /\ interior_mult'[s] = M2
      /\ \A r \in DOMAIN bsplines : r # s => interior_mult'[r] = interior_mult[r]
  <2>1. interior_mult' = [interior_mult EXCEPT ![s] = M2]
    <3>1. RefinedMult(M) = M2
      BY <1>a DEF RefinedMult, RefineFactor, MultAfter
    <3> QED BY <1>2, <3>1 DEF SplineSlot
  <2> QED BY <1>0, <1>2, <2>1 DEF ObjectsOk
<1>6. /\ DOMAIN bsplines' = DOMAIN bsplines
      /\ \A r \in DOMAIN bsplines : r # s => bsplines'[r] = bsplines[r]
      /\ bsplines'[s].previous = [knots |-> K, mult |-> M]
      /\ bsplines'[s].space_dim = NumBasisTable(M2)
  <2>a. PICK old, dim : old = [knots |-> K, mult |-> M] /\ dim = NumBasisTable(M2)
    OBVIOUS
  <2>b. PICK dim0, old0, dofs0 :
          bsplines[s] = [mult |-> s, space_dim |-> dim0, previous |-> old0, dofs |-> dofs0]
    BY <1>2 DEF Follows
  <2>1. bsplines' = [bsplines EXCEPT ![s].previous = old, ![s].space_dim = dim]
    <3>1. RefinedMult(M) = M2
      BY <1>a DEF RefinedMult, RefineFactor, MultAfter
    <3> QED BY <1>a, <1>2, <2>a, <3>1 DEF SplineSlot
  <2>2. bsplines'[s] = [[bsplines[s] EXCEPT !.previous = old] EXCEPT !.space_dim = dim]
    BY <1>2, <2>1
  <2>3. [bsplines[s] EXCEPT !.previous = old]
          = [mult |-> s, space_dim |-> dim0, previous |-> old, dofs |-> dofs0]
    BY <2>b
  <2>4. bsplines'[s] = [mult |-> s, space_dim |-> dim, previous |-> old, dofs |-> dofs0]
    BY <2>2, <2>3
  <2>5. /\ DOMAIN bsplines' = DOMAIN bsplines
        /\ \A r \in DOMAIN bsplines : r # s => bsplines'[r] = bsplines[r]
    BY <2>1
  <2> QED BY <2>a, <2>4, <2>5
<1>7. Remembers(s)'
  <2>1. [knots |-> K, mult |-> M] # << >>
    BY <1>6
  <2>2. [knots |-> K, mult |-> M].knots = K /\ [knots |-> K, mult |-> M].mult = M
    OBVIOUS
  <2>3. bsplines'[s].previous # << >> /\ bsplines'[s].previous.knots = K
        /\ bsplines'[s].previous.mult = M
    BY <1>6, <2>1, <2>2
  <2>4. bsplines'[s].space_dim = NumBasisTable(interior_mult'[s])
    BY <1>5, <1>6
  <2> QED BY <1>a, <1>1, <1>4, <1>5, <2>3, <2>4 DEF Remembers, Fits, NumBasisTable
<1>8. ASSUME NEW r \in DOMAIN bsplines, r # s
      PROVE  Remembers(r)'
  <2>1. Remembers(r)
    BY <1>0 DEF CoefficientsOk
  <2>2. <<r, "spline">> # <<s, "spline">>
    BY <1>8
  <2>3. bsplines'[r] = bsplines[r] /\ interior_mult'[r] = interior_mult[r]
        /\ (Calls(pending', <<r, "spline">>) <=> Calls(pending, <<r, "spline">>))
    BY <1>3, <1>5, <1>6, <1>8, <2>2
  <2> QED BY <1>1, <2>1, <2>3, RemembersStays
<1>9. ASSUME NEW o \in Carriers
      PROVE  Carries(o)'
  <2>1. /\ Carries(o) /\ Attached(o) /\ BaseOf(o)' = BaseOf(o) /\ SizesOf(o)' = SizesOf(o)
        /\ OwnSlot(o)' = OwnSlot(o)
    BY <1>0, <1>1 DEF CoefficientsOk, Carries, BaseOf, BSplineOf, SizesOf, OwnSlot
  <2>2. Attached(o)'
    BY <1>0, <1>1, <2>1, AttachedStays
  <2>3. /\ BaseOf(o) \in DOMAIN bsplines /\ OwnSlot(o) # <<s, "spline">>
        /\ (Calls(pending', OwnSlot(o)) <=> Calls(pending, OwnSlot(o)))
    BY <1>0, <1>3, BasesLive
  <2>4. CASE BaseOf(o) # s
    <3>1. <<BaseOf(o), "spline">> # <<s, "spline">>
      BY <2>4
    <3>2. /\ bsplines'[BaseOf(o)] = bsplines[BaseOf(o)]
          /\ interior_mult'[BaseOf(o)] = interior_mult[BaseOf(o)]
          /\ (Calls(pending', <<BaseOf(o), "spline">>) <=> Calls(pending, <<BaseOf(o), "spline">>))
      BY <1>3, <1>5, <1>6, <2>3, <2>4, <3>1
    <3> QED BY <1>1, <2>1, <2>2, <2>3, <3>2, CarriesStays
  <2>5. CASE BaseOf(o) = s
    <3>1. Calls(pending', OwnSlot(o))
      BY <1>3, <2>1, <2>3, <2>5 DEF Attached
    <3>2. MultOf(o) = M
      BY <1>a, <1>3, <2>5 DEF MultOf
    <3>3. MultOf(o)' = M
      <4>1. MultOf(o)' = bsplines'[s].previous.mult
        BY <1>3, <2>1, <2>5, <3>1 DEF MultOf
      <4>2. [knots |-> K, mult |-> M].mult = M
        OBVIOUS
      <4> QED BY <1>6, <4>1, <4>2
    <3> QED BY <2>1, <2>2, <3>1, <3>2, <3>3 DEF Carries, NumBasisTable
  <2> QED BY <2>4, <2>5
<1>10. Carriers' = Carriers
  BY <1>1 DEF Carriers
<1> QED BY <1>6, <1>7, <1>8, <1>9, <1>10 DEF CoefficientsOk

\* Knots are inserted into the coefficients of o.
LEMMA OwnSlotFollows ==
  ASSUME GridRefinementAssumption, FollowInv, NEW o \in Carriers,
         pending # << >>, Head(pending) = OwnSlot(o), pending' = Tail(pending),
         UNCHANGED <<knot_coordinates, grid_pre_refinement, refining, refinement_directions,
                     refine_signals, disconnected, interior_mult, bsplines>>,
         Carriers' = Carriers, \A p \in Carriers : BaseOf(p)' = BaseOf(p),
         SizesOf(o)' = InsertKnots(SizesOf(o)),
         o \notin Nurbs => data'[o].control_points = TotalBasis(bsplines[BaseOf(o)].space_dim),
         \A p \in Carriers : p # o => /\ SizesOf(p)' = SizesOf(p)
                                      /\ p \notin Nurbs => data'[p] = data[p]
  PROVE  CoefficientsOk'
<1>0. /\ LivesInv /\ DataOk /\ CoefficientsOk /\ SignalsOk /\ IInv /\ GridOk /\ refining
  BY DEF FollowInv, IInv, TypeInv, SignalsOk
<1>1. /\ ~Calls(pending', OwnSlot(o)) /\ Calls(pending, OwnSlot(o))
      /\ \A slot : slot # OwnSlot(o) => (Calls(pending', slot) <=> Calls(pending, slot))
  <2>1. pending \in Seq(Slot) /\ Once(pending)
    BY <1>0 DEF SignalsOk
  <2> QED BY <2>1, AfterFirst
<1>2. \A p \in Carriers : /\ Carries(p) /\ Attached(p)
                          /\ BaseOf(p) \in DOMAIN bsplines /\ OwnSlot(p)[1] = p
                          /\ \A s : OwnSlot(p) # <<s, "spline">>
  BY <1>0, BasesLive DEF CoefficientsOk, Carries
<1>3. \A s \in DOMAIN bsplines : Remembers(s)'
  <2>1. \A s \in DOMAIN bsplines :
          Remembers(s) /\ (Calls(pending', <<s, "spline">>) <=> Calls(pending, <<s, "spline">>))
    BY <1>0, <1>1, <1>2 DEF CoefficientsOk
  <2> QED BY <2>1, RemembersStays
<1>4. ASSUME NEW p \in Carriers, p # o
      PROVE  Carries(p)'
  <2>1. Attached(p)'
    BY <1>0, <1>2, AttachedStays
  <2>2. /\ (Calls(pending', OwnSlot(p)) <=> Calls(pending, OwnSlot(p)))
        /\ (Calls(pending', <<BaseOf(p), "spline">>) <=> Calls(pending, <<BaseOf(p), "spline">>))
    BY <1>1, <1>2, <1>4
  <2> QED BY <1>2, <1>4, <2>1, <2>2, CarriesStays
<1>5. Carries(o)'
  <2>a. PICK s : s = BaseOf(o) /\ s \in DOMAIN bsplines
    BY <1>2
  <2>1. Attached(o)'
    BY <1>0, <1>2, AttachedStays
  <2>2. ~Calls(pending, <<s, "spline">>)
    BY <1>0, <1>2, <2>a, FirstAttached
  <2>3. Remembers(s)
    BY <1>0, <2>a DEF CoefficientsOk
  <2>b. PICK M : M = bsplines[s].previous.mult
    OBVIOUS
  <2>4. /\ M \in Table /\ Fits(M, grid_pre_refinement)
        /\ interior_mult[s] = MultAfter(grid_pre_refinement, knot_coordinates, M,
                                        refinement_directions)
    BY <1>0, <2>b, <2>2, <2>3 DEF Remembers
  <2>5. SizesOf(o) = NumBasisTable(M)
    BY <1>1, <1>2, <2>a, <2>b, <2>2 DEF Carries, MultOf
  <2>6. SizesOf(o)' = NumBasisTable(interior_mult[s])
    BY <1>0, <2>4, <2>5, InsertedNumber
  <2>7. OwnSlot(o)' = OwnSlot(o)
    BY DEF OwnSlot
  <2>8. MultOf(o)' = interior_mult[s]
    BY <1>1, <2>a, <2>7 DEF MultOf
  <2> QED BY <2>a, <2>1, <2>6, <2>8 DEF Carries, NumBasisTable
<1> QED BY <1>3, <1>4, <1>5 DEF CoefficientsOk

\* A slot that neither refines a space nor inserts knots is called or passed over.
LEMMA OtherSlotFollows ==
  ASSUME GridRefinementAssumption, FollowInv, pending # << >>, pending' = Tail(pending),
         \A s \in DOMAIN bsplines : Head(pending) # <<s, "spline">>,
         \A o \in Carriers : Head(pending) # OwnSlot(o),
         UNCHANGED <<knot_coordinates, grid_pre_refinement, refining, refinement_directions,
                     refine_signals, disconnected, interior_mult, nurbs, maps, data>>,
         DOMAIN bsplines' = DOMAIN bsplines,
         \A s \in DOMAIN bsplines : /\ bsplines'[s].previous = bsplines[s].previous
                                    /\ bsplines'[s].space_dim = bsplines[s].space_dim
  PROVE  CoefficientsOk'
<1>0. /\ LivesInv /\ DataOk /\ CoefficientsOk /\ SignalsOk /\ IInv
  BY DEF FollowInv, IInv, TypeInv
<1>1. \A slot : slot # Head(pending) => (Calls(pending', slot) <=> Calls(pending, slot))
  <2>1. pending \in Seq(Slot) /\ Once(pending)
    BY <1>0 DEF SignalsOk
  <2> QED BY <2>1, AfterFirst
<1>2. \A s \in DOMAIN bsplines : Remembers(s)'
  <2>1. \A s \in DOMAIN bsplines :
          Remembers(s) /\ (Calls(pending', <<s, "spline">>) <=> Calls(pending, <<s, "spline">>))
    BY <1>0, <1>1 DEF CoefficientsOk
  <2> QED BY <2>1, RemembersStays
<1>3. ASSUME NEW o \in Carriers
      PROVE  Carries(o)'
  <2>1. /\ Carries(o) /\ Attached(o) /\ BaseOf(o)' = BaseOf(o) /\ SizesOf(o)' = SizesOf(o)
    BY <1>0 DEF CoefficientsOk, Carries, BaseOf, BSplineOf, SizesOf
  <2>2. Attached(o)'
    BY <1>0, <2>1, AttachedStays
  <2>3. BaseOf(o) \in DOMAIN bsplines
    BY <1>0, BasesLive
  <2>4. /\ (Calls(pending', OwnSlot(o)) <=> Calls(pending, OwnSlot(o)))
        /\ (Calls(pending', <<BaseOf(o), "spline">>) <=> Calls(pending, <<BaseOf(o), "spline">>))
    BY <1>1, <2>3
  <2> QED BY <2>1, <2>2, <2>3, <2>4, CarriesStays
<1> QED BY <1>2, <1>3 DEF CoefficientsOk, Carriers

\* Every step leaves spaces, weights and control points as many as they are to be.
LEMMA NextCoefficients ==
  ASSUME GridRefinementAssumption, OneOwner, FollowInv, [Next]_vars, LivesInv', DataOk'
  PROVE  CoefficientsOk'
<1>0. /\ LivesInv /\ DataOk /\ CoefficientsOk /\ SignalsOk /\ IInv /\ ObjectsOk /\ SignalTypes
      /\ \A s \in DOMAIN bsplines : Follows(s)
      /\ Nurbs \cap Mapping = {} /\ BSpline \cap (Nurbs \cup Mapping) = {}
  BY DEF FollowInv, IInv, TypeInv, GridRefinementAssumption
<1>1. ASSUME NEW o, NEW f, Called(o, f)
      PROVE  /\ pending # << >> /\ Head(pending) = <<o, f>> /\ pending' = Tail(pending) /\ o \in Live
             /\ UNCHANGED <<knot_coordinates, grid_pre_refinement, refining, refinement_directions,
                            refine_signals, disconnected>>
  BY <1>1 DEF Called, grid_vars, client_vars
<1>2. ASSUME NEW s \in BSpline, BSplineSlot(s)
      PROVE  CoefficientsOk'
  <2>1. /\ pending # << >> /\ Head(pending) = <<s, "bspline">> /\ pending' = Tail(pending)
        /\ s \in Live
        /\ UNCHANGED <<knot_coordinates, grid_pre_refinement, refining, refinement_directions,
                       refine_signals, disconnected, interior_mult, nurbs, maps, data>>
        /\ bsplines' = [bsplines EXCEPT ![s].dofs = bsplines[s].space_dim]
    BY <1>1, <1>2 DEF BSplineSlot
  <2>2. s \in DOMAIN bsplines
    BY <1>0, <2>1 DEF ObjectsOk, Live
  <2>3. /\ DOMAIN bsplines' = DOMAIN bsplines
        /\ \A r \in DOMAIN bsplines : r # s => bsplines'[r] = bsplines[r]
        /\ bsplines'[s] = [mult |-> s, space_dim |-> bsplines[s].space_dim,
                           previous |-> bsplines[s].previous, dofs |-> bsplines[s].space_dim]
    <3>1. bsplines[s] = [mult |-> s, space_dim |-> bsplines[s].space_dim,
                         previous |-> bsplines[s].previous, dofs |-> bsplines[s].dofs]
      BY <1>0, <2>2 DEF Follows
    <3> QED BY <2>1, <2>2, <3>1
  <2>4. \A r \in DOMAIN bsplines : /\ bsplines'[r].previous = bsplines[r].previous
                                   /\ bsplines'[r].space_dim = bsplines[r].space_dim
    BY <2>3
  <2>5. \A o \in Carriers : Head(pending) # OwnSlot(o)
    BY <2>1 DEF OwnSlot
  <2>6. \A r \in DOMAIN bsplines : Head(pending) # <<r, "spline">>
    BY <2>1
  <2> QED BY <2>1, <2>3, <2>4, <2>5, <2>6, OtherSlotFollows
<1>3. CASE PassOver
  <2>1. /\ pending # << >> /\ pending' = Tail(pending) /\ Head(pending) \in disconnected
        /\ UNCHANGED <<knot_coordinates, grid_pre_refinement, refining, refinement_directions,
                       refine_signals, disconnected, interior_mult, bsplines, nurbs, maps, data>>
    BY <1>3 DEF PassOver, grid_vars, object_vars, client_vars
  <2>2. \A o \in Carriers : Head(pending) # OwnSlot(o)
    BY <1>0, <2>1 DEF CoefficientsOk, Carries, Attached
  <2>3. \A r \in DOMAIN bsplines : Head(pending) # <<r, "spline">>
    BY <1>0, <2>1 DEF SignalsOk, ObjectsOk
  <2> QED BY <2>1, <2>2, <2>3, OtherSlotFollows
<1>4. ASSUME NEW w \in Nurbs, WeightsSlot(w)
      PROVE  CoefficientsOk'
  <2>a. PICK sizes : sizes = InsertKnots(nurbs[w].weights)
    OBVIOUS
  <2>1. /\ pending # << >> /\ Head(pending) = <<w, "weights">> /\ pending' = Tail(pending)
        /\ w \in Live
        /\ UNCHANGED <<knot_coordinates, grid_pre_refinement, refining, refinement_directions,
                       refine_signals, disconnected, interior_mult, bsplines, maps, data>>
        /\ nurbs' = [nurbs EXCEPT ![w].weights = sizes]
    BY <1>1, <1>4, <2>a DEF WeightsSlot
  <2>2. w \in DOMAIN nurbs
    BY <1>0, <2>1 DEF ObjectsOk, Live
  <2>3. /\ DOMAIN nurbs' = DOMAIN nurbs
        /\ \A v \in DOMAIN nurbs : v # w => nurbs'[v] = nurbs[v]
        /\ nurbs'[w] = [sp_space |-> nurbs[w].sp_space, weights |-> sizes]
    <3>1. nurbs[w] = [sp_space |-> nurbs[w].sp_space, weights |-> nurbs[w].weights]
      BY <1>0, <2>2 DEF LivesInv, Members
    <3> QED BY <2>1, <2>2, <3>1
  <2>4. Carriers' = Carriers /\ w \in Carriers
    BY <2>1, <2>2, <2>3 DEF Carriers
  <2>5. \A v \in DOMAIN nurbs : nurbs'[v].sp_space = nurbs[v].sp_space
    BY <2>3
  <2>6. \A p \in Carriers : BaseOf(p)' = BaseOf(p)
    BY <1>0, <2>1, <2>3, <2>4, <2>5, BaseStays
  <2>7. OwnSlot(w) = <<w, "weights">> /\ SizesOf(w)' = InsertKnots(SizesOf(w))
    BY <2>a, <2>3 DEF OwnSlot, SizesOf
  <2>8. ASSUME NEW p \in Carriers, p # w
        PROVE  SizesOf(p)' = SizesOf(p)
    BY <1>0, <2>1, <2>3, <2>8, BasesLive DEF SizesOf
  <2>9. \A p \in Carriers : p # w => /\ SizesOf(p)' = SizesOf(p)
                                     /\ p \notin Nurbs => data'[p] = data[p]
    BY <2>1, <2>8
  <2> QED BY <2>1, <2>4, <2>6, <2>7, <2>9, OwnSlotFollows
<1>5. ASSUME NEW m \in Map, ControlMeshSlot(m)
      PROVE  CoefficientsOk'
  <2>1. /\ pending # << >> /\ Head(pending) = <<m, "control_mesh">> /\ pending' = Tail(pending)
        /\ m \in Live
        /\ UNCHANGED <<knot_coordinates, grid_pre_refinement, refining, refinement_directions,
                       refine_signals, disconnected, interior_mult, bsplines, nurbs, maps>>
    BY <1>1, <1>5 DEF ControlMeshSlot
  <2>2. m \in DOMAIN maps /\ m \notin Nurbs /\ m \in Carriers
    BY <1>0, <2>1 DEF ObjectsOk, Live, Mapping, Carriers
  <2>3. maps[m].data = m /\ m \in DOMAIN data
    BY <1>0, <2>2 DEF DataOk, LivesInv, ReferencesLive
  <2>a. PICK mesh, points, space :
          /\ space = data[m].ref_space
          /\ mesh = InsertKnots(data[m].ctrl_mesh)
          /\ points = TotalBasis(bsplines[BSplineOf(space)].space_dim)
    OBVIOUS
  <2>4. /\ DOMAIN data' = DOMAIN data /\ \A e \in DOMAIN data : e # m => data'[e] = data[e]
        /\ data'[m] = [ref_space |-> space, ctrl_mesh |-> mesh, control_points |-> points]
    <3>1. data' = [data EXCEPT ![m].ctrl_mesh = mesh, ![m].control_points = points]
      BY <1>5, <2>a, <2>3 DEF ControlMeshSlot
    <3>a. PICK mesh0, points0 :
            data[m] = [ref_space |-> space, ctrl_mesh |-> mesh0, control_points |-> points0]
      BY <1>0, <2>a, <2>3 DEF LivesInv, Members
    <3>2. data'[m] = [[data[m] EXCEPT !.ctrl_mesh = mesh] EXCEPT !.control_points = points]
      BY <2>3, <3>1
    <3>3. [data[m] EXCEPT !.ctrl_mesh = mesh]
            = [ref_space |-> space, ctrl_mesh |-> mesh, control_points |-> points0]
      BY <3>a
    <3>4. data'[m] = [ref_space |-> space, ctrl_mesh |-> mesh, control_points |-> points]
      BY <3>2, <3>3
    <3>5. DOMAIN data' = DOMAIN data /\ \A e \in DOMAIN data : e # m => data'[e] = data[e]
      BY <3>1
    <3> QED BY <3>4, <3>5
  <2>5. /\ OwnSlot(m) = <<m, "control_mesh">> /\ BaseOf(m) = BSplineOf(space)
        /\ SizesOf(m)' = InsertKnots(SizesOf(m))
        /\ data'[m].control_points = TotalBasis(bsplines[BaseOf(m)].space_dim)
    BY <2>a, <2>2, <2>4 DEF OwnSlot, BaseOf, SizesOf
  <2>6. Carriers' = Carriers
    BY <2>1 DEF Carriers
  <2>7. ASSUME NEW p \in Carriers
        PROVE  BaseOf(p)' = BaseOf(p)
    <3>1. p \notin Nurbs => p \in DOMAIN data
      BY <1>0, BasesLive
    <3>2. p \notin Nurbs => data'[p].ref_space = data[p].ref_space
      BY <2>a, <2>4, <3>1
    <3> QED BY <1>0, <2>1, <2>6, <3>2, BaseStays
  <2>8. ASSUME NEW p \in Carriers, p # m
        PROVE  SizesOf(p)' = SizesOf(p) /\ (p \notin Nurbs => data'[p] = data[p])
    <3>1. p \notin Nurbs => p \in DOMAIN data
      BY <1>0, BasesLive
    <3> QED BY <2>1, <2>4, <2>8, <3>1 DEF SizesOf
  <2> QED BY <2>1, <2>2, <2>5, <2>6, <2>7, <2>8, OwnSlotFollows
<1>6. CASE RefinementDone
  <2>1. /\ refining' = FALSE /\ pending' = pending
        /\ UNCHANGED <<interior_mult, bsplines, nurbs, maps, data, refine_signals, disconnected>>
    BY <1>6 DEF RefinementDone, object_vars, client_vars
  <2>2. \A s \in DOMAIN bsplines : Remembers(s)'
    BY <1>0, <2>1 DEF CoefficientsOk, Remembers
  <2>3. \A o \in Carriers : Carries(o)'
    BY <1>0, <2>1 DEF CoefficientsOk, Carries, Attached, MultOf, BaseOf, BSplineOf, SizesOf, OwnSlot
  <2> QED BY <2>1, <2>2, <2>3 DEF CoefficientsOk, Carriers
<1>7. CASE UNCHANGED vars
  <2>1. UNCHANGED <<knot_coordinates, grid_pre_refinement, refining, refinement_directions, pending,
                    interior_mult, bsplines, nurbs, maps, data, refine_signals, disconnected>>
    BY <1>7 DEF vars, grid_vars, signal_vars, object_vars, client_vars
  <2>2. \A s \in DOMAIN bsplines : Remembers(s)'
    BY <1>0, <2>1 DEF CoefficientsOk, Remembers
  <2>3. \A o \in Carriers : Carries(o)'
    BY <1>0, <2>1 DEF CoefficientsOk, Carries, Attached, MultOf, BaseOf, BSplineOf, SizesOf, OwnSlot
  <2> QED BY <2>1, <2>2, <2>3 DEF CoefficientsOk, Carriers
<1>8. CASE \/ \E s \in BSpline : \/ \E m \in Multiplicity : CreateBSplineSpace(s, m)
                                 \/ \E r \in BSpline : CreateOnTableOf(s, r)
                                 \/ \E w \in Nurbs : CreateNURBSSpace(w, s)
           \/ \E m \in Map, r \in Space : CreateIgMapping(m, r)
           \/ \E m \in Mapping, c \in Cursor : ShareIgMappingData(c, m)
           \/ \E m \in Mapping, c \in Copy : CopyIgMapping(c, m)
  BY <1>8, Constructors, ConstructFollows DEF OneOwner
<1>9. CASE \E o \in Releasable : Release(o)
  BY <1>9, ReleaseFollows
<1>10. CASE \E dirs, n : Refine(dirs, n)
  BY <1>10, RefineFollows
<1>11. CASE \E s \in BSpline : SplineSlot(s)
  BY <1>11, SplineSlotFollows
<1> QED BY <1>2, <1>3, <1>4, <1>5, <1>6, <1>7, <1>8, <1>9, <1>10, <1>11 DEF Next

\* Spaces, coefficients and slots stay together.
THEOREM CoefficientsInvariant ==
  ASSUME GridRefinementAssumption, OneOwner
  PROVE  Spec => []FollowInv
<1>1. Init => FollowInv
  <2>1. SUFFICES ASSUME Init
                 PROVE  FollowInv
    OBVIOUS
  <2>2. /\ DOMAIN bsplines = {} /\ DOMAIN nurbs = {} /\ DOMAIN maps = {} /\ DOMAIN data = {}
        /\ born = {} /\ disconnected = {} /\ pending = << >>
    BY <2>1 DEF Init
  <2>3. DataOk
    BY <2>2 DEF DataOk
  <2>4. SlotsOk
    BY <2>2 DEF SlotsOk
  <2>5. CoefficientsOk
    BY <2>2 DEF CoefficientsOk, Carriers
  <2> QED BY <2>1, <2>3, <2>4, <2>5, InitIInv, InitTypes DEF FollowInv
<1>2. FollowInv /\ [Next]_vars => FollowInv'
  <2>1. SUFFICES ASSUME FollowInv, [Next]_vars
                 PROVE  FollowInv'
    OBVIOUS
  <2>2. IInv'
    BY <2>1, NextIInv DEF FollowInv, OneOwner
  <2>3. TypeInv'
    BY <2>1, NextTypes DEF FollowInv
  <2>4. DataOk'
    BY <2>1, NextDataOk
  <2>5. SlotsOk'
    BY <2>1, NextSlotsOk
  <2>6. CoefficientsOk'
    BY <2>1, <2>3, <2>4, NextCoefficients DEF TypeInv
  <2> QED BY <2>2, <2>3, <2>4, <2>5, <2>6 DEF FollowInv
<1> QED BY <1>1, <1>2, PTL DEF Spec

\* Once a refinement has returned every space, all weights and all control points are
\* those of the grid, mappings that share data included: unless clients share a table,
\* copy a mapping, or let one go whose data others use.
THEOREM ObjectsAlwaysFollow ==
  ASSUME GridRefinementAssumption, OneOwner
  PROVE  Spec => []ObjectsFollowGrid
<1>1. ASSUME FollowInv
      PROVE  GeometryFollowsSpaces
  <2>0. /\ LivesInv /\ DataOk /\ SignalsOk /\ CoefficientsOk
        /\ DOMAIN nurbs \subseteq Nurbs /\ DOMAIN maps \subseteq Mapping /\ Nurbs \cap Mapping = {}
    BY <1>1 DEF FollowInv, IInv, TypeInv, LivesInv, Members, GridRefinementAssumption
  <2>1. ASSUME ~refining, NEW o \in Carriers
        PROVE  /\ SizesOf(o) = bsplines[BaseOf(o)].space_dim
               /\ o \notin Nurbs =>
                    data[o].control_points = TotalBasis(bsplines[BaseOf(o)].space_dim)
    <3>1. \A slot : ~Calls(pending, slot)
      BY <2>0, <2>1, NothingWaits
    <3>2. Carries(o) /\ BaseOf(o) \in DOMAIN bsplines
      BY <2>0, BasesLive DEF CoefficientsOk
    <3>3. Remembers(BaseOf(o))
      BY <2>0, <3>2 DEF CoefficientsOk
    <3> QED BY <3>1, <3>2, <3>3 DEF Carries, MultOf, Remembers
  <2>2. ASSUME ~refining, NEW w \in DOMAIN nurbs
        PROVE  nurbs[w].weights = bsplines[nurbs[w].sp_space].space_dim
    BY <2>0, <2>1, <2>2 DEF Carriers, SizesOf, BaseOf
  <2>3. ASSUME ~refining, NEW m \in DOMAIN maps
        PROVE  LET d == data[maps[m].data]
                   dims == bsplines[BSplineOf(d.ref_space)].space_dim
               IN  d.ctrl_mesh = dims /\ d.control_points = TotalBasis(dims)
    <3>1. PICK o \in DOMAIN maps \cap Map : o = maps[m].data
      BY <2>0 DEF DataOk
    <3>2. o \in Carriers /\ o \notin Nurbs
      BY <2>0, <3>1 DEF Carriers
    <3> QED BY <2>1, <2>3, <3>1, <3>2 DEF SizesOf, BaseOf
  <2> QED BY <2>2, <2>3 DEF GeometryFollowsSpaces
<1>2. ~SharesTables
  BY DEF OneOwner
<1> QED BY <1>1, <1>2, CoefficientsInvariant, SpacesAlwaysFollow, PTL DEF ObjectsFollowGrid

\* The assertions at the head of every slot hold when it is called: what it reads has
\* been refined before it and what it refines has not.  Clients keep their spaces, as
\* one that dies leaves the slot of its base class behind.
THEOREM SlotsFindWhatTheyNeed ==
  ASSUME GridRefinementAssumption, OneOwner, Releasable \cap BSpline = {}
  PROVE  Spec => []SlotPreconditions
<1>1. ASSUME FollowInv, pending # << >>, Head(pending) \notin disconnected
      PROVE  SlotPreconditions
  <2>0. /\ LivesInv /\ DataOk /\ SlotsOk /\ SignalsOk /\ CoefficientsOk /\ IInv /\ GridOk /\ refining
        /\ DOMAIN nurbs \subseteq Nurbs /\ Nurbs \cap Mapping = {}
    BY <1>1 DEF FollowInv, IInv, TypeInv, LivesInv, Members, GridRefinementAssumption, SignalsOk
  <2>1. /\ Head(pending) \in Slot /\ Head(pending)[1] \in born /\ Calls(pending, Head(pending))
    <3>1. pending \in Seq(Slot)
      BY <2>0 DEF SignalsOk
    <3>2. 1 \in DOMAIN pending /\ pending[1] = Head(pending) /\ Head(pending) \in Slot
      BY <1>1, <3>1
    <3> QED BY <2>0, <3>2 DEF SlotsOk, Calls
  <2>2. ASSUME NEW s \in BSpline, s \in born
        PROVE  s \in DOMAIN bsplines /\ Mult(s) = interior_mult[s] /\ Follows(s) /\ Remembers(s)
    <3>1. s \in DOMAIN bsplines
      BY <2>0, <2>2 DEF SlotsOk
    <3>2. Follows(s) /\ Remembers(s)
      BY <2>0, <3>1 DEF IInv, CoefficientsOk
    <3>3. bsplines[s].mult = s
      BY <3>2 DEF Follows
    <3> QED BY <3>1, <3>2, <3>3 DEF Mult
  <2>3. ASSUME NEW o \in Carriers, Head(pending) = OwnSlot(o)
        PROVE  InsertionReady(BaseOf(o), SizesOf(o))
    <3>a. PICK s : s = BaseOf(o) /\ s \in DOMAIN bsplines
      BY <2>0, BasesLive
    <3>1. Carries(o) /\ Attached(o) /\ Remembers(s)
      BY <2>0, <3>a DEF CoefficientsOk, Carries
    <3>2. ~Calls(pending, <<s, "spline">>)
      BY <1>1, <2>0, <2>3, <3>1, <3>a, FirstAttached
    <3>b. PICK M : M = bsplines[s].previous.mult
      OBVIOUS
    <3>3. /\ bsplines[s].previous # << >> /\ bsplines[s].previous.knots = grid_pre_refinement
          /\ M \in Table /\ Fits(M, grid_pre_refinement)
          /\ interior_mult[s] = MultAfter(grid_pre_refinement, knot_coordinates, M,
                                          refinement_directions)
          /\ bsplines[s].space_dim = NumBasisTable(interior_mult[s])
      BY <2>0, <3>1, <3>2, <3>b DEF Remembers
    <3>4. SizesOf(o) = NumBasisTable(M)
      BY <2>1, <2>3, <3>1, <3>2, <3>a, <3>b DEF Carries, MultOf
    <3>5. InsertKnots(SizesOf(o)) = bsplines[s].space_dim
      BY <2>0, <3>3, <3>4, InsertedNumber
    <3>6. ASSUME NEW d \in Dir
          PROVE  SizesOf(o)[d] = NumRepeatedKnots(Degree, M[d]) - Degree - 1
      <4>1. PICK c : c = Cardinality(Repeated(M[d]))
        OBVIOUS
      <4>2. PICK b : b = Degree + 1 /\ b \in Nat
        BY DEF GridRefinementAssumption
      <4>3. M[d] \in Seq(1 .. b)
        BY <3>3, <4>2 DEF Table
      <4>4. c \in Nat
        BY <4>1, <4>2, <4>3, RepeatedFinite
      <4>5. SizesOf(o)[d] = Degree + 1 + c
        BY <3>4, <4>1 DEF NumBasisTable, NumBasis
      <4>6. NumRepeatedKnots(Degree, M[d]) = 2 * (Degree + 1) + c
        BY <4>1 DEF NumRepeatedKnots
      <4>7. Degree \in Nat
        BY DEF GridRefinementAssumption
      <4> QED BY <4>4, <4>5, <4>6, <4>7
    <3>7. refinement_directions \subseteq Dir
      BY <2>0 DEF GridOk
    <3> QED BY <3>a, <3>b, <3>3, <3>5, <3>6, <3>7 DEF InsertionReady
  <2>c. ASSUME NEW o, NEW f, Head(pending) = <<o, f>>
        PROVE  /\ Head(pending)[1] = o /\ Head(pending)[2] = f
               /\ o \in born /\ Calls(pending, <<o, f>>) /\ <<o, f>> \notin disconnected
    <3>1. Head(pending)[1] = o /\ Head(pending)[2] = f
      BY <2>c
    <3> QED BY <1>1, <2>1, <2>c, <3>1
  <2>4. ASSUME NEW s \in BSpline, Head(pending) = <<s, "spline">>
        PROVE  SlotPreconditions
    <3>0. /\ Head(pending)[1] = s /\ Head(pending)[2] = "spline"
          /\ s \in born /\ Calls(pending, <<s, "spline">>)
      BY <2>4, <2>c
    <3>1. \A d \in Dir : Len(Mult(s)[d]) = Len(grid_pre_refinement[d]) - 2
      <4>1. Mult(s) = interior_mult[s] /\ Follows(s)
        BY <2>2, <3>0
      <4>2. Fits(interior_mult[s], grid_pre_refinement)
        BY <3>0, <4>1 DEF Follows
      <4> QED BY <4>1, <4>2 DEF Fits
    <3> QED BY <3>0, <3>1 DEF SlotPreconditions
  <2>5. ASSUME NEW s \in BSpline, Head(pending) = <<s, "bspline">>
        PROVE  SlotPreconditions
    <3>0. Head(pending)[1] = s /\ Head(pending)[2] = "bspline" /\ s \in born
      BY <2>5, <2>c
    <3>1. s \in DOMAIN bsplines /\ Mult(s) = interior_mult[s] /\ Remembers(s)
      BY <2>2, <3>0
    <3>2. ~Calls(pending, <<s, "spline">>)
      BY <1>1, <2>0, <2>5, <3>1, FirstInOrder
    <3>3. bsplines[s].space_dim = NumBasisTable(Mult(s)) /\ bsplines[s].previous # << >>
      BY <2>0, <3>1, <3>2 DEF Remembers
    <3> QED BY <3>0, <3>3 DEF SlotPreconditions
  <2>6. ASSUME NEW w \in Nurbs, Head(pending) = <<w, "weights">>
        PROVE  SlotPreconditions
    <3>0. /\ Head(pending)[1] = w /\ Head(pending)[2] = "weights" /\ w \in born
          /\ <<w, "weights">> \notin disconnected
      BY <2>6, <2>c
    <3>1. w \in DOMAIN nurbs
      BY <2>0, <3>0 DEF SlotsOk
    <3>2. w \in Carriers /\ OwnSlot(w) = <<w, "weights">>
      BY <3>1 DEF Carriers, OwnSlot
    <3>3. InsertionReady(nurbs[w].sp_space, nurbs[w].weights)
      BY <2>3, <2>6, <3>2 DEF BaseOf, SizesOf
    <3> QED BY <3>0, <3>3 DEF SlotPreconditions
  <2>7. ASSUME NEW m \in Map, Head(pending) = <<m, "control_mesh">>
        PROVE  SlotPreconditions
    <3>0. Head(pending)[1] = m /\ Head(pending)[2] = "control_mesh" /\ m \in born
      BY <2>7, <2>c
    <3>1. m \in DOMAIN maps /\ m \notin Nurbs
      BY <2>0, <3>0 DEF SlotsOk, Mapping
    <3>2. m \in Carriers /\ OwnSlot(m) = <<m, "control_mesh">> /\ maps[m].data = m
      BY <2>0, <3>1 DEF Carriers, OwnSlot, DataOk
    <3>3. InsertionReady(BSplineOf(data[maps[m].data].ref_space), data[maps[m].data].ctrl_mesh)
      BY <2>3, <2>7, <3>1, <3>2 DEF BaseOf, SizesOf
    <3> QED BY <3>0, <3>3 DEF SlotPreconditions
  <2> QED BY <2>1, <2>4, <2>5, <2>6, <2>7 DEF Slot
<1>2. FollowInv => SlotPreconditions
  BY <1>1 DEF SlotPreconditions
<1> QED BY <1>2, CoefficientsInvariant, PTL

-----------------------------------------------------------------------------
(* The spaces of one direction, by index and by coordinate.                  *)

\* The promise counts as the detailed specification does.
LEMMA SameCardinality == \A S : Promise!Cardinality(S) = Cardinality(S)
  BY DEF Promise!Cardinality, Cardinality

\* The knots of a direction are distinct and in order.
Increasing(K) == \A i, j \in DOMAIN K : i < j => K[i] < K[j]

\* Knots that are equal have one index, and knots in order have indices in order.
LEMMA IncreasingIndices ==
  ASSUME NEW K \in Seq(Int), Increasing(K), NEW i \in DOMAIN K, NEW j \in DOMAIN K
  PROVE  /\ K[i] \in Int /\ K[j] \in Int /\ i \in Nat /\ j \in Nat
         /\ K[i] = K[j] => i = j
         /\ K[i] < K[j] => i < j
         /\ i <= j => K[i] <= K[j]
<1>1. K[i] \in Int /\ K[j] \in Int /\ i \in Nat /\ j \in Nat
  OBVIOUS
<1>2. (i < j => K[i] < K[j]) /\ (j < i => K[j] < K[i])
  BY DEF Increasing
<1>3. i < j \/ i = j \/ j < i
  BY <1>1
<1> QED BY <1>1, <1>2, <1>3

\* The interior knots are those the multiplicities are given to.
LEMMA InteriorCoordinates ==
  ASSUME NEW K \in Seq(Int), Len(K) >= 2, Increasing(K),
         NEW m, m \in Seq(Nat), Len(m) = Len(K) - 2
  PROVE  {InteriorKnot(K, i) : i \in DOMAIN m} = Promise!Interior(ToSet(K))
<1>a. PICK L : L = Len(K) /\ L \in Nat /\ L >= 2 /\ DOMAIN K = 1 .. L
  OBVIOUS
<1>1. DOMAIN m = 1 .. L - 2
  BY <1>a
<1>2. ASSUME NEW i \in DOMAIN m
      PROVE  K[i + 1] \in Promise!Interior(ToSet(K))
  <2>1. {1, i + 1, L} \subseteq DOMAIN K /\ 1 < i + 1 /\ i + 1 < L
    BY <1>a, <1>1
  <2>2. K[1] < K[i + 1] /\ K[i + 1] < K[L]
    BY <2>1 DEF Increasing
  <2> QED BY <2>1, <2>2 DEF Promise!Interior, ToSet
<1>3. ASSUME NEW k \in Promise!Interior(ToSet(K))
      PROVE  \E i \in DOMAIN m : k = K[i + 1]
  <2>1. PICK x \in DOMAIN K, a \in DOMAIN K, b \in DOMAIN K :
               k = K[x] /\ K[a] < K[x] /\ K[x] < K[b]
    BY DEF Promise!Interior, ToSet
  <2>2. a < x /\ x < b
    BY <2>1, IncreasingIndices
  <2>3. x \in 1 .. L /\ 1 < x /\ x < L
    <3>1. a \in 1 .. L /\ b \in 1 .. L /\ x \in 1 .. L
      BY <1>a
    <3> QED BY <1>a, <2>2, <3>1
  <2>4. x - 1 \in 1 .. L - 2 /\ (x - 1) + 1 = x
    BY <1>a, <2>3
  <2> QED BY <1>1, <2>1, <2>4
<1> QED BY <1>2, <1>3 DEF InteriorKnot

\* f gives the multiplicities m to the interior ones of the knots K.
Along(K, m, f) ==
  /\ DOMAIN f = Promise!Interior(ToSet(K))
  /\ \A i \in DOMAIN m : /\ i + 1 \in DOMAIN K
                         /\ K[i + 1] \in DOMAIN f
                         /\ f[K[i + 1]] = m[i]
  /\ \A k \in DOMAIN f : \E i \in DOMAIN m : k = K[i + 1]
  /\ \A i, j \in DOMAIN m : K[i + 1] = K[j + 1] => i = j

\* Multiplicities by coordinate are those by index.
LEMMA AtCoordinate ==
  ASSUME NEW K \in Seq(Int), Len(K) >= 2, Increasing(K),
         NEW m, m \in Seq(Nat), Len(m) = Len(K) - 2,
         NEW f, f = ByCoordinate(K, m)
  PROVE  Along(K, m, f)
<1>0. \A i \in DOMAIN m : i \in Nat /\ i + 1 \in DOMAIN K
  OBVIOUS
<1>1. \A i, j \in DOMAIN m : K[i + 1] = K[j + 1] => i = j
  <2>1. ASSUME NEW i \in DOMAIN m, NEW j \in DOMAIN m, K[i + 1] = K[j + 1]
        PROVE  i = j
    <3>1. i + 1 = j + 1
      BY <1>0, <2>1, IncreasingIndices
    <3> QED BY <1>0, <3>1
  <2> QED BY <2>1
<1>2. f = [k \in {K[i + 1] : i \in DOMAIN m} |->
                              m[CHOOSE i \in DOMAIN m : K[i + 1] = k]]
  BY DEF ByCoordinate, InteriorKnot
<1>3. DOMAIN f = {K[i + 1] : i \in DOMAIN m}
  BY <1>2
<1>4. ASSUME NEW i \in DOMAIN m
      PROVE  f[K[i + 1]] = m[i]
  <2>1. PICK c : c = CHOOSE j \in DOMAIN m : K[j + 1] = K[i + 1]
    OBVIOUS
  <2>2. c \in DOMAIN m /\ K[c + 1] = K[i + 1]
    BY <2>1
  <2>3. c = i
    BY <1>1, <2>2
  <2>4. f[K[i + 1]] = m[c]
    BY <1>2, <2>1
  <2> QED BY <2>3, <2>4
<1>5. DOMAIN f = Promise!Interior(ToSet(K))
  BY <1>3, InteriorCoordinates DEF InteriorKnot
<1> QED BY <1>0, <1>1, <1>3, <1>4, <1>5 DEF Along

\* Counted by coordinate or by index, the repeated knots are as many.
LEMMA CountedByCoordinate ==
  ASSUME Degree \in Nat,
         NEW K \in Seq(Int), Len(K) >= 2, Increasing(K),
         NEW m, m \in Seq(1 .. Degree + 1), Len(m) = Len(K) - 2,
         NEW f, f = ByCoordinate(K, m)
  PROVE  Cardinality(Promise!Repetitions(f)) = Cardinality(Repeated(m))
<1>1. m \in Seq(Nat)
  OBVIOUS
<1>2. /\ \A i \in DOMAIN m : K[i + 1] \in DOMAIN f /\ f[K[i + 1]] = m[i]
      /\ \A k \in DOMAIN f : \E i \in DOMAIN m : k = K[i + 1]
      /\ \A i, j \in DOMAIN m : K[i + 1] = K[j + 1] => i = j
  <2>1. Along(K, m, f)
    BY <1>1, AtCoordinate
  <2> QED BY <2>1 DEF Along
<1>3. PICK T : T = Promise!Repetitions(f)
  OBVIOUS
<1>4. \A t : t \in T <=> \E k \in DOMAIN f : \E r \in 1 .. f[k] : t = <<k, r>>
  BY <1>3 DEF Promise!Repetitions
<1>5. PICK g : g = [x \in Repeated(m) |-> <<K[x[1] + 1], x[2]>>]
  OBVIOUS
<1>6. \A i \in DOMAIN m : \A r \in 1 .. m[i] :
         <<i, r>> \in Repeated(m) /\ g[<<i, r>>] = <<K[i + 1], r>>
  BY <1>5, RepeatedElements
<1>7. g \in [Repeated(m) -> T]
  <2>1. ASSUME NEW x \in Repeated(m)
        PROVE  g[x] \in T
    <3>1. PICK i \in DOMAIN m : \E r \in 1 .. m[i] : x = <<i, r>>
      BY RepeatedElements
    <3>2. PICK r \in 1 .. m[i] : x = <<i, r>>
      BY <3>1
    <3>3. g[x] = <<K[i + 1], r>>
      BY <1>6, <3>2
    <3>4. K[i + 1] \in DOMAIN f /\ r \in 1 .. f[K[i + 1]]
      BY <1>2
    <3> QED BY <1>4, <3>3, <3>4
  <2> QED BY <1>5, <2>1
<1>8. ASSUME NEW x \in Repeated(m), NEW y \in Repeated(m), g[x] = g[y]
      PROVE  x = y
  <2>1. PICK i \in DOMAIN m : \E r \in 1 .. m[i] : x = <<i, r>>
    BY RepeatedElements
  <2>2. PICK r \in 1 .. m[i] : x = <<i, r>>
    BY <2>1
  <2>3. PICK j \in DOMAIN m : \E s \in 1 .. m[j] : y = <<j, s>>
    BY RepeatedElements
  <2>4. PICK s \in 1 .. m[j] : y = <<j, s>>
    BY <2>3
  <2>5. <<K[i + 1], r>> = <<K[j + 1], s>>
    BY <1>6, <1>8, <2>2, <2>4
  <2>6. i = j /\ r = s
    BY <1>2, <2>5
  <2> QED BY <2>2, <2>4, <2>6
<1>9. ASSUME NEW t \in T
      PROVE  \E x \in Repeated(m) : g[x] = t
  <2>1. PICK k \in DOMAIN f : \E r \in 1 .. f[k] : t = <<k, r>>
    BY <1>4
  <2>2. PICK r \in 1 .. f[k] : t = <<k, r>>
    BY <2>1
  <2>3. PICK i \in DOMAIN m : k = K[i + 1]
    BY <1>2
  <2>4. r \in 1 .. m[i]
    BY <1>2, <2>3
  <2> QED BY <1>6, <2>2, <2>3, <2>4
<1>10. IsFiniteSet(Repeated(m))
  BY RepeatedFinite
<1>11. Cardinality(T) = Cardinality(Repeated(m))
  BY <1>7, <1>8, <1>9, <1>10, SameNumber
<1> QED BY <1>3, <1>11

\* The grid of one direction is a grid with increasing knots.
GoodGrid(K) == GridKnots(K) /\ \A d \in Dir : Increasing(K[d])

\* The dimension of a space by coordinate is the number of its functions.
LEMMA DimensionByCoordinate ==
  ASSUME Degree \in Nat, NEW K, GoodGrid(K), NEW M \in Table, Fits(M, K)
  PROVE  Promise!Dimension([d \in Dir |-> ByCoordinate(K[d], M[d])]) = NumBasisTable(M)
<1>1. PICK F : F = [d \in Dir |-> ByCoordinate(K[d], M[d])]
  OBVIOUS
<1>2. ASSUME NEW d \in Dir
      PROVE  Promise!Dimension(F)[d] = NumBasisTable(M)[d]
  <2>1. /\ K[d] \in Seq(Int) /\ Len(K[d]) >= 2 /\ Increasing(K[d])
        /\ M[d] \in Seq(1 .. Degree + 1) /\ Len(M[d]) = Len(K[d]) - 2
    BY DEF GoodGrid, GridKnots, Table, Fits
  <2>2. PICK f : f = F[d]
    OBVIOUS
  <2>3. f = ByCoordinate(K[d], M[d])
    BY <1>1, <2>2
  <2>4. Cardinality(Promise!Repetitions(f)) = Cardinality(Repeated(M[d]))
    <3>1. PICK L, m : L = K[d] /\ m = M[d]
      OBVIOUS
    <3>2. f = ByCoordinate(L, m) /\ Len(m) = Len(L) - 2
      BY <2>1, <2>3, <3>1
    <3>3. L \in Seq(Int) /\ Len(L) >= 2 /\ Increasing(L) /\ m \in Seq(1 .. Degree + 1)
      BY <2>1, <3>1
    <3>4. Cardinality(Promise!Repetitions(f)) = Cardinality(Repeated(m))
      BY <3>2, <3>3, CountedByCoordinate
    <3> QED BY <3>1, <3>4
  <2>5. Promise!Dimension(F)[d]
          = Degree + 1 + Cardinality(Promise!Repetitions(f))
    <3>1. Promise!Dimension(F)[d] = Degree + 1 + Promise!Cardinality(Promise!Repetitions(F[d]))
      BY DEF Promise!Dimension
    <3> QED BY <2>2, <3>1, SameCardinality
  <2>6. NumBasisTable(M)[d] = Degree + 1 + Cardinality(Repeated(M[d]))
    BY DEF NumBasisTable, NumBasis
  <2> QED BY <2>4, <2>5, <2>6
<1>3. DOMAIN Promise!Dimension(F) = Dir /\ DOMAIN NumBasisTable(M) = Dir
  BY DEF Promise!Dimension, NumBasisTable
<1>4. Promise!Dimension(F) = [d \in Dir |-> Promise!Dimension(F)[d]]
  BY DEF Promise!Dimension
<1>5. NumBasisTable(M) = [d \in Dir |-> NumBasisTable(M)[d]]
  BY DEF NumBasisTable
<1>6. Promise!Dimension(F) = NumBasisTable(M)
  BY <1>2, <1>4, <1>5
<1> QED BY <1>1, <1>6

-----------------------------------------------------------------------------
(* The knots of a refined direction.                                         *)

\* Knot r of interval q + 1 of the refined direction.
Value(K, n, q, r) ==
  IF r = 0 THEN K[q + 1] ELSE K[q + 1] + r * ((K[q + 2] - K[q + 1]) \div n)

\* R are n knots for each of m intervals of K, and the last one.
Numbered(K, n, m, R) ==
  /\ m \in Nat \ {0} /\ DOMAIN K = 1 .. m + 1
  /\ \A q \in 0 .. m, r \in 0 .. n - 1 : q < m \/ r = 0 =>
       q * n + r + 1 \in DOMAIN R /\ R[q * n + r + 1] = Value(K, n, q, r)
  /\ \A x \in DOMAIN R : \E q \in 0 .. m, r \in 0 .. n - 1 :
       (q < m \/ r = 0) /\ x = q * n + r + 1

\* The refined knots of a direction, by interval and number within it.
LEMMA RefinedNumbered ==
  ASSUME NEW K \in Seq(Int), Len(K) >= 2, NEW n \in Nat \ {0}
  PROVE  Numbered(K, n, Intervals(K), RefineKnots(K, n))
<1>m. PICK m : m = Intervals(K)
  OBVIOUS
<1>0. m \in Nat \ {0} /\ DOMAIN K = 1 .. m + 1
  <2>1. m \in Nat \ {0}
    BY <1>m, AnInterval
  <2> QED BY <1>m, <2>1 DEF Intervals
<1>a. PICK N : N = m * n
  OBVIOUS
<1>1. N \in Nat
  BY <1>0, <1>a
<1>2. DOMAIN RefineKnots(K, n) = 1 .. N + 1
  <2>1. DOMAIN RefineKnots(K, n) = 1 .. n * m + 1
    BY <1>m DEF RefineKnots
  <2>2. n * m = N
    BY <1>0, <1>a
  <2> QED BY <2>1, <2>2
<1>3. \A i \in 1 .. N + 1 :
        RefineKnots(K, n)[i] = IF (i - 1) % n = 0
          THEN K[1 + (i - 1) \div n]
          ELSE K[1 + (i - 1) \div n]
                 + ((i - 1) % n) * ((K[1 + (i - 1) \div n + 1] - K[1 + (i - 1) \div n]) \div n)
  BY <1>2 DEF RefineKnots
<1>4. ASSUME NEW q \in 0 .. m, NEW r \in 0 .. n - 1, q < m \/ r = 0
      PROVE  /\ q * n + r + 1 \in 1 .. N + 1
             /\ RefineKnots(K, n)[q * n + r + 1]
                  = IF r = 0 THEN K[q + 1] ELSE K[q + 1] + r * ((K[q + 2] - K[q + 1]) \div n)
  <2>a. PICK p : p = q * n + r
    OBVIOUS
  <2>1. q \in Nat /\ r \in Nat /\ r < n
    BY <1>0
  <2>b. PICK w : w = q * n
    OBVIOUS
  <2>2. w \in Nat /\ p = w + r /\ p \in Nat
    BY <2>a, <2>b, <2>1
  <2>3. p <= N
    <3>1. q < m => w <= N - n
      BY <1>0, <1>a, <2>1, <2>b, MultiplesOrdered
    <3>2. q <= m => w <= N
      BY <1>0, <1>a, <2>1, <2>b, MultiplesOrdered
    <3> QED BY <1>1, <1>4, <2>1, <2>2, <3>1, <3>2
  <2>4. p \div n = q /\ p % n = r
    BY <2>1, <2>a, Z3
  <2>5. p + 1 \in 1 .. N + 1 /\ (p + 1) - 1 = p
    BY <1>1, <2>2, <2>3
  <2>c. PICK x : x = p + 1
    OBVIOUS
  <2>6. x \in 1 .. N + 1 /\ (x - 1) \div n = q /\ (x - 1) % n = r
    BY <2>4, <2>5, <2>c
  <2>7. RefineKnots(K, n)[x] = IF r = 0 THEN K[1 + q]
                                 ELSE K[1 + q] + r * ((K[1 + q + 1] - K[1 + q]) \div n)
    BY <1>3, <2>6
  <2>8. 1 + q = q + 1 /\ 1 + q + 1 = q + 2
    BY <2>1
  <2> QED BY <2>a, <2>c, <2>6, <2>7, <2>8
<1>5. ASSUME NEW x \in 1 .. N + 1
      PROVE  \E q \in 0 .. m, r \in 0 .. n - 1 : (q < m \/ r = 0) /\ x = q * n + r + 1
  <2>a. PICK q, r : q = (x - 1) \div n /\ r = (x - 1) % n
    OBVIOUS
  <2>1. q \in Nat /\ r \in 0 .. n - 1 /\ x - 1 = q * n + r
    <3>1. x - 1 \in Nat
      BY <1>1
    <3> QED BY <2>a, <3>1, QuotientAndRest
  <2>2. q <= m /\ (r # 0 => q < m)
    <3>1. q * n + r <= m * n
      BY <1>1, <1>a, <2>1
    <3> QED BY <1>0, <2>1, <3>1, MultiplesOrdered
  <2>3. x = q * n + r + 1
    <3>1. PICK w : w = q * n
      OBVIOUS
    <3>2. w \in Nat
      BY <2>1, <3>1
    <3> QED BY <1>1, <2>1, <3>1, <3>2
  <2>4. q \in 0 .. m /\ (q < m \/ r = 0)
    BY <1>0, <2>1, <2>2
  <2> QED BY <2>1, <2>3, <2>4
<1>6. \A q \in 0 .. m, r \in 0 .. n - 1 : q < m \/ r = 0 =>
        /\ q * n + r + 1 \in DOMAIN RefineKnots(K, n)
        /\ RefineKnots(K, n)[q * n + r + 1] = Value(K, n, q, r)
  BY <1>2, <1>4 DEF Value
<1>7. \A x \in DOMAIN RefineKnots(K, n) : \E q \in 0 .. m, r \in 0 .. n - 1 :
        (q < m \/ r = 0) /\ x = q * n + r + 1
  BY <1>2, <1>5
<1>8. Numbered(K, n, m, RefineKnots(K, n))
  BY <1>0, <1>6, <1>7 DEF Numbered
<1> QED BY <1>m, <1>8

\* Inside an interval: the step is a divisor of its length, and the knots stay in order.
Steps(a, b, n, step) ==
  /\ a \in Int /\ b \in Int
  /\ step \in Nat \ {0} /\ b - a = n * step
  /\ \A r \in 0 .. n - 1 : /\ r * step \in Nat /\ a + r * step < b
                           /\ r # 0 => a < a + r * step
  /\ \A r, s \in 0 .. n - 1 : r < s => a + r * step < a + s * step

\* Division of an interval whose length n divides.
LEMMA InInterval ==
  ASSUME NEW n \in Nat \ {0}, NEW a \in Int, NEW b \in Int, a < b, (b - a) % n = 0,
         NEW step, step = (b - a) \div n
  PROVE  Steps(a, b, n, step)
<1>1. b - a \in Nat \ {0}
  OBVIOUS
<1>2. step \in Nat /\ b - a = step * n
  <2>1. PICK D : D = b - a
    OBVIOUS
  <2>2. D \in Nat /\ D % n = 0 /\ step = D \div n
    BY <1>1, <2>1
  <2>3. D = step * n + 0 /\ step \in Nat
    BY <2>2, QuotientAndRest
  <2> QED BY <2>1, <2>3
<1>3. step # 0
  BY <1>1, <1>2
<1>4. b - a = n * step
  BY <1>2
<1>5. ASSUME NEW r \in 0 .. n - 1
      PROVE  r * step \in Nat /\ r * step < n * step /\ (r # 0 => 0 < r * step)
  <2>1. r \in Nat /\ r < n
    OBVIOUS
  <2>2. r * step \in Nat /\ r * step <= n * step - step
    BY <1>2, <1>3, <2>1, MultiplesOrdered
  <2>3. n * step \in Nat
    BY <1>2
  <2>4. r # 0 => 0 < r * step
    BY <1>2, <1>3, <2>1
  <2> QED BY <1>2, <1>3, <2>2, <2>3, <2>4
<1>6. \A r \in 0 .. n - 1 : /\ r * step \in Nat /\ a + r * step < b
                            /\ r # 0 => a < a + r * step
  <2>1. ASSUME NEW r \in 0 .. n - 1
        PROVE  r * step \in Nat /\ a + r * step < b /\ (r # 0 => a < a + r * step)
    <3>1. PICK w, v : w = r * step /\ v = n * step
      OBVIOUS
    <3>2. w \in Nat /\ w < v /\ (r # 0 => 0 < w) /\ b - a = v /\ v \in Int
      BY <1>1, <1>4, <1>5, <3>1
    <3>3. a + w < b /\ (r # 0 => a < a + w)
      BY <3>2
    <3> QED BY <3>1, <3>2, <3>3
  <2> QED BY <2>1
<1>7. ASSUME NEW r \in 0 .. n - 1, NEW s \in 0 .. n - 1, r < s
      PROVE  a + r * step < a + s * step
  <2>1. r * step <= s * step - step
    BY <1>2, <1>3, <1>7, MultiplesOrdered
  <2>2. r * step \in Nat /\ s * step \in Nat
    BY <1>5
  <2> QED BY <1>2, <1>3, <2>1, <2>2
<1> QED BY <1>2, <1>3, <1>4, <1>6, <1>7 DEF Steps

\* One interval of the grid: its ends, and that no knot lies between them.
LEMMA OneInterval ==
  ASSUME NEW K \in Seq(Int), Len(K) >= 2, Increasing(K), NEW q \in 1 .. Intervals(K)
  PROVE  /\ q \in DOMAIN K /\ q + 1 \in DOMAIN K
         /\ K[q] \in Int /\ K[q + 1] \in Int /\ K[q] < K[q + 1]
         /\ \A c \in ToSet(K) : c <= K[q] \/ K[q + 1] <= c
         /\ K[1] <= K[q] /\ K[q + 1] <= K[Len(K)]
         /\ K[1] \in Int /\ K[Len(K)] \in Int
<1>1. /\ q \in Nat /\ q \in DOMAIN K /\ q + 1 \in DOMAIN K
      /\ 1 \in DOMAIN K /\ Len(K) \in DOMAIN K /\ 1 <= q /\ q + 1 <= Len(K)
  BY DEF Intervals
<1>2. K[q] \in Int /\ K[q + 1] \in Int /\ K[q] < K[q + 1]
  <2>1. q < q + 1
    BY <1>1
  <2> QED BY <1>1, <2>1 DEF Increasing
<1>3. ASSUME NEW c \in ToSet(K)
      PROVE  c <= K[q] \/ K[q + 1] <= c
  <2>1. PICK x \in DOMAIN K : c = K[x]
    BY DEF ToSet
  <2>2. x <= q \/ q + 1 <= x
    BY <1>1
  <2>3. (x <= q => K[x] <= K[q]) /\ (q + 1 <= x => K[q + 1] <= K[x])
    BY <1>1, IncreasingIndices
  <2> QED BY <2>1, <2>2, <2>3
<1>4. K[1] <= K[q] /\ K[q + 1] <= K[Len(K)] /\ K[1] \in Int /\ K[Len(K)] \in Int
  BY <1>1, IncreasingIndices
<1> QED BY <1>1, <1>2, <1>3, <1>4

\* The first and the last knot are the least and the greatest.
LEMMA Ends ==
  ASSUME NEW K \in Seq(Int), Len(K) >= 2, Increasing(K)
  PROVE  /\ (CHOOSE a \in ToSet(K) : \A b \in ToSet(K) : a <= b) = K[1]
         /\ (CHOOSE b \in ToSet(K) : \A a \in ToSet(K) : a <= b) = K[Len(K)]
<1>1. PICK S, L : S = ToSet(K) /\ L = Len(K)
  OBVIOUS
<1>2. 1 \in DOMAIN K /\ L \in DOMAIN K /\ \A x \in DOMAIN K : 1 <= x /\ x <= L
  BY <1>1
<1>3. \A s \in S : \E x \in DOMAIN K : s = K[x]
  BY <1>1 DEF ToSet
<1>4. \A s \in S : s \in Int /\ K[1] <= s /\ s <= K[L]
  BY <1>2, <1>3, IncreasingIndices
<1>5. K[1] \in S /\ K[L] \in S
  BY <1>1, <1>2 DEF ToSet
<1>6. (CHOOSE a \in S : \A b \in S : a <= b) = K[1]
  <2>1. PICK c : c = CHOOSE a \in S : \A b \in S : a <= b
    OBVIOUS
  <2>2. c \in S /\ \A b \in S : c <= b
    BY <1>4, <1>5, <2>1
  <2>3. c <= K[1] /\ K[1] <= c /\ c \in Int /\ K[1] \in Int
    BY <1>4, <1>5, <2>2
  <2> QED BY <2>1, <2>3
<1>7. (CHOOSE b \in S : \A a \in S : a <= b) = K[L]
  <2>1. PICK c : c = CHOOSE b \in S : \A a \in S : a <= b
    OBVIOUS
  <2>2. c \in S /\ \A a \in S : a <= c
    BY <1>4, <1>5, <2>1
  <2>3. c <= K[L] /\ K[L] <= c /\ c \in Int /\ K[L] \in Int
    BY <1>4, <1>5, <2>2
  <2> QED BY <2>1, <2>3
<1> QED BY <1>1, <1>6, <1>7

\* k cuts interval q of K where one n-th of the interval ends.
Cuts(K, n, q, k) ==
  /\ k \in Int /\ K[q] < k /\ k < K[q + 1]
  /\ (n * (k - K[q])) % (K[q + 1] - K[q]) = 0

\* What the promise adds to the knots, interval by interval.
LEMMA CutElements ==
  ASSUME NEW K \in Seq(Int), Len(K) >= 2, Increasing(K), NEW n \in Nat \ {0}, NEW k
  PROVE  k \in Promise!Cut(ToSet(K), n)
           <=> k \in ToSet(K) \/ \E q \in 1 .. Intervals(K) : Cuts(K, n, q, k)
<1>a. PICK S : S = ToSet(K)
  OBVIOUS
<1>b. PICK first, last : /\ first = CHOOSE a \in S : \A b \in S : a <= b
                         /\ last = CHOOSE b \in S : \A a \in S : a <= b
  OBVIOUS
<1>c. first = K[1] /\ last = K[Len(K)]
  BY <1>a, <1>b, Ends
<1>1. S = ToSet(K) /\ first = K[1] /\ last = K[Len(K)]
  BY <1>a, <1>c
<1>2. k \in Promise!Cut(S, n) <=>
        \/ k \in S
        \/ /\ k \in first .. last
           /\ \E a, b \in S : /\ a < k /\ k < b
                              /\ \A c \in S : c <= a \/ b <= c
                              /\ (n * (k - a)) % (b - a) = 0
  <2>1. Promise!Cut(S, n)
          = S \cup {x \in first .. last :
                     \E a, b \in S : /\ a < x /\ x < b
                                     /\ \A c \in S : c <= a \/ b <= c
                                     /\ (n * (x - a)) % (b - a) = 0}
    BY <1>b, Zenon DEF Promise!Cut
  <2> QED BY <2>1
<1>3. first \in Int /\ last \in Int
  BY <1>1
<1>4. ASSUME k \in first .. last,
             NEW a \in S, NEW b \in S, a < k, k < b, \A c \in S : c <= a \/ b <= c,
             (n * (k - a)) % (b - a) = 0
      PROVE  \E q \in 1 .. Intervals(K) : Cuts(K, n, q, k)
  <2>1. k \in Int
    BY <1>3, <1>4
  <2>2. PICK i \in DOMAIN K, j \in DOMAIN K : a = K[i] /\ b = K[j]
    BY <1>1 DEF ToSet
  <2>3. a \in Int /\ b \in Int /\ a < b
    BY <1>4, <2>1, <2>2
  <2>4. i < j
    BY <2>2, <2>3, IncreasingIndices
  <2>5. i + 1 \in DOMAIN K /\ i < i + 1 /\ i \in 1 .. Intervals(K)
    BY <2>4 DEF Intervals
  <2>6. K[i + 1] \in S /\ K[i] < K[i + 1]
    BY <1>1, <2>5 DEF ToSet, Increasing
  <2>7. ~(K[i + 1] <= K[i])
    BY <2>5, <2>6
  <2>8. K[j] <= K[i + 1]
    BY <1>4, <2>2, <2>6, <2>7
  <2>9. j <= i + 1
    <3>1. CASE i + 1 < j
      <4>1. K[i + 1] < K[j]
        BY <2>5, <3>1 DEF Increasing
      <4> QED BY <2>5, <2>8, <4>1
    <3> QED BY <2>5, <3>1
  <2>10. j = i + 1
    BY <2>4, <2>5, <2>9
  <2>11. Cuts(K, n, i, k)
    BY <1>4, <2>1, <2>2, <2>10 DEF Cuts
  <2> QED BY <2>5, <2>11
<1>5. ASSUME NEW q \in 1 .. Intervals(K), Cuts(K, n, q, k)
      PROVE  /\ k \in first .. last
             /\ \E a, b \in S : /\ a < k /\ k < b
                                /\ \A c \in S : c <= a \/ b <= c
                                /\ (n * (k - a)) % (b - a) = 0
  <2>1. PICK a, b : a = K[q] /\ b = K[q + 1]
    OBVIOUS
  <2>2. /\ q \in DOMAIN K /\ q + 1 \in DOMAIN K /\ a \in Int /\ b \in Int
        /\ \A c \in S : c <= a \/ b <= c
        /\ first <= a /\ b <= last
    BY <1>1, <2>1, OneInterval
  <2>3. a \in S /\ b \in S
    BY <1>1, <2>1, <2>2 DEF ToSet
  <2>4. k \in Int /\ a < k /\ k < b /\ (n * (k - a)) % (b - a) = 0
    BY <1>5, <2>1 DEF Cuts
  <2>5. k \in first .. last
    BY <1>3, <2>2, <2>4
  <2> QED BY <2>2, <2>3, <2>4, <2>5
<1> QED BY <1>1, <1>2, <1>4, <1>5

\* Intervals that are not cut.
LEMMA CutByOne ==
  ASSUME NEW K \in Seq(Int), Len(K) >= 2, Increasing(K)
  PROVE  Promise!Cut(ToSet(K), 1) = ToSet(K)
<1>1. ASSUME NEW q \in 1 .. Intervals(K), NEW k, Cuts(K, 1, q, k)
      PROVE  FALSE
  <2>1. PICK a, b : a = K[q] /\ b = K[q + 1]
    OBVIOUS
  <2>2. a \in Int /\ b \in Int
    BY <2>1, OneInterval
  <2>3. k \in Int /\ a < k /\ k < b /\ (1 * (k - a)) % (b - a) = 0
    BY <1>1, <2>1 DEF Cuts
  <2>4. PICK x, y : x = k - a /\ y = b - a
    OBVIOUS
  <2>5. x \in Nat /\ y \in Nat /\ 0 < x /\ x < y /\ 1 * x = x /\ x % y = 0
    BY <2>2, <2>3, <2>4
  <2>6. x % y = x
    BY <2>5
  <2> QED BY <2>5, <2>6
<1>2. \A k : k \in Promise!Cut(ToSet(K), 1) <=> k \in ToSet(K)
  BY <1>1, CutElements
<1> QED BY <1>2

\* The interval a refined knot lies in, where n divides every interval.
LEMMA RefinedInterval ==
  ASSUME NEW K \in Seq(Int), Len(K) >= 2, Increasing(K), NEW n \in Nat \ {0}, Divides(n, K),
         NEW q \in 1 .. Intervals(K), NEW step, step = (K[q + 1] - K[q]) \div n
  PROVE  Steps(K[q], K[q + 1], n, step)
<1>1. PICK a, b : a = K[q] /\ b = K[q + 1]
  OBVIOUS
<1>2. a \in Int /\ b \in Int /\ a < b
  BY <1>1, OneInterval
<1>3. (b - a) % n = 0
  BY <1>1 DEF Divides
<1>4. step = (b - a) \div n
  BY <1>1
<1>5. Steps(a, b, n, step)
  BY <1>2, <1>3, <1>4, InInterval
<1> QED BY <1>1, <1>5

\* It lies in its interval, and the knots of an interval are in order.
LEMMA ValueInside ==
  ASSUME NEW K \in Seq(Int), Len(K) >= 2, Increasing(K), NEW n \in Nat \ {0}, Divides(n, K),
         NEW m, m = Intervals(K),
         NEW q \in 0 .. m, NEW r \in 0 .. n - 1, q < m \/ r = 0
  PROVE  /\ Value(K, n, q, r) \in Int /\ K[q + 1] \in Int
         /\ K[q + 1] <= Value(K, n, q, r)
         /\ q < m => K[q + 2] \in Int /\ Value(K, n, q, r) < K[q + 2]
         /\ \A s \in 0 .. n - 1 : q < m /\ r < s => Value(K, n, q, r) < Value(K, n, q, s)
<1>1. m \in Nat \ {0} /\ Len(K) = m + 1 /\ q \in Nat
  <2>1. m \in Nat \ {0}
    BY AnInterval
  <2> QED BY <2>1 DEF Intervals
<1>2. K[q + 1] \in Int
  BY <1>1
<1>3. CASE q = m
  <2>1. r = 0 /\ Value(K, n, q, r) = K[q + 1]
    BY <1>1, <1>3 DEF Value
  <2> QED BY <1>1, <1>2, <1>3, <2>1
<1>4. CASE q < m
  <2>1. PICK p, step : p = q + 1 /\ step = (K[p + 1] - K[p]) \div n
    OBVIOUS
  <2>2. p \in 1 .. Intervals(K) /\ p + 1 = q + 2
    BY <1>1, <1>4, <2>1
  <2>3. /\ K[p] \in Int /\ K[p + 1] \in Int
        /\ step \in Nat \ {0}
        /\ \A s \in 0 .. n - 1 : /\ s * step \in Nat /\ K[p] + s * step < K[p + 1]
                                 /\ s # 0 => K[p] < K[p] + s * step
        /\ \A s, t \in 0 .. n - 1 : s < t => K[p] + s * step < K[p] + t * step
    <3>1. Steps(K[p], K[p + 1], n, step)
      BY <2>1, <2>2, RefinedInterval
    <3> QED BY <3>1 DEF Steps
  <2>4. ASSUME NEW s \in 0 .. n - 1
        PROVE  Value(K, n, q, s) = K[p] + s * step
    <3>1. CASE s = 0
      <4>1. 0 * step = 0
        BY <2>3
      <4> QED BY <2>1, <2>3, <3>1, <4>1 DEF Value
    <3>2. CASE s # 0
      BY <2>1, <2>2, <3>2 DEF Value
    <3> QED BY <3>1, <3>2
  <2>5. \A s \in 0 .. n - 1 : r < s => Value(K, n, q, r) < Value(K, n, q, s)
    BY <2>3, <2>4
  <2>6. PICK w : w = r * step
    OBVIOUS
  <2>7. w \in Nat /\ K[p] + w < K[p + 1]
    BY <2>3, <2>6
  <2>8. Value(K, n, q, r) = K[p] + w
    BY <2>4, <2>6
  <2>9. Value(K, n, q, r) \in Int /\ K[p] <= Value(K, n, q, r) /\ Value(K, n, q, r) < K[p + 1]
    BY <2>3, <2>7, <2>8
  <2> QED BY <2>1, <2>2, <2>3, <2>5, <2>9
<1> QED BY <1>1, <1>3, <1>4

\* Refined knots are in order.
LEMMA RefinedIncreasing ==
  ASSUME NEW K \in Seq(Int), Len(K) >= 2, Increasing(K), NEW n \in Nat \ {0}, Divides(n, K)
  PROVE  Increasing(RefineKnots(K, n))
<1>1. PICK m, R : m = Intervals(K) /\ R = RefineKnots(K, n)
  OBVIOUS
<1>2. Numbered(K, n, m, R)
  BY <1>1, RefinedNumbered
<1>3. /\ m \in Nat \ {0} /\ DOMAIN K = 1 .. m + 1
      /\ \A q \in 0 .. m, r \in 0 .. n - 1 : q < m \/ r = 0 => R[q * n + r + 1] = Value(K, n, q, r)
      /\ \A x \in DOMAIN R : \E q \in 0 .. m, r \in 0 .. n - 1 :
           (q < m \/ r = 0) /\ x = q * n + r + 1
  BY <1>2 DEF Numbered
<1>4. ASSUME NEW x \in DOMAIN R, NEW y \in DOMAIN R, x < y
      PROVE  R[x] < R[y]
  <2>1. PICK q \in 0 .. m, r \in 0 .. n - 1 : (q < m \/ r = 0) /\ x = q * n + r + 1
    BY <1>3
  <2>2. PICK s \in 0 .. m, t \in 0 .. n - 1 : (s < m \/ t = 0) /\ y = s * n + t + 1
    BY <1>3
  <2>3. q \in Nat /\ s \in Nat /\ r \in Nat /\ t \in Nat /\ r < n /\ t < n
    BY <1>3
  <2>4. R[x] = Value(K, n, q, r) /\ R[y] = Value(K, n, s, t)
    BY <1>3, <2>1, <2>2
  <2>5. /\ Value(K, n, q, r) \in Int
        /\ q < m => K[q + 2] \in Int /\ Value(K, n, q, r) < K[q + 2]
        /\ \A u \in 0 .. n - 1 : q < m /\ r < u => Value(K, n, q, r) < Value(K, n, q, u)
    BY <1>1, <2>1, ValueInside
  <2>6. Value(K, n, s, t) \in Int /\ K[s + 1] \in Int /\ K[s + 1] <= Value(K, n, s, t)
    BY <1>1, <2>2, ValueInside
  <2>7. q < s \/ (q = s /\ r < t)
    <3>1. PICK a, b : a = q * n /\ b = s * n
      OBVIOUS
    <3>2. a \in Nat /\ b \in Nat /\ a + r < b + t
      <4>1. a \in Nat /\ b \in Nat
        BY <2>3, <3>1
      <4> QED BY <1>4, <2>1, <2>2, <2>3, <3>1, <4>1
    <3>3. s < q => b <= a - n
      BY <2>3, <3>1, MultiplesOrdered
    <3>4. ~(s < q)
      BY <2>3, <3>2, <3>3
    <3>5. q = s => r < t
      BY <2>3, <3>1, <3>2
    <3> QED BY <2>3, <3>4, <3>5
  <2>8. CASE q < s
    <3>1. q < m /\ q + 2 \in DOMAIN K /\ s + 1 \in DOMAIN K /\ q + 2 <= s + 1
      BY <1>3, <2>3, <2>8
    <3>2. K[q + 2] <= K[s + 1]
      BY <3>1, IncreasingIndices
    <3> QED BY <2>4, <2>5, <2>6, <3>1, <3>2
  <2>9. CASE q = s /\ r < t
    <3>1. q < m
      BY <2>2, <2>3, <2>9
    <3>2. Value(K, n, q, r) < Value(K, n, q, t)
      BY <2>5, <2>9, <3>1
    <3> QED BY <2>4, <2>9, <3>2
  <2> QED BY <2>7, <2>8, <2>9
<1> QED BY <1>1, <1>4 DEF Increasing

-----------------------------------------------------------------------------
(* The refined knots are the cuts of the promise.                            *)

\* Where an n-th of an interval of n steps ends, a step ends.
LEMMA StepsEnd ==
  ASSUME NEW n \in Nat \ {0}, NEW step \in Nat \ {0}, NEW x \in Nat
  PROVE  (n * x) % (n * step) = 0 <=> \E t \in Nat : x = t * step
<1>1. PICK D, y : D = n * step /\ y = n * x
  OBVIOUS
<1>2. D \in Nat \ {0} /\ y \in Nat
  BY <1>1
<1>3. ASSUME y % D = 0
      PROVE  \E t \in Nat : x = t * step
  <2>1. PICK t : t = y \div D
    OBVIOUS
  <2>2. t \in Nat /\ y = t * D + 0
    BY <1>2, <1>3, <2>1, QuotientAndRest
  <2>3. PICK z : z = t * step
    OBVIOUS
  <2>4. z \in Nat /\ n * z = t * D
    BY <1>1, <2>2, <2>3
  <2>5. n * x = n * z
    BY <1>1, <1>2, <2>2, <2>4
  <2>6. x = z
    BY <2>4, <2>5
  <2> QED BY <2>2, <2>3, <2>6
<1>4. ASSUME NEW t \in Nat, x = t * step
      PROVE  y % D = 0
  <2>1. y = t * D
    BY <1>1, <1>4
  <2> QED BY <1>2, <2>1, Multiple
<1> QED BY <1>1, <1>3, <1>4

\* The refined knots of a direction are those the promise has.
LEMMA CutIsRefined ==
  ASSUME NEW K \in Seq(Int), Len(K) >= 2, Increasing(K), NEW n \in Nat \ {0}, Divides(n, K)
  PROVE  ToSet(RefineKnots(K, n)) = Promise!Cut(ToSet(K), n)
<1>1. PICK m, R : m = Intervals(K) /\ R = RefineKnots(K, n)
  OBVIOUS
<1>2. Numbered(K, n, m, R)
  BY <1>1, RefinedNumbered
<1>3. /\ m \in Nat \ {0} /\ DOMAIN K = 1 .. m + 1
      /\ \A q \in 0 .. m, r \in 0 .. n - 1 : q < m \/ r = 0 =>
           q * n + r + 1 \in DOMAIN R /\ R[q * n + r + 1] = Value(K, n, q, r)
      /\ \A x \in DOMAIN R : \E q \in 0 .. m, r \in 0 .. n - 1 :
           (q < m \/ r = 0) /\ x = q * n + r + 1
  BY <1>2 DEF Numbered
<1>4. ASSUME NEW p \in 1 .. m
      PROVE  \A k : Cuts(K, n, p, k) <=> \E r \in 1 .. n - 1 : k = Value(K, n, p - 1, r)
  <2>1. PICK a, b, step : a = K[p] /\ b = K[p + 1] /\ step = (b - a) \div n
    OBVIOUS
  <2>2. Steps(a, b, n, step)
    BY <1>1, <2>1, RefinedInterval
  <2>3. /\ a \in Int /\ b \in Int /\ step \in Nat \ {0} /\ b - a = n * step
        /\ \A r \in 0 .. n - 1 : /\ r * step \in Nat /\ a + r * step < b
                                 /\ r # 0 => a < a + r * step
    BY <2>2 DEF Steps
  <2>4. ASSUME NEW r \in 1 .. n - 1
        PROVE  Value(K, n, p - 1, r) = a + r * step
    <3>1. r # 0 /\ (p - 1) + 1 = p /\ (p - 1) + 2 = p + 1
      BY <1>3
    <3> QED BY <2>1, <3>1 DEF Value
  <2>5. ASSUME NEW k, Cuts(K, n, p, k)
        PROVE  \E r \in 1 .. n - 1 : k = Value(K, n, p - 1, r)
    <3>1. k \in Int /\ a < k /\ k < b /\ (n * (k - a)) % (b - a) = 0
      BY <2>1, <2>5 DEF Cuts
    <3>2. PICK x : x = k - a
      OBVIOUS
    <3>3. x \in Nat /\ x # 0 /\ x < n * step /\ (n * x) % (n * step) = 0
      <4>1. PICK v : v = n * step
        OBVIOUS
      <4>2. b - a = v /\ (n * x) % v = 0
        BY <2>3, <3>1, <3>2, <4>1
      <4>3. x \in Nat /\ x # 0 /\ x < v
        BY <2>3, <3>1, <3>2, <4>2
      <4> QED BY <4>1, <4>2, <4>3
    <3>4. PICK t \in Nat : x = t * step
      BY <2>3, <3>3, StepsEnd
    <3>5. t < n
      <4>1. CASE n <= t
        <5>1. n * step <= t * step
          BY <2>3, <4>1, MultiplesOrdered
        <5>2. PICK v : v = n * step
          OBVIOUS
        <5>3. v \in Nat
          BY <2>3, <5>2
        <5> QED BY <3>3, <3>4, <5>1, <5>2, <5>3
      <4> QED BY <4>1
    <3>6. t # 0
      BY <2>3, <3>3, <3>4
    <3>7. t \in 1 .. n - 1
      BY <3>5, <3>6
    <3>8. k = a + t * step
      BY <2>3, <3>1, <3>2, <3>3, <3>4
    <3> QED BY <2>4, <3>7, <3>8
  <2>6. ASSUME NEW r \in 1 .. n - 1, NEW k, k = Value(K, n, p - 1, r)
        PROVE  Cuts(K, n, p, k)
    <3>1. PICK x : x = r * step
      OBVIOUS
    <3>2. r \in 0 .. n - 1 /\ r \in Nat /\ r # 0
      OBVIOUS
    <3>3. x \in Nat /\ a + x < b /\ a < a + x
      BY <2>3, <3>1, <3>2
    <3>4. k = a + x
      BY <2>4, <2>6, <3>1
    <3>5. (n * x) % (n * step) = 0
      BY <2>3, <3>1, <3>2, <3>3, StepsEnd
    <3>6. k \in Int /\ a < k /\ k < b /\ k - a = x
      BY <2>3, <3>3, <3>4
    <3>7. (n * (k - a)) % (b - a) = 0
      BY <2>3, <3>5, <3>6
    <3> QED BY <2>1, <3>6, <3>7 DEF Cuts
  <2> QED BY <2>5, <2>6
<1>5. ASSUME NEW x \in DOMAIN R
      PROVE  R[x] \in Promise!Cut(ToSet(K), n)
  <2>1. PICK q \in 0 .. m, r \in 0 .. n - 1 : (q < m \/ r = 0) /\ x = q * n + r + 1
    BY <1>3
  <2>2. R[x] = Value(K, n, q, r) /\ q \in Nat /\ r \in Nat
    BY <1>3, <2>1
  <2>3. CASE r = 0
    <3>1. R[x] = K[q + 1] /\ q + 1 \in DOMAIN K
      BY <1>3, <2>2, <2>3 DEF Value
    <3>2. R[x] \in ToSet(K)
      BY <3>1 DEF ToSet
    <3> QED BY <3>2, CutElements
  <2>4. CASE r # 0
    <3>1. q + 1 \in 1 .. m /\ (q + 1) - 1 = q /\ r \in 1 .. n - 1
      BY <1>3, <2>1, <2>2, <2>4
    <3>2. Cuts(K, n, q + 1, R[x])
      BY <1>4, <2>2, <3>1
    <3> QED BY <1>1, <3>1, <3>2, CutElements
  <2> QED BY <2>3, <2>4
<1>6. ASSUME NEW k \in Promise!Cut(ToSet(K), n)
      PROVE  \E x \in DOMAIN R : k = R[x]
  <2>1. CASE k \in ToSet(K)
    <3>1. PICK i \in DOMAIN K : k = K[i]
      BY <2>1 DEF ToSet
    <3>2. i - 1 \in 0 .. m /\ (i - 1) + 1 = i /\ 0 \in 0 .. n - 1
      <4>1. i \in 1 .. m + 1
        BY <1>3
      <4>2. m \in Nat
        BY <1>3
      <4>3. i - 1 \in 0 .. m /\ (i - 1) + 1 = i
        BY <4>1, <4>2
      <4> QED BY <4>3
    <3>3. Value(K, n, i - 1, 0) = k
      BY <3>1, <3>2 DEF Value
    <3> QED BY <1>3, <3>2, <3>3
  <2>2. CASE k \notin ToSet(K)
    <3>1. PICK p \in 1 .. m : Cuts(K, n, p, k)
      BY <1>1, <1>6, <2>2, CutElements
    <3>2. PICK r \in 1 .. n - 1 : k = Value(K, n, p - 1, r)
      BY <1>4, <3>1
    <3>3. p - 1 \in 0 .. m /\ p - 1 < m /\ r \in 0 .. n - 1
      BY <1>3
    <3> QED BY <1>3, <3>2, <3>3
  <2> QED BY <2>1, <2>2
<1>7. ToSet(R) = {R[x] : x \in DOMAIN R}
  BY DEF ToSet
<1> QED BY <1>1, <1>5, <1>6, <1>7

-----------------------------------------------------------------------------
(* The multiplicities of a refined space.                                    *)

\* In one direction, the multiplicities m on the knots K are kept on K2, and others are one.
KeptIn(K, m, K2, m2) ==
  /\ \A i \in DOMAIN m2 : (\A j \in DOMAIN m : K2[i + 1] # K[j + 1]) => m2[i] = 1
  /\ \A i \in DOMAIN m : \E j \in DOMAIN m2 : K2[j + 1] = K[i + 1] /\ m2[j] = m[i]

\* f on the coordinates S, and one where f says nothing.
Extended(f, S) == [k \in S |-> IF k \in DOMAIN f THEN f[k] ELSE 1]

\* In one direction, the multiplicities of a space that contains another one are what
\* the promise makes of those of the other.
LEMMA FollowedDirection ==
  ASSUME NEW K \in Seq(Int), Len(K) >= 2, Increasing(K),
         NEW m \in Seq(Nat), Len(m) = Len(K) - 2,
         NEW K2 \in Seq(Int), Len(K2) >= 2, Increasing(K2),
         NEW m2 \in Seq(Nat), Len(m2) = Len(K2) - 2,
         KeptIn(K, m, K2, m2),
         NEW f, f = ByCoordinate(K, m)
  PROVE  ByCoordinate(K2, m2) = Extended(f, Promise!Interior(ToSet(K2)))
<1>1. PICK g, S : g = ByCoordinate(K2, m2) /\ S = Promise!Interior(ToSet(K2))
  OBVIOUS
<1>2. /\ \A i \in DOMAIN m : K[i + 1] \in DOMAIN f /\ f[K[i + 1]] = m[i]
      /\ \A k \in DOMAIN f : \E i \in DOMAIN m : k = K[i + 1]
  <2>1. Along(K, m, f)
    BY AtCoordinate
  <2> QED BY <2>1 DEF Along
<1>3. /\ DOMAIN g = S
      /\ \A i \in DOMAIN m2 : g[K2[i + 1]] = m2[i]
      /\ \A k \in DOMAIN g : \E i \in DOMAIN m2 : k = K2[i + 1]
      /\ \A i, j \in DOMAIN m2 : K2[i + 1] = K2[j + 1] => i = j
  <2>1. Along(K2, m2, g)
    BY <1>1, AtCoordinate
  <2> QED BY <1>1, <2>1 DEF Along
<1>4. ASSUME NEW k \in S
      PROVE  g[k] = IF k \in DOMAIN f THEN f[k] ELSE 1
  <2>1. PICK i \in DOMAIN m2 : k = K2[i + 1]
    BY <1>3
  <2>2. g[k] = m2[i]
    BY <1>3, <2>1
  <2>3. CASE k \in DOMAIN f
    <3>1. PICK j \in DOMAIN m : k = K[j + 1]
      BY <1>2, <2>3
    <3>2. PICK h \in DOMAIN m2 : K2[h + 1] = K[j + 1] /\ m2[h] = m[j]
      BY DEF KeptIn
    <3>3. h = i
      BY <1>3, <2>1, <3>1, <3>2
    <3>4. f[k] = m[j]
      BY <1>2, <3>1
    <3> QED BY <2>2, <2>3, <3>2, <3>3, <3>4
  <2>4. CASE k \notin DOMAIN f
    <3>1. \A j \in DOMAIN m : K2[i + 1] # K[j + 1]
      BY <1>2, <2>1, <2>4
    <3>2. m2[i] = 1
      BY <3>1 DEF KeptIn
    <3> QED BY <2>2, <2>4, <3>2
  <2> QED BY <2>3, <2>4
<1>5. g = [k \in S |-> g[k]]
  <2>1. g = [k \in DOMAIN g |-> g[k]]
    BY <1>1 DEF ByCoordinate
  <2> QED BY <1>3, <2>1
<1>6. g = Extended(f, S)
  BY <1>4, <1>5 DEF Extended
<1> QED BY <1>1, <1>6

\* What the promise knows of a space of multiplicities M on the knots K.
Hat(K, M) == [d \in Dir |-> ByCoordinate(K[d], M[d])]

\* The spaces of M on K and of M2 on K2 are nested.
Nested(K, M, K2, M2) ==
  /\ GoodGrid(K) /\ M \in [Dir -> Seq(Nat)] /\ Fits(M, K)
  /\ GoodGrid(K2) /\ M2 \in [Dir -> Seq(Nat)] /\ Fits(M2, K2)
  /\ NestedIn(K, M, K2, M2)

\* What the promise knows of the second space follows from what it knows of the first.
HatFollows(K, M, K2, M2) ==
  \A d \in Dir : ByCoordinate(K2[d], M2[d]) = Promise!Follow(Hat(K, M), d, ToSet(K2[d]))

\* The promise refines the multiplicities of a space as its slot does.
LEMMA FollowedSpace ==
  ASSUME NEW K, NEW M, NEW K2, NEW M2, Nested(K, M, K2, M2)
  PROVE  HatFollows(K, M, K2, M2)
<1> SUFFICES ASSUME NEW d \in Dir
             PROVE  ByCoordinate(K2[d], M2[d]) = Promise!Follow(Hat(K, M), d, ToSet(K2[d]))
  BY DEF HatFollows
<1> USE DEF Nested
<1>a. PICK F : F = Hat(K, M)
  OBVIOUS
<1>1. PICK k1, m1, k2, m2, f : /\ k1 = K[d] /\ m1 = M[d] /\ k2 = K2[d] /\ m2 = M2[d]
                               /\ f = F[d]
  OBVIOUS
<1>2. /\ k1 \in Seq(Int) /\ Len(k1) >= 2 /\ Increasing(k1)
      /\ k2 \in Seq(Int) /\ Len(k2) >= 2 /\ Increasing(k2)
      /\ m1 \in Seq(Nat) /\ m2 \in Seq(Nat)
      /\ Len(m1) = Len(k1) - 2 /\ Len(m2) = Len(k2) - 2
  BY <1>1 DEF GoodGrid, GridKnots, Fits
<1>3. KeptIn(k1, m1, k2, m2)
  <2>1. \A i \in DOMAIN m2 : (\A j \in DOMAIN m1 : k2[i + 1] # k1[j + 1]) => m2[i] = 1
    BY <1>1 DEF NestedIn, InteriorKnot
  <2>2. \A i \in DOMAIN m1 : \E j \in DOMAIN m2 : k2[j + 1] = k1[i + 1] /\ m2[j] = m1[i]
    BY <1>1 DEF NestedIn, InteriorKnot
  <2> QED BY <2>1, <2>2 DEF KeptIn
<1>4. f = ByCoordinate(k1, m1)
  BY <1>a, <1>1 DEF Hat
<1>5. ByCoordinate(k2, m2) = Extended(f, Promise!Interior(ToSet(k2)))
  BY <1>2, <1>3, <1>4, FollowedDirection
<1>6. Promise!Follow(F, d, ToSet(k2)) = Extended(f, Promise!Interior(ToSet(k2)))
  BY <1>1 DEF Promise!Follow, Extended
<1> QED BY <1>a, <1>1, <1>5, <1>6

-----------------------------------------------------------------------------
(* What the promise knows of the state.                                      *)

\* What the promise knows of the state: knots, multiplicities, bases and sizes.
KHat == [d \in Dir |-> ToSet(KnotsNow[d])]
MHat == [s \in DOMAIN bsplines |-> [d \in Dir |-> ByCoordinate(KnotsNow[d], MultNow(s)[d])]]
BHat == [o \in Live |-> BaseNow(o)]
SHat == [o \in Live |-> SizeNow(o)]

\* Every object has the sizes of its space, and every space fits the grid, as they
\* are outside refinements and were when the one in progress began.
Consistent ==
  /\ GoodGrid(KnotsNow)
  /\ \A s \in DOMAIN bsplines : MultNow(s) \in Table /\ Fits(MultNow(s), KnotsNow)
  /\ \A o \in Live : /\ BaseNow(o) \in DOMAIN bsplines
                     /\ SizeNow(o) = NumBasisTable(MultNow(BaseNow(o)))

\* The promise restricts functions as the detailed specification does.
LEMMA SameRestrict == \A f, S : Promise!Restrict(f, S) = Restrict(f, S)
  BY DEF Promise!Restrict, Restrict

\* While the knots stay, a space and an object are to the promise what they were if the
\* multiplicities of the space are.
LEMMA HatsStay ==
  ASSUME Consistent, Consistent', KnotsNow' = KnotsNow
  PROVE  /\ KHat' = KHat
         /\ \A s \in DOMAIN bsplines \cap DOMAIN bsplines' :
              MultNow(s)' = MultNow(s) => MHat'[s] = MHat[s]
         /\ \A o \in Live \cap Live' :
              /\ BaseNow(o)' = BaseNow(o)
              /\ MultNow(BaseNow(o))' = MultNow(BaseNow(o))
              => BHat'[o] = BHat[o] /\ SHat'[o] = SHat[o]
<1>1. KHat' = KHat
  BY DEF KHat
<1>2. ASSUME NEW s \in DOMAIN bsplines \cap DOMAIN bsplines', MultNow(s)' = MultNow(s)
      PROVE  MHat'[s] = MHat[s]
  BY <1>2 DEF MHat
<1>3. ASSUME NEW o \in Live \cap Live', BaseNow(o)' = BaseNow(o),
             MultNow(BaseNow(o))' = MultNow(BaseNow(o))
      PROVE  BHat'[o] = BHat[o] /\ SHat'[o] = SHat[o]
  <2>1. BHat'[o] = BHat[o]
    BY <1>3 DEF BHat
  <2>2. SizeNow(o)' = NumBasisTable(MultNow(BaseNow(o))')
    BY <1>3 DEF Consistent, NumBasisTable
  <2>3. SizeNow(o) = NumBasisTable(MultNow(BaseNow(o)))
    BY <1>3 DEF Consistent
  <2>4. SHat'[o] = SizeNow(o)' /\ SHat[o] = SizeNow(o)
    BY DEF SHat
  <2> QED BY <1>3, <2>1, <2>2, <2>3, <2>4
<1> QED BY <1>1, <1>2, <1>3

\* What the promise knows of the objects left is what it knew of them.
LEMMA Drops ==
  ASSUME Live' \subseteq Live, DOMAIN bsplines' \subseteq DOMAIN bsplines,
         BHat' = Restrict(BHat, Live'), SHat' = Restrict(SHat, Live'),
         MHat' = Restrict(MHat, DOMAIN bsplines'), KHat' = KHat
  PROVE  Promise!Drop
<1>1. DOMAIN MHat = DOMAIN bsplines /\ DOMAIN BHat = Live
  BY DEF MHat, BHat
<1>2. DOMAIN MHat' = DOMAIN bsplines' /\ DOMAIN BHat' = Live'
  BY DEF MHat, BHat
<1>3. /\ BHat' = Promise!Restrict(BHat, DOMAIN BHat')
      /\ SHat' = Promise!Restrict(SHat, DOMAIN BHat')
      /\ MHat' = Promise!Restrict(MHat, DOMAIN MHat')
  BY <1>2, SameRestrict
<1>4. DOMAIN BHat' \subseteq DOMAIN BHat /\ DOMAIN MHat' \subseteq DOMAIN MHat
  BY <1>1, <1>2
<1> QED BY <1>3, <1>4 DEF Promise!Drop, Promise!Built, KHat, MHat, BHat, SHat

\* Objects that stay, with their spaces, are those the promise has dropped nothing of.
LEMMA RestrictedHats ==
  ASSUME Consistent, Consistent', KnotsNow' = KnotsNow,
         Live' \subseteq Live, DOMAIN bsplines' \subseteq DOMAIN bsplines,
         \A s \in DOMAIN bsplines' : MultNow(s)' = MultNow(s),
         \A o \in Live' : BaseNow(o)' = BaseNow(o)
  PROVE  /\ KHat' = KHat
         /\ BHat' = Restrict(BHat, Live')
         /\ SHat' = Restrict(SHat, Live')
         /\ MHat' = Restrict(MHat, DOMAIN bsplines')
<1>1. /\ DOMAIN MHat' = DOMAIN bsplines' /\ DOMAIN BHat' = Live' /\ DOMAIN SHat' = Live'
      /\ MHat' = [s \in DOMAIN bsplines' |-> MHat'[s]]
      /\ BHat' = [o \in Live' |-> BHat'[o]]
      /\ SHat' = [o \in Live' |-> SHat'[o]]
  BY DEF MHat, BHat, SHat
<1>2. \A s \in DOMAIN bsplines' : MHat'[s] = MHat[s]
  BY HatsStay
<1>3. \A o \in Live' : BaseNow(o)' \in DOMAIN bsplines'
  BY DEF Consistent
<1>4. \A o \in Live' : BHat'[o] = BHat[o] /\ SHat'[o] = SHat[o]
  BY <1>3, HatsStay
<1>5. KHat' = KHat
  BY HatsStay
<1>6. MHat' = Restrict(MHat, DOMAIN bsplines')
  BY <1>1, <1>2 DEF Restrict
<1>7. BHat' = Restrict(BHat, Live') /\ SHat' = Restrict(SHat, Live')
  BY <1>1, <1>4 DEF Restrict
<1> QED BY <1>5, <1>6, <1>7

\* Nothing the promise knows of has changed.
LEMMA Stutters ==
  ASSUME Consistent, Consistent', KnotsNow' = KnotsNow,
         Live' = Live, DOMAIN bsplines' = DOMAIN bsplines,
         \A s \in DOMAIN bsplines : MultNow(s)' = MultNow(s),
         \A o \in Live : BaseNow(o)' = BaseNow(o)
  PROVE  UNCHANGED Promise!vars
<1>1. /\ KHat' = KHat /\ BHat' = Restrict(BHat, Live) /\ SHat' = Restrict(SHat, Live)
      /\ MHat' = Restrict(MHat, DOMAIN bsplines)
  BY RestrictedHats
<1>2. BHat = Restrict(BHat, Live) /\ SHat = Restrict(SHat, Live)
      /\ MHat = Restrict(MHat, DOMAIN bsplines)
  BY DEF BHat, SHat, MHat, Restrict
<1>3. KHat' = KHat /\ BHat' = BHat /\ SHat' = SHat /\ MHat' = MHat
  BY <1>1, <1>2
<1> QED BY <1>3 DEF Promise!vars, KHat, MHat, BHat, SHat

\* What a space has by coordinate.
LEMMA SpaceHats ==
  ASSUME GridRefinementAssumption, Consistent
  PROVE  \A s \in DOMAIN bsplines :
           /\ \A d \in Dir : DOMAIN MHat[s][d] = Promise!Interior(KHat[d])
           /\ Promise!Dimension(MHat[s]) = NumBasisTable(MultNow(s))
<1> SUFFICES ASSUME NEW s \in DOMAIN bsplines
             PROVE  /\ \A d \in Dir : DOMAIN MHat[s][d] = Promise!Interior(KHat[d])
                    /\ Promise!Dimension(MHat[s]) = NumBasisTable(MultNow(s))
  OBVIOUS
<1>1. PICK K, M : K = KnotsNow /\ M = MultNow(s)
  OBVIOUS
<1>2. GoodGrid(K) /\ M \in Table /\ Fits(M, K)
  BY <1>1 DEF Consistent
<1>3. MHat[s] = [d \in Dir |-> ByCoordinate(K[d], M[d])]
  BY <1>1 DEF MHat
<1>4. ASSUME NEW d \in Dir
      PROVE  DOMAIN MHat[s][d] = Promise!Interior(KHat[d])
  <2>1. PICK k, m, f : k = K[d] /\ m = M[d] /\ f = MHat[s][d]
    OBVIOUS
  <2>2. k \in Seq(Int) /\ Len(k) >= 2 /\ Increasing(k) /\ m \in Seq(Nat) /\ Len(m) = Len(k) - 2
    <3>1. m \in Seq(1 .. Degree + 1)
      BY <1>2, <2>1 DEF Table
    <3>2. m \in Seq(Nat)
      BY <3>1 DEF GridRefinementAssumption
    <3> QED BY <1>2, <2>1, <3>2 DEF GoodGrid, GridKnots, Fits
  <2>3. f = ByCoordinate(k, m)
    BY <1>3, <2>1
  <2>4. Along(k, m, f)
    BY <2>2, <2>3, AtCoordinate
  <2>5. KHat[d] = ToSet(k)
    BY <1>1, <2>1 DEF KHat
  <2> QED BY <2>1, <2>4, <2>5 DEF Along
<1>5. Promise!Dimension(MHat[s]) = NumBasisTable(M)
  <2>1. Degree \in Nat
    BY DEF GridRefinementAssumption
  <2> QED BY <1>2, <1>3, <2>1, DimensionByCoordinate
<1> QED BY <1>1, <1>4, <1>5

\* A new object, and its space if it is one.
LEMMA Creates ==
  ASSUME GridRefinementAssumption, Consistent, Consistent', KnotsNow' = KnotsNow,
         NEW o, o \notin Live, Live' = Live \cup {o},
         NEW b, b = BaseNow(o)',
         DOMAIN bsplines' = DOMAIN bsplines \cup {b},
         b # o => b \in DOMAIN bsplines,
         \A s \in DOMAIN bsplines : MultNow(s)' = MultNow(s),
         \A x \in Live : BaseNow(x)' = BaseNow(x)
  PROVE  Promise!Create(o)
<1>1. /\ DOMAIN BHat' = DOMAIN BHat \cup {o} /\ DOMAIN BHat = Live
      /\ DOMAIN MHat' = DOMAIN MHat \cup {b} /\ DOMAIN MHat = DOMAIN bsplines
  BY DEF BHat, MHat
<1>2. BHat'[o] = b /\ SHat'[o] = SizeNow(o)'
  BY DEF BHat, SHat
<1>3. KHat' = KHat
  BY HatsStay
<1>4. \A s \in DOMAIN MHat : MHat'[s] = MHat[s]
  BY <1>1, HatsStay
<1>5. ASSUME NEW x \in Live
      PROVE  BHat'[x] = BHat[x] /\ SHat'[x] = SHat[x]
  <2>1. BaseNow(x) \in DOMAIN bsplines
    BY DEF Consistent
  <2>2. MultNow(BaseNow(x))' = MultNow(BaseNow(x)) /\ BaseNow(x)' = BaseNow(x)
    BY <2>1
  <2> QED BY <2>2, HatsStay
<1>6. /\ \A d \in Dir : DOMAIN MHat'[b][d] = Promise!Interior(KHat'[d])
      /\ Promise!Dimension(MHat'[b]) = NumBasisTable(MultNow(b)')
  <2>1. (GridRefinementAssumption /\ Consistent)' =>
          \A s \in DOMAIN bsplines' :
            /\ \A d \in Dir : DOMAIN MHat'[s][d] = Promise!Interior(KHat'[d])
            /\ Promise!Dimension(MHat'[s]) = NumBasisTable(MultNow(s)')
    <3>1. (GridRefinementAssumption /\ Consistent)' =>
            (\A s \in DOMAIN bsplines :
               /\ \A d \in Dir : DOMAIN MHat[s][d] = Promise!Interior(KHat[d])
               /\ Promise!Dimension(MHat[s]) = NumBasisTable(MultNow(s)))'
      BY SpaceHats, PTL
    <3> QED BY <3>1
  <2>2. GridRefinementAssumption'
    BY DEF GridRefinementAssumption
  <2> QED BY <2>1, <2>2
<1>7. SizeNow(o)' = NumBasisTable(MultNow(b)')
  BY DEF Consistent
<1>8. /\ o \notin DOMAIN BHat
      /\ DOMAIN BHat' = DOMAIN BHat \cup {o}
      /\ BHat'[o] \in DOMAIN MHat'
      /\ DOMAIN MHat' = DOMAIN MHat \cup {BHat'[o]}
      /\ BHat'[o] # o => BHat'[o] \in DOMAIN MHat
      /\ \A d \in Dir : DOMAIN MHat'[BHat'[o]][d] = Promise!Interior(KHat[d])
      /\ SHat'[o] = Promise!Dimension(MHat'[BHat'[o]])
      /\ \A x \in DOMAIN BHat : BHat'[x] = BHat[x] /\ SHat'[x] = SHat[x]
      /\ \A s \in DOMAIN MHat : MHat'[s] = MHat[s]
      /\ KHat' = KHat
  BY <1>1, <1>2, <1>3, <1>4, <1>5, <1>6, <1>7
<1> QED BY <1>8 DEF Promise!Create, Promise!Built, KHat, MHat, BHat, SHat

-----------------------------------------------------------------------------
(* The inductive invariant.                                                  *)

\* The knots are in order, and those of a refinement in progress are the ones before it,
\* cut by divisors of their distances.
CutOk ==
  /\ \A d \in Dir : Increasing(knot_coordinates[d])
  /\ refining =>
       /\ \A d \in Dir : Increasing(grid_pre_refinement[d])
       /\ \E n \in [refinement_directions -> Subdivisions] :
            /\ \A d \in refinement_directions : Divides(n[d], grid_pre_refinement[d])
            /\ knot_coordinates = KnotsAfter(grid_pre_refinement, refinement_directions, n)

\* With what holds of spaces and coefficients.
PromiseInv == FollowInv /\ CutOk

\* At first the knots are those the grid is made with.
LEMMA InitCutOk ==
  ASSUME GridRefinementAssumption, Init
  PROVE  CutOk
  BY DEF Init, GridRefinementAssumption, CutOk, Increasing

\* Only the beginning of a refinement changes the knots, and it cuts them.
LEMMA NextCutOk ==
  ASSUME GridRefinementAssumption, IInv, CutOk, [Next]_vars
  PROVE  CutOk'
<1>1. ASSUME UNCHANGED <<knot_coordinates, grid_pre_refinement, refinement_directions>>,
             refining' => refining
      PROVE  CutOk'
  BY <1>1 DEF CutOk
<1>2. ASSUME NEW dirs \in SUBSET Dir, NEW n \in [dirs -> Subdivisions], Refine(dirs, n)
      PROVE  CutOk'
  <2>1. /\ grid_pre_refinement' = knot_coordinates /\ refinement_directions' = dirs
        /\ knot_coordinates' = KnotsAfter(knot_coordinates, dirs, n)
        /\ \A d \in dirs : Divides(n[d], knot_coordinates[d])
    BY <1>2 DEF Refine, KnotsAfter
  <2>2. ASSUME NEW d \in Dir
        PROVE  Increasing(knot_coordinates'[d])
    <3>1. PICK K, K2 : K = knot_coordinates[d] /\ K2 = knot_coordinates'[d]
      OBVIOUS
    <3>2. K \in Seq(Int) /\ Len(K) >= 2 /\ Increasing(K)
      BY <3>1 DEF IInv, GridOk, GridKnots, CutOk
    <3>3. CASE d \in dirs
      <4>1. PICK f : f = n[d]
        OBVIOUS
      <4>2. f \in Nat \ {0} /\ Divides(f, K) /\ K2 = RefineKnots(K, f)
        BY <2>1, <3>1, <3>3, <4>1 DEF GridRefinementAssumption, KnotsAfter
      <4> QED BY <3>1, <3>2, <4>2, RefinedIncreasing
    <3>4. CASE d \notin dirs
      BY <2>1, <3>1, <3>2, <3>4 DEF KnotsAfter
    <3> QED BY <3>3, <3>4
  <2>3. \A d \in Dir : Increasing(grid_pre_refinement'[d])
    BY <2>1 DEF CutOk
  <2>4. \E k \in [refinement_directions' -> Subdivisions] :
          /\ \A d \in refinement_directions' : Divides(k[d], grid_pre_refinement'[d])
          /\ knot_coordinates' = KnotsAfter(grid_pre_refinement', refinement_directions', k)
    BY <2>1
  <2> QED BY <2>2, <2>3, <2>4 DEF CutOk
<1>3. CASE RefinementDone
  BY <1>1, <1>3 DEF RefinementDone, grid_vars
<1>4. ASSUME NEW o, Construct(o)
      PROVE  CutOk'
  BY <1>1, <1>4 DEF Construct, grid_vars, signal_vars
<1>5. ASSUME NEW o, NEW f, Called(o, f)
      PROVE  CutOk'
  BY <1>1, <1>5 DEF Called, grid_vars
<1>6. CASE \/ \E s \in BSpline : \/ \E m \in Multiplicity : CreateBSplineSpace(s, m)
                                 \/ \E r \in BSpline : CreateOnTableOf(s, r)
                                 \/ \E w \in Nurbs : CreateNURBSSpace(w, s)
           \/ \E m \in Map, r \in Space : CreateIgMapping(m, r)
           \/ \E m \in Mapping, c \in Cursor : ShareIgMappingData(c, m)
           \/ \E m \in Mapping, c \in Copy : CopyIgMapping(c, m)
  <2>1. \E o : Construct(o)
    BY <1>6 DEF CreateBSplineSpace, CreateOnTableOf, CreateNURBSSpace, CreateIgMapping,
                ShareIgMappingData, CopyIgMapping
  <2> QED BY <1>4, <2>1
<1>7. CASE \/ \E s \in BSpline : SplineSlot(s) \/ BSplineSlot(s)
           \/ \E w \in Nurbs : WeightsSlot(w)
           \/ \E m \in Map : ControlMeshSlot(m)
  <2>1. \E o, f : Called(o, f)
    BY <1>7 DEF SplineSlot, BSplineSlot, WeightsSlot, ControlMeshSlot
  <2> QED BY <1>5, <2>1
<1>8. CASE PassOver \/ UNCHANGED vars
  BY <1>1, <1>8 DEF PassOver, vars, grid_vars, signal_vars
<1>9. ASSUME NEW o, Release(o)
      PROVE  CutOk'
  BY <1>1, <1>9 DEF Release, grid_vars, signal_vars
<1> QED BY <1>2, <1>3, <1>6, <1>7, <1>8, <1>9 DEF Next

\* What holds of a space while it is refined, and outside refinements.
LEMMA SpacesNow ==
  ASSUME GridRefinementAssumption, PromiseInv
  PROVE  /\ GoodGrid(KnotsNow)
         /\ \A s \in DOMAIN bsplines :
              /\ Mult(s) = interior_mult[s]
              /\ MultNow(s) = IF refining /\ ~Calls(pending, <<s, "spline">>)
                                THEN bsplines[s].previous.mult ELSE interior_mult[s]
              /\ MultNow(s) \in Table /\ Fits(MultNow(s), KnotsNow)
<1>1. GoodGrid(KnotsNow)
  BY DEF PromiseInv, CutOk, FollowInv, IInv, GridOk, GoodGrid, KnotsNow
<1>2. ASSUME NEW s \in DOMAIN bsplines
      PROVE  /\ Mult(s) = interior_mult[s]
             /\ MultNow(s) = IF refining /\ ~Calls(pending, <<s, "spline">>)
                               THEN bsplines[s].previous.mult ELSE interior_mult[s]
             /\ MultNow(s) \in Table /\ Fits(MultNow(s), KnotsNow)
  <2>1. Follows(s) /\ Remembers(s) /\ s \in DOMAIN interior_mult
    BY DEF PromiseInv, FollowInv, IInv, ObjectsOk, CoefficientsOk
  <2>2. bsplines[s].mult = s
    BY <2>1 DEF Follows
  <2>3. Mult(s) = interior_mult[s]
    BY <2>2 DEF Mult
  <2>4. MultNow(s) = IF refining /\ ~Calls(pending, <<s, "spline">>)
                       THEN bsplines[s].previous.mult ELSE interior_mult[s]
    BY <2>3 DEF MultNow, Calls
  <2>5. interior_mult[s] \in Table
    BY <2>1 DEF PromiseInv, FollowInv, TypeInv, SizeTypes
  <2>6. MultNow(s) \in Table /\ Fits(MultNow(s), KnotsNow)
    <3>1. CASE refining /\ ~Calls(pending, <<s, "spline">>)
      <4>1. MultNow(s) = bsplines[s].previous.mult /\ KnotsNow = grid_pre_refinement
        BY <2>4, <3>1 DEF KnotsNow
      <4> QED BY <2>1, <3>1, <4>1 DEF Remembers
    <3>2. CASE refining /\ Calls(pending, <<s, "spline">>)
      <4>1. MultNow(s) = interior_mult[s] /\ KnotsNow = grid_pre_refinement
        BY <2>4, <3>2 DEF KnotsNow
      <4> QED BY <2>1, <2>5, <3>2, <4>1 DEF Follows
    <3>3. CASE ~refining
      <4>1. ~Calls(pending, <<s, "spline">>)
        BY <3>3, NothingWaits DEF PromiseInv, FollowInv, IInv
      <4>2. MultNow(s) = interior_mult[s] /\ KnotsNow = knot_coordinates
        BY <2>4, <3>3 DEF KnotsNow
      <4> QED BY <2>1, <2>5, <4>1, <4>2 DEF Follows
    <3> QED BY <3>1, <3>2, <3>3
  <2> QED BY <2>3, <2>4, <2>6
<1> QED BY <1>1, <1>2

\* What an object is based on, and what it has, as the carriers of coefficients say.
LEMMA BasesNow ==
  ASSUME GridRefinementAssumption, PromiseInv, NEW o \in Live
  PROVE  /\ BaseNow(o) \in DOMAIN bsplines
         /\ o \in DOMAIN bsplines => BaseNow(o) = o
         /\ o \in DOMAIN nurbs => o \in Carriers /\ BaseNow(o) = BaseOf(o)
         /\ o \in DOMAIN maps => /\ maps[o].data \in Carriers \ Nurbs
                                 /\ BaseNow(o) = BaseOf(maps[o].data)
<1>0. /\ DOMAIN bsplines \subseteq BSpline /\ DOMAIN nurbs \subseteq Nurbs
      /\ DOMAIN maps \subseteq Mapping
      /\ BSpline \cap (Nurbs \cup Mapping) = {} /\ Nurbs \cap Mapping = {}
  BY DEF PromiseInv, FollowInv, TypeInv, LivesInv, Members, GridRefinementAssumption
<1>1. CASE o \in DOMAIN bsplines
  <2>1. BaseNow(o) = o /\ o \notin DOMAIN nurbs /\ o \notin DOMAIN maps
    BY <1>0, <1>1 DEF BaseNow, BSplineOf
  <2> QED BY <1>1, <2>1
<1>2. CASE o \in DOMAIN nurbs
  <2>1. /\ BaseNow(o) = nurbs[o].sp_space /\ o \notin DOMAIN bsplines /\ o \notin DOMAIN maps
        /\ BaseOf(o) = nurbs[o].sp_space /\ o \in Carriers
    BY <1>0, <1>2 DEF BaseNow, BSplineOf, BaseOf, Carriers
  <2>2. BaseNow(o) \in DOMAIN bsplines
    BY <1>2, <2>1 DEF PromiseInv, FollowInv, TypeInv, LivesInv, ReferencesLive
  <2> QED BY <2>1, <2>2
<1>3. CASE o \in DOMAIN maps
  <2>1. PICK m : m = maps[o].data
    OBVIOUS
  <2>2. m \in DOMAIN maps \cap Map
    BY <1>3, <2>1 DEF PromiseInv, FollowInv, DataOk
  <2>3. m \in Carriers \ Nurbs
    BY <1>0, <2>2 DEF Carriers, Mapping
  <2>4. BaseNow(o) = BSplineOf(data[m].ref_space) /\ BaseOf(m) = BSplineOf(data[m].ref_space)
    BY <1>0, <1>3, <2>1, <2>3 DEF BaseNow, BaseOf
  <2>5. BaseOf(m) \in DOMAIN bsplines
    BY <2>3, BasesLive DEF PromiseInv, FollowInv, TypeInv
  <2>6. o \notin DOMAIN bsplines /\ o \notin DOMAIN nurbs
    BY <1>0, <1>3
  <2> QED BY <2>1, <2>3, <2>4, <2>5, <2>6
<1> QED BY <1>1, <1>2, <1>3 DEF Live

\* Sizes and spaces agree in every state, as the promise sees them.
LEMMA AlwaysConsistent ==
  ASSUME GridRefinementAssumption, PromiseInv
  PROVE  Consistent
<1>1. ASSUME NEW o \in Live
      PROVE  SizeNow(o) = NumBasisTable(MultNow(BaseNow(o)))
  <2>1. CASE refining
    BY <2>1 DEF SizeNow
  <2>2. CASE ~refining
    <3>0. /\ DOMAIN bsplines \subseteq BSpline /\ DOMAIN nurbs \subseteq Nurbs
          /\ DOMAIN maps \subseteq Mapping
          /\ BSpline \cap (Nurbs \cup Mapping) = {} /\ Nurbs \cap Mapping = {}
      BY DEF PromiseInv, FollowInv, TypeInv, LivesInv, Members, GridRefinementAssumption
    <3>1. \A slot : ~Calls(pending, slot)
      BY <2>2 DEF PromiseInv, FollowInv, IInv, SignalsOk, Calls
    <3>2. \A s \in DOMAIN bsplines : MultNow(s) = interior_mult[s]
      BY <2>2, SpacesNow
    <3>3. ASSUME NEW c \in Carriers
          PROVE  SizesOf(c) = NumBasisTable(interior_mult[BaseOf(c)])
      BY <3>1, <3>3 DEF PromiseInv, FollowInv, CoefficientsOk, Carries, MultOf
    <3>4. BaseNow(o) \in DOMAIN bsplines
      BY BasesNow
    <3>5. CASE o \in DOMAIN bsplines
      <4>1. SizeNow(o) = bsplines[o].dofs /\ BaseNow(o) = o
        BY <2>2, <3>0, <3>5, BasesNow DEF SizeNow
      <4>2. bsplines[o].dofs = NumBasisTable(interior_mult[o])
        BY <3>1, <3>5 DEF PromiseInv, FollowInv, IInv, Follows
      <4> QED BY <3>2, <3>5, <4>1, <4>2
    <3>6. CASE o \in DOMAIN nurbs
      <4>1. SizeNow(o) = nurbs[o].weights /\ SizesOf(o) = nurbs[o].weights
        BY <2>2, <3>0, <3>6 DEF SizeNow, SizesOf
      <4>2. o \in Carriers /\ BaseNow(o) = BaseOf(o)
        BY <3>6, BasesNow
      <4> QED BY <3>2, <3>3, <3>4, <4>1, <4>2
    <3>7. CASE o \in DOMAIN maps
      <4>1. PICK m : m = maps[o].data
        OBVIOUS
      <4>2. m \in Carriers \ Nurbs /\ BaseNow(o) = BaseOf(m)
        BY <3>7, <4>1, BasesNow
      <4>3. SizeNow(o) = data[m].ctrl_mesh /\ SizesOf(m) = data[m].ctrl_mesh
        BY <2>2, <3>0, <3>7, <4>1, <4>2 DEF SizeNow, SizesOf
      <4> QED BY <3>2, <3>3, <3>4, <4>2, <4>3
    <3> QED BY <3>5, <3>6, <3>7 DEF Live
  <2> QED BY <2>1, <2>2 DEF PromiseInv, FollowInv, IInv, GridOk
<1> QED BY <1>1, SpacesNow, BasesNow DEF Consistent

-----------------------------------------------------------------------------
(* The end of a refinement.                                                  *)

\* The knots cut in all directions at once, by one where the grid is not refined.
LEMMA KnotsCut ==
  ASSUME GridRefinementAssumption, CutOk, GridOk, refining
  PROVE  \E n \in [Dir -> Subdivisions \cup {1}] :
           \A d \in Dir : ToSet(knot_coordinates[d])
                            = Promise!Cut(ToSet(grid_pre_refinement[d]), n[d])
<1>1. PICK n0 \in [refinement_directions -> Subdivisions] :
        /\ \A d \in refinement_directions : Divides(n0[d], grid_pre_refinement[d])
        /\ knot_coordinates = KnotsAfter(grid_pre_refinement, refinement_directions, n0)
  BY DEF CutOk
<1>2. PICK n : n = [d \in Dir |-> IF d \in refinement_directions THEN n0[d] ELSE 1]
  OBVIOUS
<1>3. n \in [Dir -> Subdivisions \cup {1}]
  BY <1>2
<1>4. ASSUME NEW d \in Dir
      PROVE  ToSet(knot_coordinates[d]) = Promise!Cut(ToSet(grid_pre_refinement[d]), n[d])
  <2>1. PICK K, K2, f : K = grid_pre_refinement[d] /\ K2 = knot_coordinates[d] /\ f = n[d]
    OBVIOUS
  <2>2. K \in Seq(Int) /\ Len(K) >= 2 /\ Increasing(K)
    BY <2>1 DEF CutOk, GridOk, GridKnots
  <2>3. CASE d \in refinement_directions
    <3>1. f = n0[d] /\ f \in Nat \ {0} /\ Divides(f, K)
      BY <1>1, <1>2, <2>1, <2>3 DEF GridRefinementAssumption
    <3>2. K2 = RefineKnots(K, f)
      BY <1>1, <2>1, <2>3, <3>1 DEF KnotsAfter
    <3>3. ToSet(RefineKnots(K, f)) = Promise!Cut(ToSet(K), f)
      BY <2>2, <3>1, CutIsRefined
    <3> QED BY <2>1, <3>2, <3>3
  <2>4. CASE d \notin refinement_directions
    <3>1. f = 1 /\ K2 = K
      BY <1>1, <1>2, <2>1, <2>4 DEF KnotsAfter
    <3>2. Promise!Cut(ToSet(K), 1) = ToSet(K)
      BY <2>2, CutByOne
    <3> QED BY <2>1, <3>1, <3>2
  <2> QED BY <2>3, <2>4
<1> QED BY <1>3, <1>4

\* The last slot has been called: every space has become what the promise says.
LEMMA SpacesDone ==
  ASSUME GridRefinementAssumption, PromiseInv, RefinementDone
  PROVE  /\ KnotsNow = grid_pre_refinement /\ KnotsNow' = knot_coordinates
         /\ GoodGrid(grid_pre_refinement) /\ GoodGrid(knot_coordinates)
         /\ \A s \in DOMAIN bsplines :
              /\ MultNow(s)' = interior_mult[s]
              /\ MultNow(s) \in [Dir -> Seq(Nat)] /\ Fits(MultNow(s), grid_pre_refinement)
              /\ interior_mult[s] \in [Dir -> Seq(Nat)]
              /\ Fits(interior_mult[s], knot_coordinates)
              /\ NestedIn(grid_pre_refinement, MultNow(s), knot_coordinates, interior_mult[s])
<1>1. /\ refining /\ ~refining' /\ pending = << >>
      /\ UNCHANGED <<knot_coordinates, interior_mult, bsplines>>
  BY DEF RefinementDone, grid_vars, object_vars
<1>2. KnotsNow = grid_pre_refinement /\ KnotsNow' = knot_coordinates
  BY <1>1 DEF KnotsNow
<1>3. GoodGrid(grid_pre_refinement) /\ GoodGrid(knot_coordinates)
  BY <1>1 DEF PromiseInv, FollowInv, IInv, GridOk, CutOk, GoodGrid
<1>4. ASSUME NEW s \in DOMAIN bsplines
      PROVE  /\ MultNow(s)' = interior_mult[s]
             /\ MultNow(s) \in [Dir -> Seq(Nat)] /\ Fits(MultNow(s), grid_pre_refinement)
             /\ interior_mult[s] \in [Dir -> Seq(Nat)]
             /\ Fits(interior_mult[s], knot_coordinates)
             /\ NestedIn(grid_pre_refinement, MultNow(s), knot_coordinates, interior_mult[s])
  <2>1. Follows(s) /\ Remembers(s) /\ ~Calls(pending, <<s, "spline">>)
    BY <1>1 DEF PromiseInv, FollowInv, IInv, CoefficientsOk, Calls
  <2>2. Mult(s) = interior_mult[s] /\ MultNow(s) = bsplines[s].previous.mult
    BY <1>1, <2>1, SpacesNow DEF Calls
  <2>3. MultNow(s)' = interior_mult[s]
    BY <1>1, <2>2 DEF MultNow, Mult
  <2>4. MultNow(s) \in Table /\ Fits(MultNow(s), grid_pre_refinement)
    BY <1>1, <2>1, <2>2 DEF Remembers
  <2>5. \A q : q \in Seq(1 .. Degree + 1) => q \in Seq(Nat)
    BY DEF GridRefinementAssumption
  <2>6. MultNow(s) \in [Dir -> Seq(Nat)]
    BY <2>4, <2>5 DEF Table
  <2>7. NestedIn(grid_pre_refinement, MultNow(s), knot_coordinates, interior_mult[s])
    BY <1>1, <2>1, <2>2 DEF Follows, Remembers
  <2>8. interior_mult[s] \in [Dir -> Seq(Nat)] /\ Fits(interior_mult[s], knot_coordinates)
    BY <2>1 DEF Follows
  <2> QED BY <2>3, <2>4, <2>6, <2>7, <2>8
<1> QED BY <1>2, <1>3, <1>4

\* The end of a refinement is the step of the promise.
LEMMA Refines ==
  ASSUME GridRefinementAssumption, PromiseInv, Consistent, Consistent', RefinementDone
  PROVE  \E n \in [Dir -> Subdivisions \cup {1}] : Promise!Refine(n)
<1>1. /\ refining
      /\ UNCHANGED <<knot_coordinates, bsplines, nurbs, maps, data>>
  BY DEF RefinementDone, grid_vars, object_vars
<1>2. PICK n \in [Dir -> Subdivisions \cup {1}] :
        \A d \in Dir : ToSet(knot_coordinates[d])
                         = Promise!Cut(ToSet(grid_pre_refinement[d]), n[d])
  BY <1>1, KnotsCut DEF PromiseInv, FollowInv, IInv
<1>3. KHat' = [d \in Dir |-> Promise!Cut(KHat[d], n[d])]
  BY <1>2, SpacesDone DEF KHat
<1>4. MHat' = [s \in DOMAIN MHat |-> [d \in Dir |-> Promise!Follow(MHat[s], d, KHat'[d])]]
  <2>1. ASSUME NEW s \in DOMAIN bsplines, NEW d \in Dir
        PROVE  MHat'[s][d] = Promise!Follow(MHat[s], d, KHat'[d])
    <3>1. PICK K, K2, M, M2, F : /\ K = grid_pre_refinement /\ K2 = knot_coordinates
                                 /\ M = MultNow(s) /\ M2 = interior_mult[s] /\ F = MHat[s]
      OBVIOUS
    <3>2. /\ GoodGrid(K) /\ M \in [Dir -> Seq(Nat)] /\ Fits(M, K)
          /\ GoodGrid(K2) /\ M2 \in [Dir -> Seq(Nat)] /\ Fits(M2, K2)
          /\ NestedIn(K, M, K2, M2)
      BY <3>1, SpacesDone
    <3>3. F = Hat(K, M)
      BY <3>1, SpacesDone DEF MHat, Hat
    <3>4. ByCoordinate(K2[d], M2[d]) = Promise!Follow(Hat(K, M), d, ToSet(K2[d]))
      <4>1. Nested(K, M, K2, M2)
        BY <3>2 DEF Nested
      <4>2. HatFollows(K, M, K2, M2)
        BY <4>1, FollowedSpace
      <4> QED BY <4>2 DEF HatFollows
    <3>5. MHat'[s][d] = ByCoordinate(K2[d], M2[d]) /\ KHat'[d] = ToSet(K2[d])
      BY <1>1, <3>1, SpacesDone DEF MHat, KHat
    <3> QED BY <3>1, <3>3, <3>4, <3>5
  <2>2. /\ DOMAIN MHat = DOMAIN bsplines /\ DOMAIN MHat' = DOMAIN bsplines
        /\ MHat' = [s \in DOMAIN bsplines |-> [d \in Dir |-> MHat'[s][d]]]
    BY <1>1 DEF MHat
  <2> QED BY <2>1, <2>2
<1>5. /\ Live' = Live /\ DOMAIN BHat = Live
      /\ \A o \in Live : BaseNow(o)' = BaseNow(o) /\ BaseNow(o) \in DOMAIN bsplines
  BY <1>1 DEF Live, BHat, BaseNow, BSplineOf, Consistent
<1>6. BHat' = BHat
  BY <1>5 DEF BHat
<1>7. SHat' = [o \in DOMAIN BHat |-> Promise!Dimension(MHat'[BHat[o]])]
  <2>1. \A s \in DOMAIN bsplines' : Promise!Dimension(MHat'[s]) = NumBasisTable(MultNow(s)')
    <3>1. (GridRefinementAssumption /\ Consistent)' =>
            (\A s \in DOMAIN bsplines :
               /\ \A d \in Dir : DOMAIN MHat[s][d] = Promise!Interior(KHat[d])
               /\ Promise!Dimension(MHat[s]) = NumBasisTable(MultNow(s)))'
      BY SpaceHats, PTL
    <3>2. GridRefinementAssumption'
      BY DEF GridRefinementAssumption
    <3> QED BY <3>1, <3>2
  <2>2. ASSUME NEW o \in Live
        PROVE  SHat'[o] = Promise!Dimension(MHat'[BHat[o]])
    <3>1. PICK b : b = BaseNow(o)
      OBVIOUS
    <3>2. b \in DOMAIN bsplines' /\ BaseNow(o)' = b /\ o \in Live'
      BY <1>1, <1>5, <3>1
    <3>3. SizeNow(o)' = NumBasisTable(MultNow(b)')
      BY <3>2 DEF Consistent, NumBasisTable
    <3>4. SHat'[o] = SizeNow(o)' /\ BHat[o] = b
      BY <1>5, <3>1 DEF SHat, BHat
    <3> QED BY <2>1, <3>2, <3>3, <3>4
  <2>3. SHat' = [o \in Live |-> SHat'[o]]
    BY <1>5 DEF SHat
  <2> QED BY <1>5, <2>2, <2>3
<1>8. Promise!Refine(n)
  BY <1>3, <1>4, <1>6, <1>7 DEF Promise!Refine, Promise!Built, KHat, MHat, BHat, SHat
<1> QED BY <1>2, <1>8

-----------------------------------------------------------------------------
(* Steps that change nothing for the promise, and objects that come and go.  *)

\* The spaces after a step, as SpacesNow has them.
LEMMA SpacesNext ==
  ASSUME GridRefinementAssumption, PromiseInv'
  PROVE  \A s \in DOMAIN bsplines' :
           MultNow(s)' = IF refining' /\ ~Calls(pending', <<s, "spline">>)
                           THEN bsplines'[s].previous.mult ELSE interior_mult'[s]
<1>1. (GridRefinementAssumption /\ PromiseInv)' =>
        (/\ GoodGrid(KnotsNow)
         /\ \A s \in DOMAIN bsplines :
              /\ Mult(s) = interior_mult[s]
              /\ MultNow(s) = IF refining /\ ~Calls(pending, <<s, "spline">>)
                                THEN bsplines[s].previous.mult ELSE interior_mult[s]
              /\ MultNow(s) \in Table /\ Fits(MultNow(s), KnotsNow))'
  BY SpacesNow, PTL
<1>2. GridRefinementAssumption'
  BY DEF GridRefinementAssumption
<1> QED BY <1>1, <1>2 DEF Calls

\* Outside refinements a space has the multiplicities of its table.
LEMMA QuietSpaces ==
  ASSUME GridRefinementAssumption, PromiseInv, PromiseInv', ~refining, ~refining',
         knot_coordinates' = knot_coordinates,
         NEW S, S \subseteq DOMAIN bsplines \cap DOMAIN bsplines',
         \A s \in S : interior_mult'[s] = interior_mult[s]
  PROVE  KnotsNow' = KnotsNow /\ \A s \in S : MultNow(s)' = MultNow(s)
<1>1. KnotsNow' = KnotsNow
  BY DEF KnotsNow
<1>2. ASSUME NEW s \in S
      PROVE  MultNow(s)' = MultNow(s)
  <2>1. MultNow(s) = interior_mult[s]
    BY SpacesNow
  <2>2. MultNow(s)' = interior_mult'[s]
    BY SpacesNext
  <2> QED BY <2>1, <2>2
<1> QED BY <1>1, <1>2

\* The slots of one refinement leave the knots and multiplicities it began with.
LEMMA SlotSpaces ==
  ASSUME GridRefinementAssumption, PromiseInv, PromiseInv', pending # << >>,
         pending' = Tail(pending), refining' = refining,
         grid_pre_refinement' = grid_pre_refinement, DOMAIN bsplines' = DOMAIN bsplines,
         \A s \in DOMAIN bsplines :
           IF Head(pending) = <<s, "spline">>
             THEN bsplines'[s].previous.mult = interior_mult[s]
             ELSE /\ bsplines'[s].previous = bsplines[s].previous
                  /\ interior_mult'[s] = interior_mult[s]
  PROVE  KnotsNow' = KnotsNow /\ \A s \in DOMAIN bsplines : MultNow(s)' = MultNow(s)
<1>1. refining /\ refining' /\ pending \in Seq(Slot) /\ Once(pending)
  BY DEF PromiseInv, FollowInv, IInv, SignalsOk
<1>2. KnotsNow' = KnotsNow
  BY <1>1 DEF KnotsNow
<1>3. /\ \A slot : slot # Head(pending) => (Calls(pending', slot) <=> Calls(pending, slot))
      /\ ~Calls(pending', Head(pending)) /\ Calls(pending, Head(pending))
  BY <1>1, AfterFirst
<1>4. ASSUME NEW s \in DOMAIN bsplines
      PROVE  MultNow(s)' = MultNow(s)
  <2>1. MultNow(s) = IF ~Calls(pending, <<s, "spline">>)
                       THEN bsplines[s].previous.mult ELSE interior_mult[s]
    BY <1>1, SpacesNow
  <2>2. MultNow(s)' = IF ~Calls(pending', <<s, "spline">>)
                        THEN bsplines'[s].previous.mult ELSE interior_mult'[s]
    BY <1>1, SpacesNext
  <2>3. CASE Head(pending) = <<s, "spline">>
    <3>1. ~Calls(pending', <<s, "spline">>) /\ Calls(pending, <<s, "spline">>)
      BY <1>3, <2>3
    <3> QED BY <2>1, <2>2, <2>3, <3>1
  <2>4. CASE Head(pending) # <<s, "spline">>
    <3>1. Calls(pending', <<s, "spline">>) <=> Calls(pending, <<s, "spline">>)
      BY <1>3, <2>4
    <3> QED BY <2>1, <2>2, <2>4, <3>1
  <2> QED BY <2>3, <2>4
<1> QED BY <1>2, <1>4

\* No step changes what an object is built on.
BasesKept ==
  /\ \A w \in DOMAIN nurbs \cap DOMAIN nurbs' : nurbs'[w].sp_space = nurbs[w].sp_space
  /\ \A m \in DOMAIN maps \cap DOMAIN maps' : maps'[m].data = maps[m].data
  /\ \A d \in DOMAIN data \cap DOMAIN data' : data'[d].ref_space = data[d].ref_space

\* Names keep their kind.
LEMMA KindsStay ==
  ASSUME GridRefinementAssumption, PromiseInv, PromiseInv', NEW x \in Live \cap Live'
  PROVE  /\ x \in DOMAIN bsplines <=> x \in DOMAIN bsplines'
         /\ x \in DOMAIN nurbs <=> x \in DOMAIN nurbs'
         /\ x \in DOMAIN maps <=> x \in DOMAIN maps'
<1>1. /\ DOMAIN bsplines \subseteq BSpline /\ DOMAIN nurbs \subseteq Nurbs
      /\ DOMAIN maps \subseteq Mapping
      /\ DOMAIN bsplines' \subseteq BSpline /\ DOMAIN nurbs' \subseteq Nurbs
      /\ DOMAIN maps' \subseteq Mapping
  BY DEF PromiseInv, FollowInv, TypeInv, LivesInv, Members
<1>2. BSpline \cap (Nurbs \cup Mapping) = {} /\ Nurbs \cap Mapping = {}
  BY DEF GridRefinementAssumption
<1> QED BY <1>1, <1>2 DEF Live

\* BasesNow for every object.
BasesAgree ==
  \A x \in Live :
    /\ x \in DOMAIN bsplines => BaseNow(x) = x
    /\ x \in DOMAIN nurbs => x \in Carriers /\ BaseNow(x) = BaseOf(x)
    /\ \A d : x \in DOMAIN maps /\ maps[x].data = d =>
                d \in Carriers \ Nurbs /\ BaseNow(x) = BaseOf(d)

\* What every object is based on.
LEMMA AllBasesNow ==
  ASSUME GridRefinementAssumption, PromiseInv
  PROVE  BasesAgree
  BY BasesNow DEF BasesAgree

\* What an object is built on after a step.
LEMMA AllBasesNext ==
  ASSUME GridRefinementAssumption, PromiseInv'
  PROVE  BasesAgree'
<1>1. (GridRefinementAssumption /\ PromiseInv)' => BasesAgree'
  BY AllBasesNow, PTL
<1>2. GridRefinementAssumption'
  BY DEF GridRefinementAssumption
<1> QED BY <1>1, <1>2

\* An object that stays keeps its space.
LEMMA BasesStay ==
  ASSUME GridRefinementAssumption, PromiseInv, PromiseInv', BasesKept,
         NEW x \in Live \cap Live'
  PROVE  BaseNow(x)' = BaseNow(x)
<1>0. LivesInv /\ LivesInv' /\ DataOk /\ DataOk'
  BY DEF PromiseInv, FollowInv, TypeInv
<1>1. ASSUME NEW o \in Carriers \cap Carriers'
      PROVE  BaseOf(o)' = BaseOf(o)
  <2>1. o \notin Nurbs => o \in DOMAIN maps \cap Map /\ o \in DOMAIN maps' \cap Map
    BY <1>0, <1>1 DEF Carriers, LivesInv, Members
  <2>2. o \notin Nurbs => o \in DOMAIN data /\ o \in DOMAIN data'
    BY <1>0, <2>1 DEF DataOk, LivesInv, ReferencesLive
  <2>3. o \notin Nurbs => data'[o].ref_space = data[o].ref_space
    BY <2>2 DEF BasesKept
  <2>4. \A w \in DOMAIN nurbs \cap DOMAIN nurbs' : nurbs'[w].sp_space = nurbs[w].sp_space
    BY DEF BasesKept
  <2> QED BY <1>0, <1>1, <2>3, <2>4, BaseStays
<1>2. CASE x \in DOMAIN bsplines
  BY <1>2, KindsStay, AllBasesNow, AllBasesNext DEF BasesAgree
<1>3. CASE x \in DOMAIN nurbs
  <2>1. x \in DOMAIN nurbs'
    BY <1>3, KindsStay
  <2>2. x \in Carriers /\ x \in Carriers' /\ BaseNow(x) = BaseOf(x) /\ BaseNow(x)' = BaseOf(x)'
    BY <1>3, <2>1, AllBasesNow, AllBasesNext DEF BasesAgree
  <2> QED BY <1>1, <2>2
<1>4. CASE x \in DOMAIN maps
  <2>1. x \in DOMAIN maps'
    BY <1>4, KindsStay
  <2>2. PICK d : d = maps[x].data /\ d = maps'[x].data
    BY <1>4, <2>1 DEF BasesKept
  <2>3. d \in Carriers /\ BaseNow(x) = BaseOf(d)
    BY <1>4, <2>2, AllBasesNow DEF BasesAgree
  <2>4. d \in Carriers' /\ BaseNow(x)' = BaseOf(d)'
    BY <2>1, <2>2, AllBasesNext DEF BasesAgree
  <2> QED BY <1>1, <2>3, <2>4
<1> QED BY <1>2, <1>3, <1>4 DEF Live

\* A constructor makes one object, and leaves the others what they are.
LEMMA Constructed ==
  ASSUME GridRefinementAssumption, PromiseInv, PromiseInv', Consistent, Consistent',
         NEW o, Construct(o), Live' = Live \cup {o}, BasesKept,
         \A s \in DOMAIN bsplines : interior_mult'[s] = interior_mult[s],
         DOMAIN bsplines' = DOMAIN bsplines \cup {s \in BSpline : s = o}
  PROVE  Promise!Next
<1>1. /\ ~refining /\ ~refining' /\ knot_coordinates' = knot_coordinates /\ o \notin Live
  BY DEF Construct, signal_vars, grid_vars, PromiseInv, FollowInv, TypeInv, LivesInv,
         ReferencesLive
<1>2. KnotsNow' = KnotsNow /\ \A s \in DOMAIN bsplines : MultNow(s)' = MultNow(s)
  <2>1. DOMAIN bsplines \subseteq DOMAIN bsplines \cap DOMAIN bsplines'
    OBVIOUS
  <2> QED BY <1>1, <2>1, QuietSpaces
<1>3. \A x \in Live : BaseNow(x)' = BaseNow(x)
  BY BasesStay
<1>4. PICK b : b = BaseNow(o)'
  OBVIOUS
<1>5. b \in DOMAIN bsplines'
  BY <1>4 DEF Consistent
<1>6. o \in BSpline => b = o
  BY <1>4, AllBasesNext DEF BasesAgree
<1>7. DOMAIN bsplines' = DOMAIN bsplines \cup {b}
  BY <1>5, <1>6
<1>8. b # o => b \in DOMAIN bsplines
  BY <1>5
<1>9. Promise!Create(o)
  BY <1>1, <1>2, <1>3, <1>4, <1>7, <1>8, Creates
<1>10. o \in DOMAIN BHat'
  BY DEF BHat
<1> QED BY <1>9, <1>10 DEF Promise!Next, BHat

\* Every constructor.
LEMMA ConstructorsKeep ==
  ASSUME GridRefinementAssumption, OneOwner, PromiseInv, PromiseInv', Consistent, Consistent',
         \/ \E s \in BSpline : \E m \in Multiplicity : CreateBSplineSpace(s, m)
         \/ \E w \in Nurbs : \E s \in BSpline : CreateNURBSSpace(w, s)
         \/ \E m \in Map : \E r \in Space : CreateIgMapping(m, r)
         \/ \E c \in Cursor : \E m \in Mapping : ShareIgMappingData(c, m)
  PROVE  Promise!Next
<1>0. /\ Live \subseteq born /\ DOMAIN data \subseteq Live
      /\ BSpline \cap (Nurbs \cup Mapping) = {}
  BY DEF PromiseInv, FollowInv, TypeInv, LivesInv, ReferencesLive, DataOk, Live,
         GridRefinementAssumption
<1>1. ASSUME NEW s \in BSpline, NEW m \in Multiplicity, CreateBSplineSpace(s, m)
      PROVE  Promise!Next
  <2>1. Construct(s) /\ s \notin Live /\ UNCHANGED <<nurbs, maps, data>>
    BY <1>0, <1>1 DEF CreateBSplineSpace, Construct
  <2>2. PICK table, space : interior_mult' = With(interior_mult, s, table)
                            /\ bsplines' = With(bsplines, s, space)
    BY <1>1 DEF CreateBSplineSpace, NewBSpline
  <2>3. DOMAIN bsplines \subseteq DOMAIN interior_mult
    BY DEF PromiseInv, FollowInv, IInv, ObjectsOk
  <2>4. DOMAIN bsplines' = DOMAIN bsplines \cup {r \in BSpline : r = s}
    BY <2>2 DEF With
  <2>5. \A r \in DOMAIN bsplines : interior_mult'[r] = interior_mult[r]
    BY <2>1, <2>2, <2>3 DEF With, Live
  <2>6. Live' = Live \cup {s} /\ BasesKept
    BY <2>1, <2>2 DEF With, Live, BasesKept
  <2> QED BY <2>1, <2>4, <2>5, <2>6, Constructed
<1>2. ASSUME NEW w \in Nurbs, NEW s \in BSpline, CreateNURBSSpace(w, s)
      PROVE  Promise!Next
  <2>1. Construct(w) /\ w \notin Live /\ UNCHANGED <<interior_mult, bsplines, maps, data>>
    BY <1>0, <1>2 DEF CreateNURBSSpace, Construct
  <2>2. PICK space : nurbs' = With(nurbs, w, space)
    BY <1>2 DEF CreateNURBSSpace
  <2>3. DOMAIN bsplines' = DOMAIN bsplines \cup {r \in BSpline : r = w}
    BY <1>0, <2>1
  <2>4. Live' = Live \cup {w} /\ BasesKept
    BY <2>1, <2>2 DEF With, Live, BasesKept
  <2> QED BY <2>1, <2>3, <2>4, Constructed
<1>3. ASSUME NEW m \in Map, NEW r \in Space, CreateIgMapping(m, r)
      PROVE  Promise!Next
  <2>1. Construct(m) /\ m \notin Live /\ UNCHANGED <<interior_mult, bsplines, nurbs>>
    BY <1>0, <1>3 DEF CreateIgMapping, Construct
  <2>2. PICK d, map : data' = With(data, m, d) /\ maps' = With(maps, m, map)
    BY <1>3 DEF CreateIgMapping
  <2>3. DOMAIN bsplines' = DOMAIN bsplines \cup {s \in BSpline : s = m}
    BY <1>0, <2>1 DEF Mapping
  <2>4. Live' = Live \cup {m} /\ BasesKept
    BY <1>0, <2>1, <2>2 DEF With, Live, BasesKept
  <2> QED BY <2>1, <2>3, <2>4, Constructed
<1>4. ASSUME NEW c \in Cursor, NEW m \in Mapping, ShareIgMappingData(c, m)
      PROVE  Promise!Next
  <2>1. Construct(c) /\ c \notin Live /\ UNCHANGED <<interior_mult, bsplines, nurbs, data>>
    BY <1>0, <1>4 DEF ShareIgMappingData, Construct
  <2>2. PICK map : maps' = With(maps, c, map)
    BY <1>4 DEF ShareIgMappingData
  <2>3. DOMAIN bsplines' = DOMAIN bsplines \cup {s \in BSpline : s = c}
    BY <1>0, <2>1 DEF Mapping
  <2>4. Live' = Live \cup {c} /\ BasesKept
    BY <2>1, <2>2 DEF With, Live, BasesKept
  <2> QED BY <2>1, <2>3, <2>4, Constructed
<1> QED BY <1>1, <1>2, <1>3, <1>4

\* Objects that nothing keeps alive any more are dropped.
LEMMA Released ==
  ASSUME GridRefinementAssumption, PromiseInv, PromiseInv', Consistent, Consistent',
         NEW o, Release(o)
  PROVE  Promise!Next
<1>1. PICK live : live = KeptAlive(held \ {o})
  OBVIOUS
<1>2. PICK D : D = {maps[x].data : x \in DOMAIN maps \cap live}
  OBVIOUS
<1>3. /\ ~refining /\ ~refining' /\ UNCHANGED <<knot_coordinates, interior_mult>>
      /\ bsplines' = Restrict(bsplines, DOMAIN bsplines \cap live)
      /\ nurbs' = Restrict(nurbs, DOMAIN nurbs \cap live)
      /\ maps' = Restrict(maps, DOMAIN maps \cap live)
      /\ data' = Restrict(data, D)
  BY <1>1, <1>2 DEF Release, grid_vars, signal_vars
<1>4. /\ DOMAIN bsplines' \subseteq DOMAIN bsplines
      /\ DOMAIN nurbs' \subseteq DOMAIN nurbs /\ DOMAIN maps' \subseteq DOMAIN maps
      /\ Live' \subseteq Live
  BY <1>3 DEF Restrict, Live
<1>5. BasesKept
  BY <1>3 DEF Restrict, BasesKept
<1>6. KnotsNow' = KnotsNow /\ \A s \in DOMAIN bsplines' : MultNow(s)' = MultNow(s)
  <2>1. DOMAIN bsplines' \subseteq DOMAIN bsplines \cap DOMAIN bsplines'
    BY <1>4
  <2> QED BY <1>3, <2>1, QuietSpaces
<1>7. \A x \in Live' : BaseNow(x)' = BaseNow(x)
  BY <1>4, <1>5, BasesStay
<1>8. Promise!Drop
  BY <1>4, <1>6, <1>7, RestrictedHats, Drops
<1> QED BY <1>8 DEF Promise!Next

\* A slot refines what the promise already holds refined, or not yet.
LEMMA SlotStutters ==
  ASSUME GridRefinementAssumption, PromiseInv, PromiseInv', Consistent, Consistent',
         pending # << >>, pending' = Tail(pending),
         UNCHANGED <<refining, grid_pre_refinement>>,
         Live' = Live, DOMAIN bsplines' = DOMAIN bsplines, BasesKept,
         \A s \in DOMAIN bsplines :
           IF Head(pending) = <<s, "spline">>
             THEN bsplines'[s].previous.mult = interior_mult[s]
             ELSE /\ bsplines'[s].previous = bsplines[s].previous
                  /\ interior_mult'[s] = interior_mult[s]
  PROVE  UNCHANGED Promise!vars
<1>1. KnotsNow' = KnotsNow /\ \A s \in DOMAIN bsplines : MultNow(s)' = MultNow(s)
  BY SlotSpaces
<1>2. \A x \in Live : BaseNow(x)' = BaseNow(x)
  BY BasesStay
<1> QED BY <1>1, <1>2, Stutters

-----------------------------------------------------------------------------
(* The slots, and the theorem.                                               *)

\* Every slot, called or passed over.
LEMMA SlotsStutter ==
  ASSUME GridRefinementAssumption, PromiseInv, PromiseInv', Consistent, Consistent',
         \/ \E s \in BSpline : SplineSlot(s) \/ BSplineSlot(s)
         \/ \E w \in Nurbs : WeightsSlot(w)
         \/ \E m \in Map : ControlMeshSlot(m)
         \/ PassOver
  PROVE  UNCHANGED Promise!vars
<1>1. ASSUME NEW s \in BSpline, SplineSlot(s)
      PROVE  UNCHANGED Promise!vars
  <2>1. /\ pending # << >> /\ Head(pending) = <<s, "spline">> /\ pending' = Tail(pending)
        /\ UNCHANGED <<refining, grid_pre_refinement, nurbs, maps, data>> /\ s \in Live
    BY <1>1 DEF SplineSlot, Called, grid_vars
  <2>2. s \in DOMAIN bsplines
    BY <2>1 DEF PromiseInv, FollowInv, TypeInv, LivesInv, Members, Live, GridRefinementAssumption
  <2>3. Follows(s) /\ Mult(s) = interior_mult[s]
    BY <2>2, SpacesNow DEF PromiseInv, FollowInv, IInv
  <2>4. bsplines[s].mult = s /\ DOMAIN bsplines \subseteq DOMAIN interior_mult
    BY <2>3 DEF Follows, PromiseInv, FollowInv, IInv, ObjectsOk
  <2>5. PICK M, dim, old, refined :
          /\ M = interior_mult[s] /\ refined = RefinedMult(M) /\ dim = NumBasisTable(refined)
          /\ old = [knots |-> grid_pre_refinement, mult |-> M]
    OBVIOUS
  <2>6. /\ interior_mult' = [interior_mult EXCEPT ![s] = refined]
        /\ bsplines' = [bsplines EXCEPT ![s].previous = old, ![s].space_dim = dim]
    BY <1>1, <2>3, <2>4, <2>5 DEF SplineSlot
  <2>7. bsplines'[s].previous.mult = interior_mult[s]
    <3>1. PICK dim0, old0, dofs0 :
            bsplines[s] = [mult |-> s, space_dim |-> dim0, previous |-> old0, dofs |-> dofs0]
      BY <2>3 DEF Follows
    <3>2. bsplines'[s] = [[bsplines[s] EXCEPT !.previous = old] EXCEPT !.space_dim = dim]
      BY <2>2, <2>6
    <3>3. [bsplines[s] EXCEPT !.previous = old]
            = [mult |-> s, space_dim |-> dim0, previous |-> old, dofs |-> dofs0]
      BY <3>1
    <3>4. bsplines'[s] = [mult |-> s, space_dim |-> dim, previous |-> old, dofs |-> dofs0]
      BY <3>2, <3>3
    <3> QED BY <2>5, <3>4
  <2>8. /\ DOMAIN bsplines' = DOMAIN bsplines
        /\ \A r \in DOMAIN bsplines :
             r # s => bsplines'[r] = bsplines[r] /\ interior_mult'[r] = interior_mult[r]
    BY <2>4, <2>6
  <2>9. Live' = Live /\ BasesKept
    BY <2>1, <2>8 DEF Live, BasesKept
  <2>10. \A r \in DOMAIN bsplines : Head(pending) = <<r, "spline">> <=> r = s
    BY <2>1
  <2>11. \A r \in DOMAIN bsplines :
           IF Head(pending) = <<r, "spline">>
             THEN bsplines'[r].previous.mult = interior_mult[r]
             ELSE /\ bsplines'[r].previous = bsplines[r].previous
                  /\ interior_mult'[r] = interior_mult[r]
    BY <2>7, <2>8, <2>10
  <2> QED BY <2>1, <2>8, <2>9, <2>11, SlotStutters
<1>2. ASSUME pending # << >>, pending' = Tail(pending),
             UNCHANGED <<refining, grid_pre_refinement, interior_mult>>,
             \A s \in DOMAIN bsplines : Head(pending) # <<s, "spline">>,
             DOMAIN bsplines' = DOMAIN bsplines,
             \A s \in DOMAIN bsplines : bsplines'[s].previous = bsplines[s].previous,
             DOMAIN nurbs' = DOMAIN nurbs, DOMAIN maps' = DOMAIN maps, BasesKept
      PROVE  UNCHANGED Promise!vars
  BY <1>2, SlotStutters DEF Live
<1>3. ASSUME NEW s \in BSpline, BSplineSlot(s)
      PROVE  UNCHANGED Promise!vars
  <2>1. /\ pending # << >> /\ Head(pending) = <<s, "bspline">> /\ pending' = Tail(pending)
        /\ UNCHANGED <<refining, grid_pre_refinement, interior_mult, nurbs, maps, data>>
    BY <1>3 DEF BSplineSlot, Called, grid_vars
  <2>2. \A r \in DOMAIN bsplines : Head(pending) # <<r, "spline">>
    BY <2>1
  <2>3. PICK dofs : bsplines' = [bsplines EXCEPT ![s].dofs = dofs]
    BY <1>3 DEF BSplineSlot
  <2>4. DOMAIN bsplines' = DOMAIN bsplines
    BY <2>3
  <2>5. ASSUME NEW r \in DOMAIN bsplines
        PROVE  bsplines'[r].previous = bsplines[r].previous
    <3>1. PICK mult, dim, old, dofs0 :
            bsplines[r] = [mult |-> mult, space_dim |-> dim, previous |-> old, dofs |-> dofs0]
      BY DEF PromiseInv, FollowInv, TypeInv, LivesInv, Members
    <3>2. r = s => bsplines'[r] = [bsplines[r] EXCEPT !.dofs = dofs]
      BY <2>3
    <3>3. r # s => bsplines'[r] = bsplines[r]
      BY <2>3
    <3> QED BY <3>1, <3>2, <3>3
  <2>6. DOMAIN nurbs' = DOMAIN nurbs /\ DOMAIN maps' = DOMAIN maps /\ BasesKept
    BY <2>1 DEF BasesKept
  <2> QED BY <1>2, <2>1, <2>2, <2>4, <2>5, <2>6
<1>4. ASSUME NEW w \in Nurbs, WeightsSlot(w)
      PROVE  UNCHANGED Promise!vars
  <2>1. /\ pending # << >> /\ Head(pending) = <<w, "weights">> /\ pending' = Tail(pending)
        /\ UNCHANGED <<refining, grid_pre_refinement, interior_mult, bsplines, maps, data>>
    BY <1>4 DEF WeightsSlot, Called, grid_vars
  <2>2. \A r \in DOMAIN bsplines : Head(pending) # <<r, "spline">>
    BY <2>1
  <2>3. PICK weights : nurbs' = [nurbs EXCEPT ![w].weights = weights]
    BY <1>4 DEF WeightsSlot
  <2>4. DOMAIN nurbs' = DOMAIN nurbs
    BY <2>3
  <2>5. ASSUME NEW v \in DOMAIN nurbs
        PROVE  nurbs'[v].sp_space = nurbs[v].sp_space
    <3>1. PICK space, weights0 : nurbs[v] = [sp_space |-> space, weights |-> weights0]
      BY DEF PromiseInv, FollowInv, TypeInv, LivesInv, Members
    <3>2. v = w => nurbs'[v] = [nurbs[v] EXCEPT !.weights = weights]
      BY <2>3
    <3>3. v # w => nurbs'[v] = nurbs[v]
      BY <2>3
    <3> QED BY <3>1, <3>2, <3>3
  <2>6. BasesKept
    BY <2>1, <2>5 DEF BasesKept
  <2> QED BY <1>2, <2>1, <2>2, <2>4, <2>6
<1>5. ASSUME NEW m \in Map, ControlMeshSlot(m)
      PROVE  UNCHANGED Promise!vars
  <2>1. /\ pending # << >> /\ Head(pending) = <<m, "control_mesh">> /\ pending' = Tail(pending)
        /\ UNCHANGED <<refining, grid_pre_refinement, interior_mult, bsplines, nurbs, maps>>
    BY <1>5 DEF ControlMeshSlot, Called, grid_vars
  <2>2. \A r \in DOMAIN bsplines : Head(pending) # <<r, "spline">>
    BY <2>1
  <2>3. PICK d, mesh, points : data' = [data EXCEPT ![d].ctrl_mesh = mesh,
                                                    ![d].control_points = points]
    BY <1>5 DEF ControlMeshSlot
  <2>4. ASSUME NEW e \in DOMAIN data
        PROVE  data'[e].ref_space = data[e].ref_space
    <3>1. PICK space, mesh0, points0 :
            data[e] = [ref_space |-> space, ctrl_mesh |-> mesh0, control_points |-> points0]
      BY DEF PromiseInv, FollowInv, TypeInv, LivesInv, Members
    <3>2. e = d => data'[e] = [[data[e] EXCEPT !.ctrl_mesh = mesh] EXCEPT !.control_points = points]
      BY <2>3
    <3>3. e # d => data'[e] = data[e]
      BY <2>3
    <3> QED BY <3>1, <3>2, <3>3
  <2>5. BasesKept
    BY <2>1, <2>4 DEF BasesKept
  <2> QED BY <1>2, <2>1, <2>2, <2>5
<1>6. CASE PassOver
  <2>1. /\ pending # << >> /\ Head(pending) \in disconnected /\ pending' = Tail(pending)
        /\ UNCHANGED <<refining, grid_pre_refinement, interior_mult, bsplines, nurbs, maps, data>>
    BY <1>6 DEF PassOver, grid_vars, object_vars
  <2>2. \A r \in DOMAIN bsplines : Head(pending) # <<r, "spline">>
    BY <2>1 DEF PromiseInv, FollowInv, IInv, SignalsOk, ObjectsOk
  <2>3. BasesKept
    BY <2>1 DEF BasesKept
  <2> QED BY <1>2, <2>1, <2>2, <2>3
<1> QED BY <1>1, <1>3, <1>4, <1>5, <1>6

\* A refinement begins: the promise makes its step when it ends.
LEMMA RefineStutters ==
  ASSUME GridRefinementAssumption, PromiseInv, PromiseInv', Consistent, Consistent',
         NEW dirs, NEW n, Refine(dirs, n)
  PROVE  UNCHANGED Promise!vars
<1>1. /\ ~refining /\ refining' /\ pending' = refine_signals
      /\ grid_pre_refinement' = knot_coordinates
      /\ UNCHANGED <<interior_mult, bsplines, nurbs, maps, data>>
  BY DEF Refine, CallOrder, object_vars
<1>2. KnotsNow' = KnotsNow
  BY <1>1 DEF KnotsNow
<1>3. ASSUME NEW s \in DOMAIN bsplines
      PROVE  MultNow(s)' = MultNow(s)
  <2>1. Calls(pending', <<s, "spline">>)
    BY <1>1 DEF PromiseInv, FollowInv, IInv, SignalsOk, Connected
  <2> QED BY <1>1, <2>1, SpacesNow, SpacesNext
<1>4. Live' = Live /\ BasesKept
  BY <1>1 DEF Live, BasesKept
<1>5. \A x \in Live : BaseNow(x)' = BaseNow(x)
  BY <1>4, BasesStay
<1> QED BY <1>1, <1>2, <1>3, <1>4, <1>5, Stutters

\* At first there is a grid and nothing on it.
LEMMA Inits == ASSUME Init PROVE Promise!Init
<1>1. DOMAIN KHat = Dir
  BY DEF KHat
<1>2. DOMAIN bsplines = {} /\ Live = {}
  BY DEF Init, Live
<1>3. MHat = << >>
  BY <1>2 DEF MHat
<1>4. BHat = << >>
  BY <1>2 DEF BHat
<1>5. SHat = << >>
  BY <1>2 DEF SHat
<1> QED BY <1>1, <1>3, <1>4, <1>5 DEF Promise!Init, KHat, MHat, BHat, SHat

\* Grid and objects are refined as if in one step: every behaviour of the slots is one
\* of an h-refinement that cuts all knots, extends all multiplicities and resizes all
\* objects at once.
THEOREM RefinementKeepsPromise ==
  ASSUME GridRefinementAssumption, OneOwner
  PROVE  Spec => RefinedTogether
<1>1. Init => Promise!Init
  BY Inits
<1>2. Init => CutOk
  BY InitCutOk
<1>3. FollowInv /\ CutOk /\ [Next]_vars => CutOk'
  BY NextCutOk DEF FollowInv
<1>4. PromiseInv /\ PromiseInv' /\ [Next]_vars => [Promise!Next]_(Promise!vars)
  <2>1. SUFFICES ASSUME PromiseInv, PromiseInv', [Next]_vars
                 PROVE  Promise!Next \/ UNCHANGED Promise!vars
    OBVIOUS
  <2>2. Consistent
    BY <2>1, AlwaysConsistent
  <2>3. Consistent'
    <3>1. (GridRefinementAssumption /\ PromiseInv)' => Consistent'
      BY AlwaysConsistent, PTL
    <3>2. GridRefinementAssumption'
      BY DEF GridRefinementAssumption
    <3> QED BY <2>1, <3>1, <3>2
  <2>4. CASE \/ \E s \in BSpline : \/ \E m \in Multiplicity : CreateBSplineSpace(s, m)
                                   \/ \E r \in BSpline : CreateOnTableOf(s, r)
                                   \/ \E w \in Nurbs : CreateNURBSSpace(w, s)
             \/ \E m \in Map, r \in Space : CreateIgMapping(m, r)
             \/ \E m \in Mapping, c \in Cursor : ShareIgMappingData(c, m)
             \/ \E m \in Mapping, c \in Copy : CopyIgMapping(c, m)
    BY <2>1, <2>2, <2>3, <2>4, Constructors, ConstructorsKeep DEF OneOwner
  <2>5. CASE \E o \in Releasable : Release(o)
    BY <2>1, <2>2, <2>3, <2>5, Released
  <2>6. CASE \E dirs \in SUBSET Dir : \E n \in [dirs -> Subdivisions] : Refine(dirs, n)
    BY <2>1, <2>2, <2>3, <2>6, RefineStutters
  <2>7. CASE \/ \E s \in BSpline : SplineSlot(s) \/ BSplineSlot(s)
             \/ \E w \in Nurbs : WeightsSlot(w)
             \/ \E m \in Map : ControlMeshSlot(m)
             \/ PassOver
    BY <2>1, <2>2, <2>3, <2>7, SlotsStutter
  <2>8. CASE RefinementDone
    <3>1. \E n \in [Dir -> Subdivisions \cup {1}] : Promise!Refine(n)
      BY <2>1, <2>2, <2>3, <2>8, Refines
    <3> QED BY <3>1 DEF Promise!Next
  <2>9. CASE UNCHANGED vars
    <3>1. UNCHANGED <<knot_coordinates, grid_pre_refinement, refining, pending, interior_mult,
                      bsplines, nurbs, maps, data>>
      BY <2>9 DEF vars, grid_vars, signal_vars, object_vars
    <3>2. KnotsNow' = KnotsNow /\ Live' = Live /\ BasesKept
      BY <3>1 DEF KnotsNow, Live, BasesKept
    <3>3. \A s \in DOMAIN bsplines : MultNow(s)' = MultNow(s)
      BY <2>1, <3>1, SpacesNow, SpacesNext
    <3>4. \A x \in Live : BaseNow(x)' = BaseNow(x)
      BY <2>1, <3>2, BasesStay
    <3> QED BY <2>2, <2>3, <3>1, <3>2, <3>3, <3>4, Stutters
  <2> QED BY <2>1, <2>4, <2>5, <2>6, <2>7, <2>8, <2>9 DEF Next
<1>5. Spec => []FollowInv
  BY CoefficientsInvariant
<1>6. PromiseInv <=> FollowInv /\ CutOk
  BY DEF PromiseInv
<1> QED BY <1>1, <1>2, <1>3, <1>4, <1>5, <1>6, PTL DEF Spec, RefinedTogether, Promise!Spec
==================================================================================
