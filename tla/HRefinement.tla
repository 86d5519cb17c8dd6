----------------------------- MODULE HRefinement -----------------------------
(***************************************************************************)
(* What h-refinement promises: the grid and every object built on it are   *)
(* refined together, in one step.  A space is known by the multiplicities  *)
(* of its interior knots, as a function of their coordinates, and every    *)
(* object by the space it is built on and by how many coefficients (dofs,  *)
(* weights, control points) it has in each direction.                      *)
(***************************************************************************)
EXTENDS Integers, FiniteSets, Functions

CONSTANTS Dir, Degree, Subdivisions

VARIABLES
  knots,   \* knots[d]: the coordinates of the grid in direction d
  mult,    \* mult[s][d][k]: the multiplicity space s gives to interior knot k
  base,    \* base[o]: the space object o is built on (a space: itself)
  size     \* size[o][d]: the coefficients of o in direction d

vars == <<knots, mult, base, size>>

Interior(K) == {k \in K : (\E a \in K : a < k) /\ (\E b \in K : k < b)}

\* The interior knots of one direction, each as often as it is repeated.
Repetitions(m) == UNION {{k} \X (1 .. m[k]) : k \in DOMAIN m}

\* One function more per repetition of an interior knot.
Dimension(m) == [d \in Dir |-> Degree + 1 + Cardinality(Repetitions(m[d]))]

\* K with every interval cut into n equal ones.
Cut(K, n) ==
  K \cup {k \in (CHOOSE a \in K : \A b \in K : a <= b) .. (CHOOSE b \in K : \A a \in K : a <= b) :
            \E a, b \in K : /\ a < k /\ k < b
                            /\ \A c \in K : c <= a \/ b <= c
                            /\ (n * (k - a)) % (b - a) = 0}

\* Old knots keep their multiplicity and new ones have one.
Follow(m, d, K) == [k \in Interior(K) |-> IF k \in DOMAIN m[d] THEN m[d][k] ELSE 1]

Built == DOMAIN base

Init ==
  /\ mult = << >> /\ base = << >> /\ size = << >>
  /\ DOMAIN knots = Dir

\* A client creates o: a space with multiplicities of its own, or an object on
\* a space that exists.
Create(o) ==
  /\ o \notin Built
  /\ DOMAIN base' = Built \cup {o}
  /\ base'[o] \in DOMAIN mult'
  /\ DOMAIN mult' = DOMAIN mult \cup {base'[o]}
  /\ base'[o] # o => base'[o] \in DOMAIN mult
  /\ \A d \in Dir : DOMAIN mult'[base'[o]][d] = Interior(knots[d])
  /\ size'[o] = Dimension(mult'[base'[o]])
  /\ \A x \in Built : base'[x] = base[x] /\ size'[x] = size[x]
  /\ \A s \in DOMAIN mult : mult'[s] = mult[s]
  /\ UNCHANGED knots

\* Objects cease to exist.
Drop ==
  /\ DOMAIN base' \subseteq Built
  /\ DOMAIN mult' \subseteq DOMAIN mult
  /\ base' = Restrict(base, DOMAIN base')
  /\ size' = Restrict(size, DOMAIN base')
  /\ mult' = Restrict(mult, DOMAIN mult')
  /\ UNCHANGED knots

\* n[d] = 1 where direction d is not refined.
Refine(n) ==
  /\ knots' = [d \in Dir |-> Cut(knots[d], n[d])]
  /\ mult' = [s \in DOMAIN mult |-> [d \in Dir |-> Follow(mult[s], d, knots'[d])]]
  /\ base' = base
  /\ size' = [o \in Built |-> Dimension(mult'[base[o]])]

Next ==
  \/ \E o \in DOMAIN base' : Create(o)
  \/ Drop
  \/ \E n \in [Dir -> Subdivisions \cup {1}] : Refine(n)

Spec == Init /\ [][Next]_vars
=============================================================================
