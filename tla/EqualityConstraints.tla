-------------------------- MODULE EqualityConstraints --------------------------
(***************************************************************************)
(* The algorithm of SpaceManager::remove_equality_constraints_redundancies *)
(* on the master/slave dof pairs a SpaceManager collects.                  *)
(*                                                                         *)
(* A constraint is a pair <<master, slave>>; the std::map of the code that *)
(* gives the slaves of a master is the set of pairs with that master.      *)
(* The loop visits the masters in increasing order and clears the row of   *)
(* every slave it absorbs, so what it finds in a row depends only on the   *)
(* masters below: LiveRow is that dependency, as a recursive function.     *)
(***************************************************************************)
EXTENDS Integers, FiniteSets

Masters(cs) == {c[1] : c \in cs}

ConstrainedDofs(cs) == UNION {{c[1], c[2]} : c \in cs}

\* upper_sparsity_pattern_pre[m], as filled by the first loop.
SlavesOf(cs, m) == {c[2] : c \in {d \in cs : d[1] = m}}

\* The row of m when the loop reaches it: emptied if a smaller master, alive
\* when it was visited, had m among its slaves.
LiveRow(cs) ==
  LET live[m \in Masters(cs)] ==
        IF \E k \in Masters(cs) : k < m /\ m \in live[k]
          THEN {}
          ELSE SlavesOf(cs, m)
  IN  live

\* A variant that absorbs nothing: each row keeps its own slaves only.
NothingAbsorbed(cs, s, m) == {}

\* The row of s as master m reads it: emptied if a master visited before m
\* has absorbed it; rows below m that nobody absorbed are still there.
RowReadBy(cs, s, m) ==
  IF \E k \in Masters(cs) : k < m /\ s \in LiveRow(cs)[k]
    THEN {}
    ELSE SlavesOf(cs, s)

\* upper_sparsity_pattern_post[m]: the slaves of m and the slaves of those.
AbsorbedSlaves(cs, m) ==
  LiveRow(cs)[m] \cup UNION {RowReadBy(cs, s, m) : s \in LiveRow(cs)[m]}

\* remove_equality_constraints_redundancies()
WithoutRedundancies(cs) ==
  {c \in Masters(cs) \X ConstrainedDofs(cs) : c[2] \in AbsorbedSlaves(cs, c[1])}

\* Clearing the row of a slave while the row of its master is visited is
\* undefined when the two rows are one: no constraint may tie a dof to itself.
IterationDefined(cs) == \A c \in cs : c[1] # c[2]

-----------------------------------------------------------------------------
(* The reference: which dofs a set of constraints makes equal.               *)

\* The dofs tied to d, by paths of at most n constraints.
TiedWithin(cs, d, n) ==
  LET tied[k \in 0..n] ==
        IF k = 0 THEN {d}
        ELSE tied[k-1] \cup {c[2] : c \in {e \in cs : e[1] \in tied[k-1]}}
                       \cup {c[1] : c \in {e \in cs : e[2] \in tied[k-1]}}
  IN  tied[n]

TiedTo(cs, d) == TiedWithin(cs, d, Cardinality(ConstrainedDofs(cs)))

SameEqualities(cs, ds) ==
  \A d \in ConstrainedDofs(cs) \cup ConstrainedDofs(ds) : TiedTo(cs, d) = TiedTo(ds, d)
=============================================================================
