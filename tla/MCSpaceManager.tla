---------------------------- MODULE MCSpaceManager ----------------------------
(***************************************************************************)
(* Instances of SpaceManager for TLC.  Spaces and tables are integers.     *)
(***************************************************************************)
EXTENDS SpaceManager

\* Two or three spaces, each with a DofDistribution of its own.
TwoSpaces   == 1 .. 2
ThreeSpaces == 1 .. 3
OwnTables   == [s \in Space |-> s]

\* Spaces 1 and 2 view table 1: a NURBSSpace and its BSplineSpace.
SharedTable == [s \in Space |-> IF s = 3 THEN 2 ELSE 1]

\* Table 1 has three dofs on two elements, the others two dofs on one element.
MCSize     == [t \in Table |-> IF t = 1 THEN 3 ELSE 2]
MCElements == [t \in Table |-> IF t = 1 THEN {{0, 1}, {1, 2}} ELSE {{0, 1}}]

\* Two dofs and one dof: enough to constrain a dof by another of its space.
SmallSize     == [t \in Table |-> IF t = 1 THEN 2 ELSE 1]
SmallElements == [t \in Table |-> IF t = 1 THEN {{0, 1}} ELSE {{0}}]

\* Tables as DofDistribution creates them, and tables another manager (or a
\* call of add_dofs_offset) has shifted before.
FreshTables   == [t \in Table |-> 0]
ShiftedTables == [t \in Table |-> IF t = 2 THEN 4 ELSE 0]

Always       == {TRUE}
KeepOrNumber == BOOLEAN
=============================================================================
