--------------------------- MODULE MCSplineGeometry ---------------------------
(***************************************************************************)
(* Surfaces of degrees (2, 1) and (1, 2), with a simple and a double       *)
(* interior knot, for TLC.                                                 *)
(***************************************************************************)
EXTENDS SplineGeometry

Both == {"bspline", "nurbs"}
Plane == 0 .. 1
MixedDegrees == [c \in Plane |-> IF c = 0 THEN <<2, 1>> ELSE <<1, 2>>]

\* Two unequal intervals by one; the interior knot is simple, or double where C^-1 allows.
Grids ==
  {[knots |-> <<<<0, 12, 36>>, <<0, 36>>>>,
    mult |-> [c \in Plane |-> <<<<m[c]>>, <<>>>>]] : m \in {[c \in Plane |-> 1], [c \in Plane |-> 2 - c]}}

Point(net, c, i, j) == (net * i * i + 5 * j * (i + 1) + 3 * c * i + 7) % Prime
Weight(c, i, j) == 1 + ((2 * i + 3 * j + c) % 4)

Halve == [d \in {1, 2} |-> 2]
CutOne == {[d \in {1} |-> 2], [d \in {2} |-> 3]}
CutSome == CutOne \cup {Halve, [d \in {1, 2} |-> 4 - d]}
Samples == {4, 77}
=============================================================================
