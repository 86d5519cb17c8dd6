--------------------------- MODULE MCGridRefinement ---------------------------
(***************************************************************************)
(* Instances of GridRefinement for TLC.                                    *)
(***************************************************************************)
EXTENDS GridRefinement

CONSTANTS s1, s2, w1, m1, c1, k1

Plane == 1 .. 2

\* Two intervals of different lengths in direction 1 and one in direction 2;
\* two refinements by 2 or 3 stay on the integers.
PlaneKnots == <<<<0, 36, 108>>, <<0, 36>>>>
Line       == 1 .. 1
LineKnots  == <<<<0, 36, 108, 144>>>>
=============================================================================
