------------------------------ MODULE ValueFlags ------------------------------
(***************************************************************************)
(* The flags with which clients say what the caches of an element shall    *)
(* hold, the operators on them, the handlers that read them and the places *)
(* that widen them on their way from a physical space to the grid.         *)
(*                                                                         *)
(* A value of the 64-bit enumeration ValueFlags is the set of its one      *)
(* bits.  The operators convert it to int and back.                        *)
(***************************************************************************)
EXTENDS Integers

point == 1
measure == 2
w_measure == 3
face_point == 4
face_measure == 5
face_w_measure == 6
face_normal == 7
map_gradient == 14
map_hessian == 15
map_inv_gradient == 16
map_inv_hessian == 17
map_face_gradient == 18
map_face_hessian == 19
map_face_inv_gradient == 20
map_face_inv_hessian == 21
tran_value == 22
tran_gradient == 23
tran_hessian == 24
value == 25
gradient == 26
hessian == 27
divergence == 28
face_value == 29
face_gradient == 30
face_hessian == 31
face_divergence == 32

Flag == 0 .. 63

\* The conversion to int drops the bits from 32; back, the sign bit 31 is copied
\* to all of them.
Widen(bits) ==
  LET low == bits \cap (0 .. 31)
  IN  IF 31 \in low THEN low \cup (32 .. 63) ELSE low

Or(a, b)  == Widen(a \cup b)
And(a, b) == Widen(a \cap b)
ContainsFlag(a, b) == And(a, b) = b
Admits(admissible, a) == Or(a, admissible) = admissible

\* A row is a flag and what is added for it.
\* The rows whose flag is in tested, added to start, which the operators have made.
Add(rows, tested, start) ==
  Or(start, UNION {row[2] : row \in {r \in rows : ContainsFlag(tested, {r[1]})}})

\* One row, where what is tested is what has been added before.
AddTo(flags, flag, more) == IF ContainsFlag(flags, {flag}) THEN Or(flags, more) ELSE flags

-----------------------------------------------------------------------------
(* The handlers: the quantities a cache is to hold.                        *)

Fills(table, flags) == UNION {row[2] : row \in {r \in table : ContainsFlag(flags, {r[1]})}}

MeasureTable(m, wm) == {<<m, {"measures"}>>, <<wm, {"measures", "w_measures"}>>}

GridElem == MeasureTable(measure, w_measure)
GridFace == MeasureTable(face_measure, face_w_measure)

MappingTable(p, g, h, ig, ih, m, wm) ==
  {<<p, {"values"}>>, <<g, {"gradients"}>>, <<h, {"hessians"}>>,
   <<ig, {"gradients", "measures", "inv_gradients"}>>, <<ih, {"hessians", "inv_hessians"}>>,
   <<m, {"gradients", "measures"}>>, <<wm, {"gradients", "measures", "w_measures"}>>}

MappingElem == MappingTable(point, map_gradient, map_hessian, map_inv_gradient,
                            map_inv_hessian, measure, w_measure)
MappingFace ==
  MappingTable(face_point, map_face_gradient, map_face_hessian, map_face_inv_gradient,
               map_face_inv_hessian, face_measure, face_w_measure)
    \cup {<<face_normal, {"normals"}>>}

BasisTable(v, g, h, d) ==
  {<<v, {"values"}>>, <<g, {"gradients"}>>, <<h, {"hessians"}>>, <<d, {"gradients", "divergences"}>>}

BasisElem == BasisTable(value, gradient, hessian, divergence)
BasisFace == BasisTable(face_value, face_gradient, face_hessian, face_divergence)

-----------------------------------------------------------------------------
(* The flags each kind of accessor admits.                                 *)

GridAdmissible == {point, measure, w_measure, face_point, face_measure, face_w_measure, face_normal}

MappingAdmissible ==
  {measure, w_measure, face_point, face_measure, face_w_measure, face_normal, point}
    \cup (map_gradient .. map_face_inv_hessian)

SpaceAdmissible ==
  Widen({point, measure, w_measure, face_point, face_w_measure} \cup (value .. face_divergence))

-----------------------------------------------------------------------------
(* The flags on their way down.                                            *)

\* From a physical space to its reference space, for the h_grad transformation.
ReferenceSpaceFlags(flags) ==
  Add({<<value, {value}>>, <<gradient, {gradient}>>, <<hessian, {gradient, hessian}>>,
       <<face_value, {face_value}>>, <<face_gradient, {face_gradient}>>,
       <<face_hessian, {face_gradient, face_hessian}>>, <<measure, {measure}>>}, flags, {})

\* A variant that drops the weighted measures of faces as it drops their measures.
PushForwardFewer(flags) ==
  Add({<<value, {tran_value}>>, <<face_value, {tran_value}>>,
       <<gradient, {tran_gradient}>>, <<face_gradient, {tran_gradient}>>,
       <<hessian, {tran_hessian}>>, <<face_hessian, {tran_hessian}>>}, flags,
      And(flags, MappingAdmissible \ {face_measure, face_w_measure}))

\* From a physical space to its push-forward.
PushForwardFlags(flags) ==
  Add({<<value, {tran_value}>>, <<face_value, {tran_value}>>,
       <<gradient, {tran_gradient}>>, <<face_gradient, {tran_gradient}>>,
       <<hessian, {tran_hessian}>>, <<face_hessian, {tran_hessian}>>}, flags,
      And(flags, MappingAdmissible \ {face_measure}))

\* From a push-forward to its mapping, for the h_grad transformation.
MappingFlags(flags) ==
  LET tested == AddTo(flags, tran_hessian, {tran_gradient})
      common == And(flags, MappingAdmissible \ {measure, face_measure})
      asked ==
        Add({<<w_measure, {measure, map_gradient}>>,
             <<face_w_measure, {face_measure, map_face_gradient}>>,
             <<face_normal, {map_face_inv_gradient, map_face_gradient}>>,
             <<tran_hessian, {map_hessian, map_inv_gradient, map_face_hessian,
                              map_face_inv_hessian, map_face_inv_gradient}>>,
             <<tran_value, {point, face_point}>>,
             <<tran_gradient, {map_gradient, map_inv_gradient, map_face_gradient,
                               map_face_inv_gradient}>>}, tested, common)
      lengths == AddTo(asked, measure, {map_gradient, map_face_gradient})
      inverse == AddTo(lengths, map_inv_gradient,
                       {map_gradient, measure, map_face_gradient, face_measure})
  IN  AddTo(inverse, map_inv_hessian, {map_hessian, map_face_hessian})

\* Inside a mapping, before its handlers read them.
MappingCacheFlags(flags) ==
  LET weighted == AddTo(flags, w_measure, {measure})
      measured == AddTo(weighted, measure, {map_gradient})
      face_weighted == AddTo(measured, face_w_measure, {face_measure})
      face_measured == AddTo(face_weighted, face_measure, {map_face_gradient})
  IN  AddTo(face_measured, face_normal, {map_face_gradient, map_face_inv_gradient})

\* A variant that forgets the lengths the weighted measures of faces need.
MappingGridNoFaces(flags) == Add({<<point, {point}>>, <<w_measure, {w_measure}>>}, flags, {})

\* From a mapping to the grid.
MappingGridFlags(flags) ==
  Add({<<point, {point}>>, <<w_measure, {w_measure}>>, <<face_point, {face_point}>>,
       <<face_w_measure, {face_w_measure}>>, <<face_normal, {face_point}>>}, flags, {})

\* From an IgMapping to the space of its control points.
GeometryFlags(flags) ==
  Add({<<point, {value}>>, <<face_point, {face_value}>>, <<map_gradient, {gradient}>>,
       <<map_face_gradient, {face_gradient}>>, <<map_hessian, {hessian}>>,
       <<map_face_hessian, {face_hessian}>>}, flags, {})

\* Inside a B-spline space, before its handlers read them.
SplineCacheFlags(flags) ==
  AddTo(AddTo(flags, divergence, {gradient}), face_divergence, {face_gradient})

\* From a NURBS to the B-splines under it.
NurbsSplineFlags(flags) ==
  Add({<<gradient, {value, gradient}>>, <<face_gradient, {face_value, face_gradient}>>,
       <<hessian, {value, gradient, hessian}>>,
       <<face_hessian, {face_value, face_gradient, face_hessian}>>}, flags, flags)
=============================================================================
