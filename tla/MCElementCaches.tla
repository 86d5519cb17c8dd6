---------------------------- MODULE MCElementCaches ----------------------------
(***************************************************************************)
(* Instances of ElementCaches for TLC: the flags clients ask for together. *)
(***************************************************************************)
EXTENDS ElementCaches

Both == {"bspline", "nurbs"}
BSplines == {"bspline"}

\* On the element, on faces, and both, with what programs of the tutorials ask for.
ServedRequests ==
  {{value, point}, {value, gradient, w_measure, point}, {gradient, hessian, w_measure},
   {face_value, face_w_measure, face_point},
   {value, gradient, w_measure, face_value, face_gradient, face_w_measure}}

\* Second derivatives on the elements, values on the boundary.
HessianRequests == {{hessian, face_value}}

GradientRequests == {{gradient, face_gradient}}

OnElement == {"element"}

\* The first can be served, and none asks for normals; those with second derivatives and
\* faces cannot.
ASSUME ServedRequestsServable ==
  \A flags \in ServedRequests : Servable(flags) /\ face_normal \notin flags
ASSUME HessianRequestsNot == \A flags \in HessianRequests : ~Servable(flags)
=============================================================================
