SPECIFICATION Spec
CONSTANTS
  s1 = s1  s2 = s2  w1 = w1  m1 = m1  c1 = c1  k1 = k1
  Dir <- Plane
  BSpline = {s1}
  Nurbs = {w1}
  Map = {m1}
  Cursor = {c1}
  Copy = {}
  Degree = 2
  Multiplicity = {1, 3}
  SharesTables = FALSE
  Releasable = {w1, c1}
  InitialKnots <- PlaneKnots
  Subdivisions = {2, 3}
  MaxRefinements = 2
INVARIANTS ObjectsFollowGrid NestedSpaces SlotPreconditions
PROPERTY RefinedTogether
CHECK_DEADLOCK FALSE
