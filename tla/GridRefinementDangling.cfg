SPECIFICATION Spec
CONSTANTS
  s1 = s1  s2 = s2  w1 = w1  m1 = m1  c1 = c1  k1 = k1
  Dir <- Line
  BSpline = {s1, s2}
  Nurbs = {w1}
  Map = {}
  Cursor = {}
  Copy = {}
  Degree = 2
  Multiplicity = {1, 2}
  SharesTables = FALSE
  Releasable = {s1, s2, w1}
  InitialKnots <- LineKnots
  Subdivisions = {2}
  MaxRefinements = 1
INVARIANT SlotsOfLiveObjects
CHECK_DEADLOCK FALSE
