SPECIFICATION Spec
CONSTANTS
  s1 = s1  s2 = s2  w1 = w1  m1 = m1  c1 = c1  k1 = k1
  Dir <- Line
  BSpline = {s1, s2}
  Nurbs = {w1}
  Map = {m1}
  Cursor = {c1}
  Copy = {k1}
  Degree = 2
  Multiplicity = {1, 2}
  SharesTables = TRUE
  Releasable = {s1, s2, w1, m1, c1, k1}
  InitialKnots <- LineKnots
  Subdivisions = {2}
  MaxRefinements = 1
INVARIANT TypeOK
CHECK_DEADLOCK FALSE
