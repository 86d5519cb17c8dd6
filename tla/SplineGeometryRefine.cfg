SPECIFICATION Spec
CONSTANTS
  Prime = 46307
  Components <- Plane
  Degree <- MixedDegrees
  Kinds <- Both
  InitialGrids <- Grids
  Nets = {2}
  NetPoint <- Point
  NetWeight <- Weight
  Cuts <- CutSome
  MaxRefinements = 2
  UnitPoints <- Samples
INVARIANT GeometryKept
INVARIANT MeshesAgree
