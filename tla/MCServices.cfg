SPECIFICATION Spec
CONSTANTS
  MaxFunctions = 3
  MaxPoints = 2
  Vectors <- TheVectors
  Past = Past
  Fraction = 2
  MaxIntervals = 4
  Grids <- TheGrids
  Dof = {0, 1, 2, 3}
  MaxInitial = 5
  LoggedNumbers = {1, 99}
  NaN = 99
  Thresholds = {2}
  Depths = {1}
  Files = {"file"}
  MaxWritten = 2
  AttributeValues = {0, 1, 2, 3}
  GridSizes <- TheSizes
  PointNumbers = {2, 3}
  MaxArrays = 2
INVARIANTS
  ArraysAgree
  GridsAgree
  SystemsSolved
  FilesReadBack
  OutputWhole
PROPERTIES
  CursorImplemented
  EqualitiesKept
CHECK_DEADLOCK FALSE
