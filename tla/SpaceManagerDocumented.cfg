SPECIFICATION Spec
CONSTANTS
  Space <- TwoSpaces
  Table <- TwoSpaces
  TableOf <- OwnTables
  Size <- SmallSize
  Elements <- SmallElements
  FirstDof <- FreshTables
  DocumentedUse = TRUE
  CloseArgs <- Always
  MaxOpenings = 2
  MaxBlocks = 2
  MaxExtra = 1
  MaxConstraints = 1
INVARIANTS ViewComplete NumberingDense StoredIdsLive PatternMatchesMaps
PROPERTY PublishedDofsFixed
