SPECIFICATION MultiPatchSpec
CONSTANTS
  Space <- Five
  Table <- Five
  TableOf <- OwnTables
  Size <- MCSize
  Elements <- MCElements
  FirstDof <- FreshTables
  CloseArgs <- KeepOrNumber
  DocumentedUse = TRUE
  MaxOpenings = 4
  MaxBlocks = 15
  MaxExtra = 8
  MaxConstraints = 9
  MultiPatchSpaces = {m1, m2}
  Patch <- MCPatch
  Multiplier <- MCMultiplier
  MapOf <- MCMapOf
  Shape <- MCShape
  Contact <- MCContact
  MultiplierFor <- MCMultiplierFor
  InterfaceTypes = {"C0_strong"}
INVARIANTS SystemCoupled DofsFound
PROPERTY CallsReturn
CHECK_DEADLOCK FALSE
