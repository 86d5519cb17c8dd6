SPECIFICATION Spec
CONSTANTS
  Space <- ThreeSpaces
  Table <- ThreeSpaces
  TableOf <- OwnTables
  Size <- MCSize
  Elements <- MCElements
  FirstDof <- ShiftedTables
  DocumentedUse = FALSE
  CloseArgs <- KeepOrNumber
  MaxOpenings = 3
  MaxBlocks = 0
  MaxExtra = 0
  MaxConstraints = 0
INVARIANTS TypeOK RenumberedDisjoint InfoCurrent
