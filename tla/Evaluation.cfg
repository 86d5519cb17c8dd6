SPECIFICATION ToolSpec
CONSTANTS
  Prime = 44351
  MaxRulePoints = 4
  Setups <- AllSetups
  ToolSetups <- Projected
  Coefficient <- Anisotropic
  MaxFaces = 6
CHECK_DEADLOCK FALSE
INVARIANT BasisExact
INVARIANT MappingsDifferentiate
INVARIANT ChainRule
INVARIANT Isoparametric
INVARIANT OperatorsAgree
INVARIANT FacesTraced
INVARIANT ProjectionsReproduce
