SPECIFICATION Spec
CONSTANTS
  Kinds <- Both
  JumpingKinds <- BSplines
  Requests <- HessianRequests
  FieldTopologies <- OnElement
  NumElements = 2
  MaxRefinements = 1
INVARIANT NeverStops
CHECK_DEADLOCK FALSE
