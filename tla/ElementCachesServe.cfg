SPECIFICATION Spec
CONSTANTS
  Kinds <- Both
  JumpingKinds <- BSplines
  Requests <- ServedRequests
  FieldTopologies <- OnElement
  NumElements = 2
  MaxRefinements = 1
INVARIANT RequestedServed
INVARIANT ServedCurrent
INVARIANT NeverStops
INVARIANT FieldCurrent
