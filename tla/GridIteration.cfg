SPECIFICATION FairSpec
CONSTANTS
  i1 = i1
  Rank = 2
  InitialSize <- OneByOne
  Iterator = {i1}
  Increments <- UnitSteps
  FlagChanges <- AnyFlags
  Subdivisions = {2}
  MaxDistance = 2
  MaxRefinements = 1
INVARIANTS TypeOK LoopVisitsActive
PROPERTIES IndicesAgree LoopsEnd
