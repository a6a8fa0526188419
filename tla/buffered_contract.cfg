SPECIFICATION Spec
CONSTANTS
  MaxVal = 7
  Arrays <- EdgeArrays
  Deltas <- EdgeDeltas
  MaxVersions = 5
  MaxReinitVersions = 0
INVARIANTS
  RepresentableElementsAnswered
CHECK_DEADLOCK FALSE
