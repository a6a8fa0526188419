SPECIFICATION Spec
CONSTANTS
  MaxVal = 7
  Arrays <- ZeroArray
  Deltas <- TagDeltas
  MaxVersions = 6
  MaxReinitVersions = 0
INVARIANTS
  RepresentableSumsAnswered
CHECK_DEADLOCK FALSE
