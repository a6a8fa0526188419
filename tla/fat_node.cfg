SPECIFICATION Spec
CONSTANTS
  MaxVal = 7
  Arrays <- SmallArrays
  Deltas <- SmallDeltas
  MaxVersions = 5
  MaxReinitVersions = 1
INVARIANTS
  StampsIncrease
  SnapshotsConsistent
  QueriesExact
PROPERTIES
  ImplementsBruteForceArray
  ThrowsBeforeMutation
CHECK_DEADLOCK FALSE
