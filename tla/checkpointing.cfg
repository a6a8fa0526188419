SPECIFICATION Spec
CONSTANTS
  MaxVal = 7
  Arrays <- SmallArrays
  Deltas <- SmallDeltas
  Intervals <- SmallIntervals
  MaxVersions = 4
  MaxReinitVersions = 1
INVARIANTS
  TreesAgreeWithLog
  QueriesExact
PROPERTIES
  ImplementsBruteForceArray
  ThrowsBeforeMutation
CHECK_DEADLOCK FALSE
