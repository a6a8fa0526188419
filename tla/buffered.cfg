SPECIFICATION Spec
CONSTANTS
  MaxVal = 7
  Arrays <- SmallArrays
  Deltas <- UnitDeltas
  MaxVersions = 5
  MaxReinitVersions = 2
INVARIANTS
  BuffersInOrder
  PendingRecorded
  QueriesExact
  SnapshotsConsistent
PROPERTIES
  PublishedImmutable
  ImplementsBruteForceArray
CHECK_DEADLOCK FALSE
