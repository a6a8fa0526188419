SPECIFICATION Spec
CONSTANTS
  MaxVal = 7
  Arrays <- SmallArrays
  Deltas <- SmallDeltas
  MaxVersions = 4
  MaxReinitVersions = 2
INVARIANTS
  TypeOK
  TreesWellFormed
  ControlConsistent
  QueriesExact
  NoOrphans
  EnvelopeSound
PROPERTIES
  PublishedImmutable
  ImplementsBruteForceArray
  CallsReturn
CHECK_DEADLOCK FALSE
