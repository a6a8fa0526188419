SPECIFICATION Spec
CONSTANTS
  MaxVal = 3
  Arrays <- SmallArrays
  Deltas <- SmallDeltas
  MaxVersions = 4
INVARIANTS
  VersionsInDomain
  SumsExact
