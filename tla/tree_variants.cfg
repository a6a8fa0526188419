SPECIFICATION Spec
CONSTANTS
  MaxVal = 7
  Modulus = 3
  Arrays <- SmallArrays
  Actions <- SmallActions
  MaxUpdates = 3
INVARIANTS
  VersionsReplayTheCalls
  AggregatesExact
  ArenaAsPredicted
  GuardAdmitsExactlyTheDomain
CHECK_DEADLOCK FALSE

