SPECIFICATION Spec
CONSTANTS
  ScheduledWorkloads = {"W7"}
  ScheduledStructures = {"persistent", "full-copy"}
  OtherStructures = {"persistent", "lazy"}
  ReachesCap <- CappedPairs
  CappedCells <- CappedPairs
  PrimaryVariants = {16}
  Trials = 1
  PrimaryTrials = 2
  CappedTrials = 1
  Warmup = 1
  BaseSeed = 20
  MaxCrashes = 1
  MaxLosses = 0
INVARIANTS
  MarkedPhaseHasEveryRow
CHECK_DEADLOCK FALSE
