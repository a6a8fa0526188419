SPECIFICATION Spec
CONSTANTS
  ScheduledWorkloads = {"W7"}
  ScheduledStructures = {"checkpointing", "persistent", "full-copy"}
  OtherStructures = {"persistent", "lazy"}
  ReachesCap <- CappedPairs
  CappedCells <- CappedPairs
  PrimaryVariants = {16}
  Trials = 1
  PrimaryTrials = 2
  CappedTrials = 2
  Warmup = 1
  BaseSeed = 20
  MaxCrashes = 2
  MaxLosses = 2
INVARIANTS
  OneScheduleOnly
  RawMatchesMonolithic
PROPERTIES
  FinishedRowsStay
  PhaseCompletes
CHECK_DEADLOCK FALSE
