SPECIFICATION Spec
CONSTANTS
  MaxVal = 100
  Modulus = 2
  SmokeSize = 2
  SmokeOperations = 3
  SmokeTail = 1
  SmokeBudget = 2
  TraceSize = 3
  MaxLines = 3
  Deltas <- SmallDeltas
  InitialArrays <- SmallArrays
  Caps = {0, 250, 100000}
  Measured = {"WT", "W7", "W8"}
INVARIANTS
  GeneratedStreamsAreTraces
  ChecksumsAgree
  CapIsModeIndependent
CHECK_DEADLOCK FALSE
