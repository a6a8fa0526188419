SPECIFICATION Spec
CONSTANTS
  MaxSize = 20
INVARIANTS
  SumOfFamily
  CountsAreOfSegments
  MaximumIsTight
CHECK_DEADLOCK FALSE
