SPECIFICATION SegSpec
CONSTANTS
  MaxPages = 3
  MaxLines = 2
  Window = 2
  WindowOverlap = 1
  MaxAttempts = 2
  Confidences = {1, 2}
  Threshold = 2
INVARIANTS
  UnitTextIsItsPages
CHECK_DEADLOCK FALSE
