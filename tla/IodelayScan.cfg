SPECIFICATION Spec
CONSTANTS
  Steps = 32
  MaxArc = 16
  MaxEarly = 1
INVARIANTS OptimumIsClean PrintsTruth
CHECK_DEADLOCK FALSE
