SPECIFICATION Spec
CONSTANTS
  Sessions = {s1, s2}
  BatchSize = 2
  TotalSteps = 2
  Warmup = 0
  BatchMultiple = 3
  Threshold = 2
  Strategy = "drop"
  MaxTurns = 2
  MaxFailures = 1
  Mode = "sync"
SYMMETRY SessionSymmetry
CHECK_DEADLOCK FALSE
INVARIANT AsleepIdle
PROPERTY NoResample
