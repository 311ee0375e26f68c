SPECIFICATION Spec
CONSTANTS
  Sessions = {s1, s2}
  BatchSize = 1
  TotalSteps = 3
  Warmup = 1
  BatchMultiple = 3
  Threshold = 1
  Strategy = "drop"
  MaxTurns = 2
  MaxFailures = 1
  Mode = "colocate_async"
SYMMETRY SessionSymmetry
CHECK_DEADLOCK FALSE
INVARIANTS GroupsWhole NoOrphans DropBoundsStaleness
PROPERTY ImplementsGroupSampling
