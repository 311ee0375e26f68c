SPECIFICATION LiveSpec
CONSTANTS
  Sessions = {s1}
  BatchSize = 1
  TotalSteps = 3
  Warmup = 1
  BatchMultiple = 3
  Threshold = 2
  Strategy = "wait"
  MaxTurns = 2
  MaxFailures = 1
  Mode = "colocate_async"
CHECK_DEADLOCK FALSE
INVARIANTS WaitBoundsSpan WaitBoundsStaleness
PROPERTIES TrainingEnds EveryPromptReported
