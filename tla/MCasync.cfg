SPECIFICATION LiveSpec
CONSTANTS
  TotalSamples = 6
  MaxQueueSize = 2
  MaxRequired = 2
  MaxConcurrent = 1
  PendingSize = 1
  MaxTaskFailures = 1
  RequiredSamples = 1
  SyncEvery = 1
CHECK_DEADLOCK FALSE
INVARIANTS  AllTrained LeftOverBounded
PROPERTY TrainingEnds
