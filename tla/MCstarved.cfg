SPECIFICATION LiveSpec
CONSTANTS
  TotalSamples = 4
  MaxQueueSize = 3
  MaxRequired = 3
  MaxConcurrent = 2
  PendingSize = 2
  MaxTaskFailures = 0
  RequiredSamples = 2
  SyncEvery = 1
CHECK_DEADLOCK FALSE
PROPERTY NeverStarved
