SPECIFICATION FairSpec
CONSTANTS
  Servers = {s, h}
  Elastic = {h}
  Requests = {1, 2, 3, 4, 5, 6, 7}
  CacheSize = 1
  NoServer = NoServer
  TotalSteps = 3
  MiniBatch = 1
  SyncSteps = 1
  Warmup = 1
  TestFreq = 2
  MaxTurns = 2
CHECK_DEADLOCK FALSE
INVARIANTS NeverOvercounts AsleepIdle ValidatesCurrentWeights
PROPERTIES NoTurnSpansUpdate ImplementsBalancer EndsUnlessStranded
