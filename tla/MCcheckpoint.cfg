SPECIFICATION FairSpec
CONSTANTS
  Roles <- MCRoles
  Ranks = {r0, r1}
  TotalSteps = 5
  SaveFreq = 2
  MaxToKeep = 2
  Warmup = 1
  MaxCrashes = 2
  NoFile = NoFile
  Torn = Torn
CHECK_DEADLOCK FALSE
INVARIANTS TrackedIntact ResumesExactly RetentionBounded
PROPERTY JobEnds
