SPECIFICATION JobsFairSpec
CONSTANTS
  j1 = j1
  j2 = j2
  ann = ann
  bob = bob
  Job = {j1, j2}
  User = {ann, bob}
  UserOf <- OneUser
  MaxAttempts = 2
  RetryThreshold = 2
  MaxStalls = 1
  Environments <- SomeFaults
CHECK_DEADLOCK FALSE
INVARIANTS ResentOnlyIfUnlearnt LogTellsOutcome
PROPERTY EveryJobEnds
