SPECIFICATION FairSpec
CONSTANTS
  Writes <- TwoWrites
  Adapter = "mssql"
  Pooled = TRUE
  Faults = {}
  EndFailure = {}
  AutoCommit <- Changing
  MaxLevel = 3
  MaxFrames = 4
INVARIANTS LevelsAgree
PROPERTIES KeepsPromise CommitAllEnds
CHECK_DEADLOCK FALSE
