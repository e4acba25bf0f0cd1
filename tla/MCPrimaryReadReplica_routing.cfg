SPECIFICATION Spec
CONSTANTS
  Tasks <- TwoTasks
  Calls <- MCCalls
  AutoCommits <- Either
  KeepReplicas <- Either
  Faults = {"connect", "lost"}
  MaxConnections = 3
  MaxLevel = 2
INVARIANTS Routed Pinned
CHECK_DEADLOCK FALSE
