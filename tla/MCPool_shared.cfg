SPECIFICATION Spec
CONSTANTS
  Drivers    = {"pg", "mysql2", "mssql"}
  Tasks      <- MCTasks
  Owners     <- MCOwners
  AdapterOf  <- MCAdapterOf
  Pools      <- MCPools
  Faults     <- MCFaults
  MaxCalls   = 3
  Abandoning = FALSE
INVARIANTS Isolated NoneLost
PROPERTY Answered
CHECK_DEADLOCK FALSE
