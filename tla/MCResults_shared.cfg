SPECIFICATION Spec
CONSTANTS
  Drivers = {"sqlite3", "pg", "mysql2", "mssql"}
  Modes   <- MCModes
  Answers <- MCAnswers
  Readers = {"r1", "r2"}
  KindsOf <- MCKindsOf
INVARIANTS AsSent NoneLost
CHECK_DEADLOCK FALSE
