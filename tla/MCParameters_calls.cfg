SPECIFICATION Spec
CONSTANTS
  Drivers   = {"sqlite3", "pg", "mysql2", "mssql"}
  MaxLength = 5
INVARIANTS BoundAsMeant Accepted
CHECK_DEADLOCK FALSE
