SPECIFICATION FairSpec
CONSTANTS
  Drivers  = {"sqlite3", "pg", "mysql2", "mssql"}
  Tasks    = {"t1", "t2"}
  Steady   = "t1"
  Prepared = {"s"}
  Values   = {"a", "b"}
  Adapters = {1, 2, 3, 4, 5}
  Kinds    <- MCKinds
INVARIANTS Classified ValuesOfCall InsideTransaction
PROPERTIES LiveTransactionKept Recovers
CHECK_DEADLOCK FALSE
