SPECIFICATION Spec
CONSTANTS
  UsedPlatforms = {"mysql", "mariadb", "pg", "sqlite", "sqlserver"}
  Columns <- MCColumns
  Convertible <- MCConvertible
  MaxMigrations = 2
  MaxInterruptions = 1
INVARIANTS ReadBack Settles NoOtherRefusal RowsKept ProvidersAgree
CHECK_DEADLOCK FALSE
