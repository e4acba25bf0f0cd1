SPECIFICATION Spec
CONSTANTS
  UsedPlatforms = {"mysql", "mariadb", "pg", "sqlite", "sqlserver"}
  one = one
  two = two
  Tables <- MCTables
  Admissible <- MCAdmissible
  Instances <- MCInstances
  MaxStops = 1
INVARIANTS ReadBack Migrated NoOtherRefusal Protected
CHECK_DEADLOCK FALSE
