SPECIFICATION Spec
CONSTANTS
  Columns <- ThreeColumns
  Types <- TwoTypes
  ColumnLists <- Lists1
  GivenNames <- OneName
  OldTables <- Starts
  MaxCalls = 3
  MaxInterruptions = 1
INVARIANTS TableConsistent RebuildKeeps MigrationReaches DataKept
CHECK_DEADLOCK FALSE
