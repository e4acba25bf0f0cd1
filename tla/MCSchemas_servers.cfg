SPECIFICATION Spec
CONSTANTS
  Platforms = {"postgresql", "sqlserver", "mysql", "sqlite"}
  TableNames      <- MCTableNames
  SequenceNames   <- MCSequenceNames
  NoNs = "none"
  Own  = "public"
  Foreign         <- MCForeign
  AutoIncrementOf <- MCAutoIncrementOf
  MaxEdits = 3
  MaxCalls = 3
INVARIANTS CreatesSchema DropsWhatItCreated
PROPERTY OthersKept
CHECK_DEADLOCK FALSE
