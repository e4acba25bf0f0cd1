SPECIFICATION Spec
CONSTANTS
  Writes <- TwoWrites
  Adapter = "pg"
  Pooled = TRUE
  Faults = {"fail", "lost"}
  EndFailure = {"ended"}
  AutoCommit <- Changing
  MaxLevel = 2
  MaxFrames = 3
INVARIANTS TypeOK CleanOutside DoomedNeverDurable ReadyToBegin
CHECK_DEADLOCK FALSE
