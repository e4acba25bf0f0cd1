SPECIFICATION Spec
CONSTANTS
  Programs <- MCPrograms
  Texts    <- MCTexts
  Aliases  <- MCAliases
  Fields   <- MCFields
  Locking  = TRUE
  MaxCalls = 4
INVARIANTS SQLOfItsParts PredicatesMean NamedBound
CHECK_DEADLOCK FALSE
