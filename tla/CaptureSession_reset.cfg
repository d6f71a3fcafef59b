SPECIFICATION Spec
CONSTANTS
  MaxOps = 2
  MaxEvents = 1
  Races = FALSE
  MaxRefills = 2
  MaxLoads = 1
  Documented = TRUE
INVARIANTS
  InSync
CHECK_DEADLOCK FALSE
