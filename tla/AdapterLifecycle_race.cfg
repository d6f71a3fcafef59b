SPECIFICATION AdapterSpec
CONSTANTS
  MaxOps = 3
  MaxEvents = 2
  Races = TRUE
INVARIANTS
  ClosedIsQuiet
CHECK_DEADLOCK FALSE
