SPECIFICATION LifeSpec
CONSTANTS
  SfPorts = {p1, p2}
  SfPolls = 1
  SfTries = 2
  SfFwMax = 0
  LwMaxFlaps = 2
  LwMaxOpens = 2
  MdPageSize = 4
  MdHighMemory = 10
  MdMaxPos = 12
  MdMaxCount = 10
  MdMaxCalls = 2
  MaxOps = 4
  MaxEvents = 3
  Races = FALSE
  MaxRefills = 2
  MaxLoads = 2
  Documented = TRUE
INVARIANTS
  MdSafe
  AdapterSafe
  SessionSafe
PROPERTIES
  
  LwCorrect
  CallsEnd
  SessionLive
CHECK_DEADLOCK FALSE
