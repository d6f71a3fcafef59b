SPECIFICATION PortSpec
CONSTANTS
  SfPorts = {p1, p2}
  SfPolls = 2
  SfTries = 2
  SfFwMax = 1
  EeSize = 12
  EeByte = 4
  EeChecksumAt = 3
  EePtrs <- EeMCPtrs
  EeSkipped = {2}
  EeSum = 10
  EePageMax = 4
  EeChunk = 8
  EeRealPages = {2, 4}
  EeImages <- EeMCImages
  EeOffsets = {0, 3, 8}
  EeLens = {2, 13}
  EeBad = {1, 6, 12}
  EeMaxOps = 2
  I2cBits = 3
  I2cTries = 2
  I2cOffsets = {1, 6}
  I2cData = {2, 5}
  I2cMaxBusy = 2
  I2cMaxOps = 2
  SmModules <- SmMCModules
  SmIds = {"da_cu", "srlr"}
  SmMaxOps = 4
  SmMaxFails = 1
  LkBoards <- LkMCBoards
  LkPeers <- LkMCPeers
  LkMaxOps = 5
  FcBoards <- FcMCBoards
  FcMtus = {1500, 9710}
  FcTcs = {0, 8}
  FcHeadrooms = {64, 256}
  FcMaxOps = 3
  PlPorts = {"a", "b"}
  PlVfPorts = {"a"}
  PlWolPorts = {"a"}
  PlMaxOps = 6
  MpMacs = {"82598", "82599"}
  MpCpus = 20
  MpOldVfs = {0, 2}
  MfSlots = 3
  MfVfs = 2
  MfMacvlans = 1
  MfAddrs = {1, 2, 3}
  MfGroups = {0, 1, 2}
  MfMaxOps = 4
  VlSlots = 3
  VlVfs = 2
  VlIds = {1, 2, 3}
  VlMaxOps = 6
  QlPorts <- QlMCPorts
  QlTcs = {0, 1, 3, 4, 8}
  QlChannels = {1, 3, 20}
  QlGrants = {1, 7, 64}
  QlMaxOps = 4
  DnMacs = {"82598", "82599"}
  DnUps = 2
  DnMaxTcs = 2
  DnShares = {2}
  DnMaxOps = 4
  DcMacs = {"82598", "82599"}
  DcClasses = 2
  DcGroups = 2
  DcPcts = {0, 1, 33, 100}
  DcBws = {1, 100}
  DcMtus = {1500, 9710}
  VmRequests = 1
  VmTimeouts = 1
  VmPings = 1
  VmDowns = 0
INVARIANTS
  SfSafe
  EeSafe
  I2cSafe
  
  LkSafe
  
  
  
  
  
  
  VmExclusive
PROPERTIES
  LkCapsStable
CHECK_DEADLOCK FALSE
