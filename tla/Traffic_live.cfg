SPECIFICATION LiveSpec
CONSTANTS
  TxCount = 11
  TxFrags = 1
  TxBudget = 2
  TxPkts = 2
  TxStalls = 1
  RxCount = 5
  RxWrite = 2
  RxBudget = 2
  RxFrames = 3
  RxParts = 2
  RxFails = 2
  IqCount = 2
  IqMaxOther = 2
  IqMaxOpens = 1
  PtBits = 4
  PtShift10 = 1
  PtShift1 = 0
  PtOverflow = 2
  PtTxTimeout = 1
  PtRxHang = 0
  PtPackets = 1
  PtMaxOps = 1
  VmRequests = 1
  VmTimeouts = 1
  VmPings = 0
  VmDowns = 1
  FdRings = 2
  FdFlows = {0, 1, 2}
  FdLocs = {1, 2}
  FdMasks = {"full", "parity", "bad"}
  FdRate = 2
  FdCounts = 3
  FdFull = 2
  FdInOrder = TRUE
  FdMaxOps = 3
PROPERTIES
  QueuesServed
  
CHECK_DEADLOCK FALSE
