SPECIFICATION TrafficSpec
CONSTANTS
  TxCount = 11
  TxFrags = 1
  TxBudget = 2
  TxPkts = 3
  TxStalls = 1
  RxCount = 5
  RxWrite = 2
  RxBudget = 2
  RxFrames = 4
  RxParts = 2
  RxFails = 1
  LroFlows = {1, 2}
  LroLens = {1, 2}
  LroFree = 3
  LroMax = 1
  LroPkts = 3
  IqCount = 2
  IqMaxOther = 2
  IqMaxOpens = 2
  ItUsecs = {0, 1, 6, 10, 125}
  ItRates = {0, 15, 30}
  ItMaxOps = 2
  ItMaxPolls = 4
  PtBits = 4
  PtShift10 = 1
  PtShift1 = 0
  PtOverflow = 2
  PtTxTimeout = 1
  PtRxHang = 0
  PtPackets = 1
  PtMaxOps = 2
  FdRings = 2
  FdFlows = {0, 1, 2}
  FdLocs = {1, 2}
  FdMasks = {"full", "parity", "bad"}
  FdRate = 2
  FdCounts = 3
  FdFull = 2
  FdInOrder = TRUE
  FdMaxOps = 4
  FhDwords = 11
  FhBits = {0, 1, 2, 3, 4, 5, 6, 7, 8, 9, 10, 11, 12, 13, 14, 15, 16, 17, 18, 19, 20, 21, 22, 23, 24, 25, 26, 27, 28, 29, 30, 31}
  FhPorts = {0, 1, 7, 12, 15}
  FoXids = {0, 1}
  FoSgls <- FoMCSgls
  FoBuf = 4
  FoCountMax = 3
  FoExtra = 100
  FoMaxOps = 4
  num_writers = 2
  num_rx_slots = 2
  BYTES_PER_SLOT = 6
  SlotStride = 6
  MaxArg = 6
  Recordings <- SmallRecordings
INVARIANTS
  TxSafe
  RxSafe
  LroSafe
  VectorsSafe
  
  SteeringSafe
  FoSafe
  ReadsBack
CHECK_DEADLOCK FALSE
