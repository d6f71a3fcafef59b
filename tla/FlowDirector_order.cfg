SPECIFICATION FdSpec
CONSTANTS
  FdRings = 2
  FdFlows = {0, 1, 2}
  FdLocs = {1, 2}
  FdMasks = {"full"}
  FdRate = 2
  FdCounts = 3
  FdFull = 2
  FdInOrder = FALSE
  FdMaxOps = 4
INVARIANTS
  FdOneRule
CHECK_DEADLOCK FALSE
