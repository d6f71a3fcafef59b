SPECIFICATION ConsumersSpec
CONSTANTS
  START_1G = 10
  END_1G = 13
  num_writers = 2
  max_blocks = 4
  DataBlocks = 1
  EndLimit = 1
  MaxGen = 5
  OpenMayFail = FALSE
  PromptDriver = TRUE
  EarlyRead = TRUE
  CdEndLimit = 1
  CdMaxGen = 1
  CdEarlyRead = FALSE
  BucketSizes <- Sizes
INVARIANTS
  FileHoldsItsPackets
CHECK_DEADLOCK FALSE
