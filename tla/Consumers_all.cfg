SPECIFICATION ConsumersSpec
CONSTANTS
  START_1G = 10
  END_1G = 13
  num_writers = 2
  max_blocks = 4
  DataBlocks = 1
  EndLimit = 1
  MaxGen = 5
  OpenMayFail = FALSE
  PromptDriver = TRUE
  EarlyRead = FALSE
  CdEndLimit = 1
  CdMaxGen = 5
  CdEarlyRead = FALSE
  BucketSizes <- Sizes
INVARIANTS
  CountIsRight
  LossIsKnown
  FileHoldsItsPackets
PROPERTIES
  StallIsReal
CHECK_DEADLOCK FALSE
