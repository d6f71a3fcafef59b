SPECIFICATION ConsumersFairSpec
CONSTANTS
  START_1G = 10
  END_1G = 13
  num_writers = 2
  max_blocks = 2
  DataBlocks = 1
  EndLimit = 1
  MaxGen = 1
  OpenMayFail = TRUE
  PromptDriver = FALSE
  EarlyRead = TRUE
  CdEndLimit = 1
  CdMaxGen = 2
  CdEarlyRead = TRUE
  BucketSizes <- Sizes1
PROPERTIES
  StopEndsConsumers
CHECK_DEADLOCK FALSE
