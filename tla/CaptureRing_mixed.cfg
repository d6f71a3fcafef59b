SPECIFICATION FairSpec
CONSTANTS
  NUM_RX_SLOTS = 4
  CLEAN_BATCH = 2
  U16 = 8
  NUM_ROWS = 3
  START_1G = 10
  END_1G = 11
  BYTES_PER_SLOT = 5
  RX_BUF_SIZE = 2
  MIN_PACKET = 1
  PacketLens <- MixedLens
  RingMayRunDry = FALSE
INVARIANTS
  RingInv
  RingSafe
PROPERTIES
  FoundWhereRecorded
  ImplementsFeed
  ThreadsProgress
