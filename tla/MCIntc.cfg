SPECIFICATION FairQuietSpec
CONSTANTS
  Source <- AllSources
  NoSource = NoSource
  Default <- AllDefault
  Registers <- IPRA
  Levels = {0, 4, 6}
  IMasks = {0, 4, 15}
  Capacity = 5
  Counts = {0, 3}
  Constants = {2, 3}
  Periods = {2, 3}
  ResetPeriod = 2
  SliceLength = 5
  MaxBlock = 3
  Width = 1024
  FIFO_LENGTH = 4
  SendTrigger = 2
  ReceiveTrigger = 1
  MaxHost = 2
  G2_BIT5_TICKS = 3
  G2_BIT4_TICKS = 8
  G2_BIT0_ON_TICKS = 6
  G2_BIT0_OFF_TICKS = 21
  FifoSlice = 10
  FifoBlock = 4
  MaxTimer = 25
  NUM_BUFFERS = 3
  Blocks = 4
INVARIANTS Ordered FlagExact TimerTrue FlagsTrue FifoTrue QueuedIsKept
PROPERTIES KeepsRequests
