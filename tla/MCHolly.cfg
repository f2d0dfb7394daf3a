SPECIFICATION BenchSpec
CONSTANTS
  Event <- Events
  CASCADE1 = 30
  CASCADE2 = 31
  WordOf <- Words
  EVENT_IDE = 32
  Line = {IRQ13, IRQ11}
  MaskValues <- Masks
  Channel <- Channels
  KindOf <- Kinds
  DoneEvent <- Done
  PacketWords = 2
  Lengths = {0, 1, 2}
  SectorWords = 2
  Blocks = {1, 2}
  CounterSize = 8
  Requests = {0, 1, 3, 5}
  Port = {0, 1}
  Slot = {1, 2}
  File = {"a", "b"}
  Dev = {"d", "e"}
  MaxCopies <- Copies
  MaxWrites = 1
  BUFFER_SIZE = 3
  MARGIN = 1
  MAX_SIZE = 6
  MaxPiece = 4
  CHUNK = 6
  Grain = 2
  Sizes = {1, 2}
  QUAD = 1
  BIG = 16
  Format = {"yuv420", "yuv422"}
  YUV420 = "yuv420"
  BlockSize <- BlockSizes
  Shape <- Shapes
  Counts = {0, 5}
  Asked = {12}
  Direct = {2}
  MaxSent = 14
INVARIANTS PollsTrue LinesExact DriveTrue
INVARIANTS BusTrue CardsKept GdbTrue HostTrue PictureTrue
PROPERTY Answered
