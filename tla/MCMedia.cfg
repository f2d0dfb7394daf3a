SPECIFICATION BenchSpec
CONSTANTS
  Modes = {"user", "svc", "fiq"}
  Values = {0, 1}
  Statuses <- Masking
  MAX_RENDER_BUFFERS = 2
  PVR2_RAM_BASE = 10
  Unit <- ThreeUnits
  Frames <- ThreeFrames
  Totals = {6, 9}
  LineTime = 3
  RetraceEnd = 2
  Positions = {0, 1, 3}
  SliceLength = 5
  MaxBlock = 3
  WrapTime = 1024
  Lengths = {3, 4, 6}
  MaxStrip = 8
  MAX_TEXTURES = 3
  Pages = {0, 1}
  Images <- FourImages
  Formats = {"rgb565", "argb8888"}
  Strides = {0, 32}
  RATE = 3
  SECOND = 7
  Slices = {2, 5, 7}
  TIMER_SIZE = 3
  MaxBehind = 3
  Ends = {0, 1, 3}
  MaxSteps = 2
  MaxPosn = 5
INVARIANTS BuffersTrue RasterTrue StripIsDrawn
INVARIANTS  CacheTrue
INVARIANT SoundTrue
PROPERTY KeepsRegisters
