SPECIFICATION Spec
CONSTANTS
  EventId = {e1, e2}
  e1 = e1
  e2 = e2
  NoEvent = NoEvent
  Delays = {0, 3}
  LongSeconds = {1, 2}
  LONG_SCAN_PERIOD = 4
  NOT_SCHEDULED = 99
  SliceLength = 3
  MaxBlock = 2
  RasterEvent = e1
  RasterDelay = 3
INVARIANTS TypeOK ListsConsistent QueueSorted HeadAnnounced AllTimesTrue
PROPERTIES KeepsPromise
