SPECIFICATION Spec
CONSTANTS
  Producer = {ui}
  TQUEUE_LENGTH = 3
  MaxDepth = 3
INVARIANT StopCompletes
