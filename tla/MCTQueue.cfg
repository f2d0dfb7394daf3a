SPECIFICATION FairSpec
CONSTANTS
  Producer = {ui}
  TQUEUE_LENGTH = 3
  MaxDepth = 3
INVARIANTS MessagesTrue RunningIsTrue
PROPERTY NeverHangs
