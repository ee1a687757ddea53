CONSTANTS
  w1 = w1
  w2 = w2
  Idle = Idle
  Worker = {w1, w2}
  Token = 2
  Refill = 1
  Second = 2
  EmptyChoice = FALSE
  Duration = 5
SPECIFICATION FairSpec
PROPERTIES
  JoinReturns
CHECK_DEADLOCK FALSE
