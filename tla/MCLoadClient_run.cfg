CONSTANTS
  w1 = w1
  w2 = w2
  Idle = Idle
  Worker = {w1, w2}
  Token = 2
  Refill = 1
  Second = 2
  EmptyChoice = TRUE
  Duration = 12
SPECIFICATION FairSpec
INVARIANTS
  TypeOK
  TasksCounted
  ReportIsComplete
  RateKept
PROPERTIES
  DispatcherStops
CHECK_DEADLOCK FALSE
