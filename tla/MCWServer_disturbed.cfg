CONSTANTS
  c1 = c1
  c2 = c2
  c3 = c3
  w1 = w1
  w2 = w2
  NoConn = NoConn
  NoRequest = NoRequest
  NotGet = NotGet
  NoUri = NoUri
  Absent = Absent
  InitialFiles <- MCFiles
  Conn = {c1, c2}
  Slow = {}
  Impatient = {c1}
  Requested <- Disturbed
  Volatile <- VolatileFiles
  IntMax = 3
  MaxWrite = 2
  Worker = {w1, w2}
  Capacity = 1
  Policy = "sff"
SPECIFICATION Spec
INVARIANTS
  OneHolder
  ShortOnlyIfTouched
  StaysUp
CHECK_DEADLOCK FALSE
