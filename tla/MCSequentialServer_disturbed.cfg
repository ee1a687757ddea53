CONSTANTS
  c1 = c1
  c2 = c2
  NoConn = NoConn
  NoRequest = NoRequest
  NotGet = NotGet
  NoUri = NoUri
  Absent = Absent
  Requested <- Disturbed
  InitialFiles <- MCFiles
  Conn = {c1, c2}
  Slow = {}
  Impatient = {c1}
  Volatile <- VolatileFiles
  IntMax = 3
  MaxWrite = 2
SPECIFICATION Spec
INVARIANTS
  StaysUp
CHECK_DEADLOCK FALSE
