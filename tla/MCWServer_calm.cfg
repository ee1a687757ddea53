CONSTANTS
  c1 = c1
  c2 = c2
  c3 = c3
  w1 = w1
  w2 = w2
  NoConn = NoConn
  NoRequest = NoRequest
  NotGet = NotGet
  NoUri = NoUri
  Absent = Absent
  InitialFiles <- MCFiles
  Conn = {c1, c2, c3}
  Slow = {}
  Impatient = {}
  Requested <- Calm
  Volatile = {}
  IntMax = 3
  MaxWrite = 3
  Worker = {w1, w2}
  Capacity = 1
  Policy = "fifo"
SPECIFICATION FairSpec
INVARIANTS
  TypeOK
  ChildForEachWait
  StaysUp
PROPERTIES
  ImplementsService
  EveryClientAnswered
