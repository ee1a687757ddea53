CONSTANTS
  c1 = c1
  c2 = c2
  NoConn = NoConn
  NoRequest = NoRequest
  NotGet = NotGet
  NoUri = NoUri
  Absent = Absent
  Requested <- MCRequested
  InitialFiles <- MCFiles
  Conn = {c1, c2}
  Slow = {}
  Impatient = {}
  Volatile = {}
  IntMax = 3
  MaxWrite = 3
SPECIFICATION FairSpec
INVARIANTS
  OneAtATime
PROPERTIES
  ImplementsService
  EveryClientServed
