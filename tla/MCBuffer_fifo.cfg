CONSTANTS
  s1 = s1
  s2 = s2
  m1 = m1
  l1 = l1
  l2 = l2
  w1 = w1
  w2 = w2
  w3 = w3
  Main = Main
  NoThread = NoThread
  NoRequest = NoRequest
  Worker = {w1, w2, w3}
  Request = {s1, m1, l1}
  FileSize <- MCFileSize
  Capacity = 2
  Policy = "fifo"
SPECIFICATION FairSpec
INVARIANTS
  NoLostWakeup
  HeldOnce
PROPERTIES
  ImplementsQueue
  PutReturns
  EveryRequestTaken
