CONSTANTS
  s1 = s1
  s2 = s2
  m1 = m1
  l1 = l1
  l2 = l2
  w1 = w1
  w2 = w2
  w3 = w3
  Main = Main
  NoThread = NoThread
  NoRequest = NoRequest
  Worker = {w1, w2}
  Request = {s1, s2, m1, l1, l2}
  FileSize <- MCFileSize
  Capacity = 3
  Policy = "sff"
SPECIFICATION FairSpec
INVARIANTS
  IInv
  NoLostWakeup
PROPERTIES
  ImplementsQueue
  NoOvertaking
  PutReturns
  SmallestRequestTaken
