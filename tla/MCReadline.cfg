CONSTANTS
  a = a
  CR = CR
  LF = LF
  NUL = NUL
  Letter = {a}
  MaxBuf = 4
  MaxSent = 6
  StaleBufs <- MCStaleBufs
SPECIFICATION FairSpec
INVARIANTS
  TypeOK
  ReturnsLine
  StopsAtBlankLine
  PrintsWholeAnswer
PROPERTIES
  BlankLineSuffices
  ClientEnds
CHECK_DEADLOCK FALSE
