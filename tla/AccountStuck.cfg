SPECIFICATION FairSpec
CONSTANTS
  a = a
  b = b
  t1 = t1
  t2 = t2
  None = None
  User = {a, b}
  Transfer = {t1}
  Kinds <- MCFiles
  MaxGen = 1
  MaxOps = 2
  MaxTouches = 0
  MaxFiles = 1

PROPERTIES EveryCleanupEnds
CHECK_DEADLOCK FALSE
