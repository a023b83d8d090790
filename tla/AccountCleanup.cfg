SPECIFICATION FairSpec
CONSTANTS
  a = a
  b = b
  t1 = t1
  t2 = t2
  None = None
  User = {a, b}
  Transfer = {t1, t2}
  Kinds <- MCKinds
  MaxGen = 1
  MaxOps = 2
  MaxTouches = 1
  MaxFiles = 1
INVARIANTS DeviceSound SettledIsClean
PROPERTIES NewAfterCleanup EveryWaitEnds
CHECK_DEADLOCK FALSE
