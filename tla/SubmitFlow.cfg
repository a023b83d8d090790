SPECIFICATION FairFlow
CONSTANTS
  s1 = s1
  s2 = s2
  essay = essay
  student = student
  pdf = pdf
  size = size
  None = None
  Target = {essay}
  User = {student}
  Intent = {1, 2}
  Request = {1, 2}
  Key = {1, 2}
  File = {pdf}
  Size = {size}
  SizeOf <- MCSizeOf
  Due = 2
  Lifetime = 1
  Grace = 0
  MaxTime = 1
  Screen = {s1}
  MaxLate = 1
  Scenario <- MCOneScreen
  Unreadable = FALSE
INVARIANTS RecordSound AcceptedIsKnown
PROPERTIES EveryCommandEnds
CHECK_DEADLOCK FALSE
