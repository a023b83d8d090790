SPECIFICATION Spec
CONSTANTS
  User = {u1}
  Session = {s1}
  Handler = {h1, h2}
  Gone = Gone
  NoUser = NoUser
  NoSession = NoSession
  AccessLife = 2
  RefreshLife = 3
  AbsoluteLife = 4
  Leeway = 0
  TouchEvery = 1
  MaxTime = 4
  MaxVersion = 1
  MaxGen = 3
CHECK_DEADLOCK FALSE
SYMMETRY Symmetry
INVARIANTS RowsSound LogoutHolds
PROPERTIES CheckpointCurrent ImplementsFamilies
