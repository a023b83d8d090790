SPECIFICATION FairSpec
CONSTANTS
  User = {u1, u2, u3}
  Request = {r1, r2}
  Admin = admin
  Group = {admin, c1, c2}
  Gone = Gone
  None = None
CHECK_DEADLOCK FALSE
INVARIANTS RowsSound AdminRemains
PROPERTIES ImplementsRoster EveryRequestAnswered
