SPECIFICATION Spec
CONSTANTS
  Login = {l1, l2}
  Call = {c1}
  None = None
  MaxToken = 1
  Lives <- MCLives
INVARIANTS DeviceSound SignOutReachesDisk OwnTokens NobodyForgotten
PROPERTY DeliveredToOwner
SYMMETRY Symmetry
CHECK_DEADLOCK FALSE
