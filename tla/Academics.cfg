SPECIFICATION Spec
CONSTANTS
  Proc = {p1, p2}
  s1 = s1
  s2 = s2
  u1 = u1
  u2 = u2
  boss = boss
  c1 = c1
  c2 = c2
  e1 = e1
  t1 = t1
  t2 = t2
  t3 = t3
  enrol = enrol
  join = join
  linkA = linkA
  linkB = linkB
  new = new
  editA = editA
  editB = editB
  open = open
  shut = shut
  None = None
  Student = {s1, s2}
  User = {u1, u2, boss}
  Cohort = {c1, c2}
  Event = {e1}
  Text = {t1, t2, t3}
  Actor <- MCActor
  Req <- MCReq
  Form <- MCForm
  Scenario <- MCScenario
  IdOf <- MCIdOf
INVARIANTS RowsSound CircleNeedsRegistration
PROPERTIES TargetsComplete AsReviewed RetryAnswered
CHECK_DEADLOCK FALSE
