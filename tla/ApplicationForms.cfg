SPECIFICATION FairAppSpec
CONSTANTS
  Call = {p1, p2}
  Admin = {a1, a2}
  ip = ip
  email = email
  applicant = applicant
  None = None
  Meaning = {x, y}
  Email = {applicant}
  AxesOf <- MCAxesOf
  Axis <- MCAxis
  Rank <- MCRank
  Limit <- MCLimit
  Window <- MCWindow
  Asked <- MCAsked
  Forgivable <- MCForgivable
  Scenario <- MCScenario
  MaxQuestions = 2
  Retention = 4
  Sec = 2
  MaxNow = 5
  MaxCalls = 2
INVARIANTS WindowsSound FormSound
PROPERTIES RetryHonest AsShown EveryRequestAnswered
CHECK_DEADLOCK FALSE
