SPECIFICATION FairSpec
CONSTANTS
  j1 = j1
  j2 = j2
  j3 = j3
  doc1 = doc1
  old1 = old1
  None = None
  Post = {doc1}
  Job = {j1, j2, j3}
  Old = {old1}
  MaxImages = 2
  Batch = 1
  Scenario <- MCScenario
INVARIANTS FilesSound FilesKept
PROPERTIES NeverBare OrphansCollected
CHECK_DEADLOCK FALSE
