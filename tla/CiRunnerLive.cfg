SPECIFICATION FairSpec
CONSTANTS
  Runs = {1, 2}
  Jobs = {j1}
  Commits = {c1}
  Requests = {q1}
  RetentionCap = 1
  MaxCrashes = 1
  MaxDbErrors = 0
  None = None
CHECK_DEADLOCK FALSE
PROPERTIES
  RunsComplete
  ChecksComplete
