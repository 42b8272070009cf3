SPECIFICATION Spec
CONSTANTS
  Runs = {1, 2}
  Jobs = {j1}
  Commits = {c1}
  Requests = {}
  RetentionCap = 2
  MaxCrashes = 0
  MaxDbErrors = 0
  None = None
CHECK_DEADLOCK FALSE
INVARIANT
  RerunClearsRed
