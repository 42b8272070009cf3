SPECIFICATION Spec
CONSTANTS
  Runs = {1, 2, 3}
  Jobs = {j1}
  Commits = {c1}
  Requests = {q1}
  RetentionCap = 1
  MaxCrashes = 0
  MaxDbErrors = 0
  None = None
CHECK_DEADLOCK FALSE
INVARIANTS
  RetentionKeepsNewest
PROPERTIES
  ImplementsSerialQueue
