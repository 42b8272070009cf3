SPECIFICATION Spec
CONSTANTS
  Runs = {1, 2}
  Jobs = {j1, j2}
  Commits = {c1}
  Requests = {q1, q2}
  RetentionCap = 1
  MaxCrashes = 1
  MaxDbErrors = 1
  None = None
SYMMETRY Symmetry
CHECK_DEADLOCK FALSE
INVARIANTS
  TypeOK
  NoStrandedRun
  GreenMeansEveryJobPassed
  CancelHonoured
  ClosedRunHasNoPendingJob
PROPERTIES
  VerdictIsFinal
