SPECIFICATION Spec
CONSTANTS
  Calls = {c1, c2}
  Editors = {e1}
  Reviewers = {}
  Methods = {"squash", "rebase"}
  RequiredApprovals = 0
  RequireGreen = FALSE
  DeleteOnMerge = FALSE
  Conflicts = TRUE
  Events = {"merge", "resolve", "arm", "close", "reopen", "push"}
  MaxHead = 2
  MaxTip = 2
  MaxFaults = 1
  None = None
SYMMETRY Symmetry
VIEW LandingView
CHECK_DEADLOCK FALSE
INVARIANTS
  TypeOK
  MergedRowIsBacked
  NoWorkLandsTwice
  LandingIsRecorded
  OneEvaluation
