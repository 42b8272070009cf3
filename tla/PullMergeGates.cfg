SPECIFICATION Spec
CONSTANTS
  Calls = {c1}
  Editors = {e1}
  Reviewers = {u1}
  Methods = {"squash"}
  RequiredApprovals = 1
  RequireGreen = TRUE
  DeleteOnMerge = TRUE
  Conflicts = FALSE
  Events = {"merge", "override", "arm", "ready", "draft", "push", "ci", "review", "armer", "pushBase"}
  MaxHead = 2
  MaxTip = 1
  MaxFaults = 0
  None = None
CHECK_DEADLOCK FALSE
PROPERTIES
  GatesHoldUnlessRaced
