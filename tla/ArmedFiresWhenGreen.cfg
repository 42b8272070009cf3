SPECIFICATION FairSpec
CONSTANTS
  Calls = {c1}
  Editors = {e1}
  Reviewers = {u1}
  Methods = {"squash"}
  RequiredApprovals = 0
  RequireGreen = FALSE
  DeleteOnMerge = FALSE
  Conflicts = FALSE
  Events = {"arm", "push", "review"}
  MaxHead = 2
  MaxTip = 1
  MaxFaults = 0
  None = None
CHECK_DEADLOCK FALSE
PROPERTY
  ArmedFiresWhenGreen
