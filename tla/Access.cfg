SPECIFICATION MCSpec
CONSTANTS
  Requests = {q1, q2, q3}
  Clients = {k1, k2}
  MaxFaults = 1
  None = None
  repo2 = repo2
  repo1 = repo1
  k2 = k2
  k1 = k1
  main = main
  v1 = v1
  Branches <- MCBranches
  Tags <- MCTags
  DefaultBranch = main
  Settings <- MCSettings
  Pushed <- MCPushed
  Repos = {repo1, repo2}
  Names = {"a", "b"}
  Suffixed <- MCSuffixed
  Users = {u1, u2}
  Granted = {"READER"}
  Creator = u1
SYMMETRY Symmetry
CONSTRAINT Explored
CHECK_DEADLOCK FALSE
INVARIANTS
  AccessTypeOK
  RowsHaveTheirStorage
  OldNamesLeadOn
  MembershipHolds
  WatchersCanRead
PROPERTY StandingRuleHolds
