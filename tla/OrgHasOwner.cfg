SPECIFICATION MCSpec
CONSTANTS
  Requests = {}
  Clients = {k1, k2}
  MaxFaults = 0
  None = None
  k1 = k1
  k2 = k2
  repo1 = repo1
  repo2 = repo2
  main = main
  v1 = v1
  Branches <- MCBranches
  Tags <- MCTags
  DefaultBranch = main
  Settings <- MCSettings
  Pushed <- MCPushed
  Repos = {}
  Names = {"a", "b"}
  Suffixed <- MCSuffixed
  Users = {u1}
  Granted = {"READER"}
  Creator = u1
CHECK_DEADLOCK FALSE
INVARIANT OrgHasOwner
