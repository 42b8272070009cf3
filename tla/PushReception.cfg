SPECIFICATION MCSpec
CONSTANTS
  server = server
  push1 = push1
  push2 = push2
  c0 = c0
  c1 = c1
  c2 = c2
  c3 = c3
  c4 = c4
  Requests = {server, push1, push2}
  Clients = {}
  Serves <- MCServes
  MaxFaults = 1
  None = None
  Commits <- MCCommits
  Root = c0
  Upstream = c3
  Parent <- MCParent
  Version <- MCVersion
SYMMETRY Symmetry
VIEW MCView
CONSTRAINT MCScene
CHECK_DEADLOCK FALSE
INVARIANTS
  RefsTypeOK
  TipIsReported
  TickVouchesUnlessBlind
  SuggestionIsOfItsParent
PROPERTY ServerNeverDiscards
