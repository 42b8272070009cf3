SPECIFICATION MCSpec
CONSTANTS
  Requests = {q1, q2, q3}
  Clients = {}
  MaxFaults = 1
  None = None
  r2 = r2
  r1 = r1
  i2 = i2
  i1 = i1
  e2 = e2
  e1 = e1
  Reviewers = {rev}
  Reviews = {r1, r2}
  Comments = {c1, c2}
  Hooks = {h1}
  MAX_ATTEMPTS = 3
  Cap = 8
  Marker = 3
  Chunks = {0, 1, 3, 7}
  MaxOffered = 20
  todo = todo
  doing = doing
  done = done
  Columns <- MCColumns
  DEFAULT_COLUMNS <- MCDefault
  Subjects = {i1, i2}
  Edits = {e1, e2}
  bug = bug
  Labels = {bug}
  CommandLists <- MCCommandLists
  MaxSpent = 6
  Issues = {5, 7}
  PageLabels = {bug}
  MaxEdits = 1
  Pulls = {4, 7}
  MaxHead = 1
  MaxMoves = 1
SYMMETRY Symmetry
CONSTRAINT Explored
CHECK_DEADLOCK FALSE
INVARIANTS
  ServicesTypeOK
  CommentsHoldTogether
  PendingMeansUnanswered
  ExplainedByLog
  LogIsMarkedPrefix
  PausedWillResume
  PositionsAreDense
  PagesShowWhatIsSo
  VersionsAreWhole
  IssueIsItsHistory
