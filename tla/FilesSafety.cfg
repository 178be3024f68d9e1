SPECIFICATION Safety
CONSTANTS
  Parts = {"files", "reads", "path", "plan", "backoff", "results", "frames", "walks", "edits", "lock"}
  Writers = {w1, w2}
  Depth = 1
  Chunks = 1
  MaxFiles = 3
  MaxNames = 3
  Crashes = 1
  Reads = 1
  Strangers = 2
  Daemons = {x1, x2, x3}
  MaxInodes = 5
  MaxForeign = 2
  N = 4
  MaxRoots = 2
  Budgets = {2, 3}
  First = 1
  Most = 3
  Healthy = 4
  MaxBackoffTime = 16
  Ids = {w1, w2, x1}
  Owners = {"o", "p"}
  Limits = {0, 2}
  Retentions <- MCRetentions
  MaxTime = 3
  MaxRecords = 4
  MaxLength = 5
  Maximum = 2
  Inputs <- MCInputs
  Repos = {"r", "a", "b"}
  Root = "r"
  Worlds <- MCWorlds
  MaxEdits = 2
  Nodes = {"r", "a", "b", "gone"}
  LockRoot = "r"
  Locks <- MCLocks
  InputNames = {1, 2}
  LocalNames = {1, 2}
CHECK_DEADLOCK FALSE
SYMMETRY Symmetry
INVARIANTS WritesOutlivePower PathSound PlanIsExact PenaltyIsKept ResultsAreExact FramesAreExact GraphIsExact PruningIsExact
PROPERTIES LiveIsKept
