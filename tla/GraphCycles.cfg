SPECIFICATION GraphSpec
CONSTANTS
  Repos = {"r", "a", "b"}
  Root = "r"
  Worlds <- MCWorlds
  MaxEdits = 0
CHECK_DEADLOCK FALSE
INVARIANT PreflightSeesCycles
