SPECIFICATION LaneSpec
CONSTANTS
  Jobs = {j1, j2}
  LaneClosers = {k1, k2}
  LaneCapacity = 1
  Concurrency = 1
CHECK_DEADLOCK FALSE
INVARIANT ReportCovers
