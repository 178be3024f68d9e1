SPECIFICATION FileSpec
CONSTANTS
  Writers = {w1}
  Depth = 2
  Chunks = 2
  MaxFiles = 3
  MaxNames = 3
  Crashes = 1
  Reads = 0
  Strangers = 0
CHECK_DEADLOCK FALSE
INVARIANT CommitIsBarrier
