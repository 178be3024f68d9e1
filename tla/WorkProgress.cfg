SPECIFICATION Spec
CONSTANTS
  Parts = {"tasks", "lane", "boundary", "group", "loss"}
  Ids = {i1}
  Owners = {o1}
  NoOwner = NoOwner
  Workers = {w1, w2}
  None = None
  Closers = {c1}
  Total = 1
  PerOwner = 1
  Jobs = {j1, j2}
  LaneClosers = {k1}
  LaneCapacity = 1
  Concurrency = 1
  Requests = {r1, r2}
  Callers = {p1}
  query = query
  apply = apply
  Methods <- MCMethods
  Reads <- MCReads
  MaxMethod <- MCMaxMethod
  MaxOwner <- MCMaxOwner
  Calls = 2
  Controls = 1
  GroupWorkers = {g1, g2, g3}
  GroupClosers = {s1, s2}
  Names = {n1, n2}
  Waiters = {a1, a2}
  LossCapacity = 1
CHECK_DEADLOCK FALSE
INVARIANTS WorkersAreKnown WaitIsTruthful
PROPERTIES TasksEnd LaneEnds RequestsSettle GroupEnds WaitEnds
