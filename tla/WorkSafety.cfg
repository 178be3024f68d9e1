SPECIFICATION Safety
CONSTANTS
  Parts = {"tasks", "lane", "boundary"}
  Ids = {i1, i2}
  Owners = {o1}
  NoOwner = NoOwner
  Workers = {x1, x2, x3}
  None = None
  Closers = {c1, c2}
  Total = 2
  PerOwner = 1
  Jobs = {x1, x2, x3}
  LaneClosers = {k1}
  LaneCapacity = 2
  Concurrency = 2
  Requests = {x1, x2, x3}
  Callers = {p1, p2}
  query = query
  apply = apply
  Methods <- MCMethods
  Reads <- MCReads
  MaxMethod <- MCMaxMethod
  MaxOwner <- MCMaxOwner
  Calls = 2
  Controls = 1
  GroupWorkers = {}
  GroupClosers = {}
  Names = {n1}
  Waiters = {}
  LossCapacity = 1
CHECK_DEADLOCK FALSE
SYMMETRY Symmetry
INVARIANTS TasksSound ShutdownJoins PermitsSound ReportCovers WorkAccounted
