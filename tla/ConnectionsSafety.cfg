SPECIFICATION Safety
CONSTANTS
  Parts = {"socket", "bridge"}
  Connections = {c1, c2}
  Requests = {r1, r2}
  Kinds = {"call", "subscribe", "cancel"}
  MaxConnections = 1
  MaxCalls = 1
  MaxControls = 1
  Lines = {r1, r2}
  LineKinds = {"subscribe", "release"}
  MaxBridgeCalls = 1
  MaxBridgeControls = 1
  DrainLimited = TRUE
  MaxClients = 2
  MaxReplacements = 1
CHECK_DEADLOCK FALSE
SYMMETRY Symmetry
INVARIANTS SlotsSound CleanupIsLast SubscriptionsKept
