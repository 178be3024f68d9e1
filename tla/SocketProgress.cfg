SPECIFICATION Spec
CONSTANTS
  Parts = {"socket"}
  Connections = {c1}
  Requests = {r1, r2}
  Kinds = {"call", "cancel"}
  MaxConnections = 1
  MaxCalls = 1
  MaxControls = 1
  Lines = {r1}
  LineKinds = {"subscribe"}
  MaxBridgeCalls = 1
  MaxBridgeControls = 1
  DrainLimited = FALSE
  MaxClients = 2
  MaxReplacements = 1
CHECK_DEADLOCK FALSE
PROPERTIES ConnectionsEnd
