SPECIFICATION Spec
CONSTANTS
  Parts = {"bridge"}
  Connections = {c1}
  Requests = {r1, r2}
  Kinds = {"call", "cancel"}
  MaxConnections = 1
  MaxCalls = 1
  MaxControls = 1
  Lines = {r1}
  LineKinds = {"call", "subscribe", "cancel"}
  MaxBridgeCalls = 1
  MaxBridgeControls = 1
  DrainLimited = FALSE
  MaxClients = 2
  MaxReplacements = 1
CHECK_DEADLOCK FALSE
PROPERTIES ReadyOrTold InputEndReturns
