SPECIFICATION Safety
CONSTANTS
  a = a
  b = b
  r1 = r1
  r2 = r2
  Ids = {a, b}
  Routes = {r1, r2}
  NoId = NoId
  NoRoute = NoRoute
  Inactive = Inactive
  Responses <- MCResponses
  EventKinds <- MCEventKinds
  Capacity = 2
  PendingLimit = 1
  MaxCommands = 3
  MaxEvents = 3
INVARIANTS TablesSound LinesAreRouted
