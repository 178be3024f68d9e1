SPECIFICATION Spec
CONSTANTS
  a = a
  b = b
  r1 = r1
  r2 = r2
  Ids = {a, b}
  Routes = {r1, r2}
  NoId = NoId
  NoRoute = NoRoute
  Inactive = Inactive
  Responses <- FewResponses
  EventKinds <- FewEventKinds
  Capacity = 2
  PendingLimit = 2
  MaxCommands = 3
  MaxEvents = 3
PROPERTIES DeliveryInOrder DueIsSettled
