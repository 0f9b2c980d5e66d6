SPECIFICATION Spec
CONSTANTS
  Clients = {c1, c2}
  MaxMaps = 2
INVARIANTS CountMatches
PROPERTIES DeletedAfterEnd FeedsClients FeedsOn IdleStopsMotor ClientsServed LeaversDeleted
