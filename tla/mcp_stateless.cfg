CONSTANTS
  Clients = {c1, c2}
  HttpMessages <- MCMessages
  MaxRequests = 2
  MaxCreated = 2
SPECIFICATION HttpSpec
INVARIANTS
  EqualIdsDoNotCollide
CHECK_DEADLOCK FALSE
