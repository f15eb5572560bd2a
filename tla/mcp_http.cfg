CONSTANTS
  Clients = {c1, c2}
  HttpMessages <- MCMessages
  MaxRequests = 2
  MaxCreated = 2
SPECIFICATION HttpSpec
INVARIANTS
  RequestsAreAnswered
PROPERTIES
  PostsEnd
CHECK_DEADLOCK FALSE
