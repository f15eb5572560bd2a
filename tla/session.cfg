CONSTANTS
  Routes <- AllRoutes
  Interceptors = {TRUE, FALSE}
  MaxRequests = 2
  MaxPieces = 2
  MaxEmits = 1
SPECIFICATION FairSpec
INVARIANTS
  BodyConsumed
  OneAnswerEach
  NothingAfterTheLast
  AnsweredOrReported
PROPERTIES
  ShutdownEnds
  SilentClientDropped
