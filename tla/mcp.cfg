CONSTANTS
  k1 = k1
  k2 = k2
  r1 = r1
  Conns = {k1, k2}
  Requests = {r1}
  HistoryLimit = 2
  MaxNotes = 2
SPECIFICATION FairSpec
INVARIANTS
  InOrderOnce
  NothingSkipped
PROPERTIES
  RequestsEnd
  StreamEnds
CHECK_DEADLOCK FALSE
