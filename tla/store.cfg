CONSTANTS
  r1 = r1
  r2 = r2
  k1 = k1
  k2 = k2
  Nobody = Nobody
  Requests <- TwoRequests
  Keys <- TwoKeys
  Settings <- FourSettings
  Timeout = 1
  MaxTime = 2
  MaxEntries = 2
SPECIFICATION FairSpec
INVARIANTS
  MutualExclusion
  KeyExclusive
PROPERTIES
  RunningKeepsEntry
  Served
