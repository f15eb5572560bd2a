CONSTANTS
  c1 = c1
  c2 = c2
  Consumers <- TwoConsumers
  MaxValues = 3
  MaxReceives = 3
SPECIFICATION FairSpec
INVARIANTS
  NoMissedWakeup
  NullHasReason
PROPERTIES
  CloseEnds
  ImplementsStream
