CONSTANTS
  MaxFrames = 4
  MaxValues = 4
  MaxMeta = 2
SPECIFICATION ChunkedFairSpec
INVARIANTS
  Spliced
  FailureIsNotTheEnd
  HeaderIsComplete
PROPERTIES
  DestroyedIsUntouched
  CancellationReaches
CHECK_DEADLOCK FALSE
