CONSTANTS
  Messages <- MCMessages
  MaxLines = 4
  MaxCalls = 2
  MaxSessions = 2
SPECIFICATION FairSpec
INVARIANTS
  AnsweredUnlessCancelled
  CancelledIsNotAnswered
PROPERTIES
  StdioReturns
CHECK_DEADLOCK FALSE
