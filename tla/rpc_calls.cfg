CONSTANTS
  procTable <- Served
  TakesArgs <- WithArgs
  TakesHandle <- WithHandle
  NoEncoding <- NilResult
  Headers <- AllHeaders
  MaxCalls = 3

SPECIFICATION FairSpec
INVARIANTS TypeOK IndexSet ReplyDeserved ErrorInfo NoCallLost
PROPERTIES ConnectionEnds
CHECK_DEADLOCK FALSE
