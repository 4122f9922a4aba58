CONSTANTS
  procTable <- Served
  TakesArgs <- WithArgs
  TakesHandle <- WithHandle
  NoEncoding <- NilResult
  Headers <- AllHeaders
  MaxCalls = 2

SPECIFICATION Spec
INVARIANT DeniedIsDenied
CHECK_DEADLOCK FALSE
