SPECIFICATION Spec
CONSTANTS
  NULL = NULL
  Threads = {a, b, c}
  Amounts = {1, 2}
  ts = 2
  OwnProcs = FALSE
  MaxReq = 1
  MaxAge = 20
INVARIANT NoStaleRequest
CHECK_DEADLOCK FALSE
