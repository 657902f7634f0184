SPECIFICATION FairSpec
CONSTANTS
  NULL = NULL
  Threads = {a, b}
  Amounts = {1}
  ts = 1
  OwnProcs = TRUE
  MaxReq = 0
  MaxAge = 1
PROPERTY Served
CHECK_DEADLOCK FALSE
