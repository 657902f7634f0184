SPECIFICATION FairSpec
CONSTANTS
  NULL = NULL
  Threads = {a, b}
  Amounts = {0, 1}
  ts = 2
  OwnProcs = TRUE
  MaxReq = 1
  MaxAge = 20
PROPERTY Served
CHECK_DEADLOCK FALSE
