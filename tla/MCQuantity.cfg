SPECIFICATION FairSpec
CONSTANTS
  NULL = NULL
  Threads = {a, b, c}
  Amounts = {1, 2}
  ts = 2
  OwnProcs = TRUE
  MaxReq = 2
  MaxAge = 0
INVARIANTS TypeOK NoStaleRequest SliceExact
PROPERTY Served
CHECK_DEADLOCK FALSE
