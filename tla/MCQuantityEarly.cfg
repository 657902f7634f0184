SPECIFICATION Spec
CONSTANTS
  NULL = NULL
  Threads = {a, b}
  Amounts = {1, 2}
  ts = 2
  OwnProcs = TRUE
  MaxReq = 1
  MaxAge = 20
PROPERTY NotEarly
CHECK_DEADLOCK FALSE
