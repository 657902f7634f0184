SPECIFICATION Spec
CONSTANTS
  NULL = NULL
  MAIN = MAIN
  Threads = {t1, t2, t3, t4}
INVARIANT RootsAreLive
CHECK_DEADLOCK FALSE
