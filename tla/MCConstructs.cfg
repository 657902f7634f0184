SPECIFICATION FairSpec
CONSTANTS
  NULL = NULL
  t1 = t1
  t2 = t2
  t3 = t3
  t4 = t4
  Threads = {t1, t2, t3, t4}
  Main = t1
  Programs <- SafePrograms
INVARIANTS MutexSerial LockReleased JoinsSeeResults
PROPERTIES AllEnd RunsOnSched
CHECK_DEADLOCK FALSE
