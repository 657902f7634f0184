SPECIFICATION Spec
CONSTANTS
  NULL = NULL
  MAIN = MAIN
  p1 = p1
  p2 = p2
  p3 = p3
  p4 = p4
  Threads = {t1, t2, t3}
  Start = t1
  Procs = {p1}
  Root = p1
  Owner <- OwnQueues
  NPrio = 1
  PreemptOn = FALSE
  BusyOkay = TRUE
  TimeMod = 16
  BusyTs = 1
  MaxTime = 0
  Delays = {}
  Busies = {}
  Slices = {0}
  Ops = {"spawn", "busysleep", "busywake"}
INVARIANT NoFault
CHECK_DEADLOCK FALSE
