SPECIFICATION Spec
CONSTANTS
  NULL = NULL
  MAIN = MAIN
  p1 = p1
  p2 = p2
  p3 = p3
  p4 = p4
  Threads = {t1, t2, t3}
  Start = t1
  Procs = {p1, p2}
  Root = p1
  Owner <- OwnQueues
  NPrio = 1
  PreemptOn = TRUE
  BusyOkay = FALSE
  TimeMod = 2
  BusyTs = 1
  MaxTime = 0
  Delays = {}
  Busies = {}
  Slices = {}
  Ops = {"spawn", "spawnon", "kill", "yield", "procrace"}
INVARIANT NoStrandedProc
CHECK_DEADLOCK FALSE
