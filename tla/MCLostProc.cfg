SPECIFICATION Spec
CONSTANTS
  NULL = NULL
  MAIN = MAIN
  p1 = p1
  p2 = p2
  p3 = p3
  p4 = p4
  Threads = {t1, t2, t3, t4, t5}
  Start = t1
  Procs = {p1, p2, p3, p4}
  Root = p1
  Owner <- OwnQueues
  NPrio = 1
  PreemptOn = FALSE
  BusyOkay = FALSE
  TimeMod = 2
  BusyTs = 1
  MaxTime = 0
  Delays = {}
  Busies = {}
  Slices = {}
  Ops = {"spawnon", "kill", "terminate"}
INVARIANT NoStrandedProc
CHECK_DEADLOCK FALSE
