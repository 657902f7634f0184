SPECIFICATION Spec
CONSTANTS
  NULL = NULL
  MAIN = MAIN
  p1 = p1
  p2 = p2
  p3 = p3
  p4 = p4
  Threads = {t1, t2, t3}
  Start = t1
  Procs = {p1, p2}
  Root = p1
  Owner <- OwnQueues
  NPrio = 1
  PreemptOn = FALSE
  BusyOkay = TRUE
  TimeMod = 16
  BusyTs = 3
  MaxTime = 4
  Delays = {1}
  Busies = {}
  Slices = {2}
  Ops = {"spawn", "spawnon", "delay", "busysleep", "busywake"}
PROPERTY TimeSkipsNothing
CHECK_DEADLOCK FALSE
