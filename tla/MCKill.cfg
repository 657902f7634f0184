SPECIFICATION Spec
CONSTANTS
  NULL = NULL
  MAIN = MAIN
  p1 = p1
  p2 = p2
  p3 = p3
  p4 = p4
  Threads = {t1, t2, t3}
  Start = t1
  Procs = {p1, p2}
  Root = p1
  Owner <- OwnQueues
  NPrio = 2
  PreemptOn = TRUE
  BusyOkay = FALSE
  TimeMod = 2
  BusyTs = 1
  MaxTime = 1
  Delays = {1}
  Busies = {}
  Slices = {}
  Ops = {"spawn", "yield", "kill", "terminate", "setprio", "delay", "lock", "addready", "wakedone", "spawnon", "procrace"}
INVARIANT ReadyIffQueued
PROPERTIES PriorityRespected ImplementsSched
CHECK_DEADLOCK FALSE
