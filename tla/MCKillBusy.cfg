SPECIFICATION Spec
CONSTANTS
  NULL = NULL
  MAIN = MAIN
  p1 = p1
  p2 = p2
  p3 = p3
  p4 = p4
  Threads = {t1, t2, t3, t4}
  Start = t1
  Procs = {p1}
  Root = p1
  Owner <- OwnQueues
  NPrio = 1
  PreemptOn = FALSE
  BusyOkay = TRUE
  TimeMod = 16
  BusyTs = 2
  MaxTime = 2
  Delays = {}
  Busies = {1}
  Slices = {0}
  Ops = {"spawn", "kill", "busy"}
INVARIANT ReadyIffQueued
CHECK_DEADLOCK FALSE
