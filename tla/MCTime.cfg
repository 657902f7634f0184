SPECIFICATION Spec
CONSTANTS
  NULL = NULL
  MAIN = MAIN
  p1 = p1
  p2 = p2
  p3 = p3
  p4 = p4
  Threads = {t1, t2, t3}
  Start = t1
  Procs = {p1, p2}
  Root = p1
  Owner <- OwnQueues
  NPrio = 2
  PreemptOn = FALSE
  BusyOkay = TRUE
  TimeMod = 16
  BusyTs = 2
  MaxTime = 3
  Delays = {0, 1}
  Busies = {1, 3}
  Slices = {0, 1}
  Ops = {"spawn", "spawnon", "delay", "busy", "terminate"}
INVARIANTS TypeOK NoFault ExitOnlyWhenIdle RunningIffScheduled NoStrandedProc
PROPERTIES DelayExact TimeSkipsNothing BusyConsumes BusyShrinks
CHECK_DEADLOCK FALSE
