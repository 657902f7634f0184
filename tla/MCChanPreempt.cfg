SPECIFICATION PreemptSpec
CONSTANTS
  NULL = NULL
  t1 = t1
  t2 = t2
  t3 = t3
  c1 = c1
  c2 = c2
  c3 = c3
  o1 = o1
  r1 = r1
  Users = {t1, t2, t3}
  Chans = {c1, c2, c3}
  Timeouts = {o1}
  Results = {r1}
  Delay <- Delay1
  ResThread <- Result1
  Programs <- Preempted
  MaxOps = 3
INVARIANT NoLostWakeup
CHECK_DEADLOCK FALSE
