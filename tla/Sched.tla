------------------------------- MODULE Sched --------------------------------
(***************************************************************************)
(* What the scheduler promises to the code that runs on it: the view of    *)
(* Cluster.C that the channel classes have.  Kernel implements it, and     *)
(* Channels is built on it.                                                *)
(*                                                                         *)
(* At most one thread runs.  A thread that is ready takes over when no     *)
(* other runs; which one is left open (queues, processors and priorities   *)
(* decide in Kernel).  Only running code, or time, makes a thread ready.   *)
(***************************************************************************)
CONSTANT NULL

VARIABLES
  st,       \* st[t]: what thread t is doing.
  cur,      \* The user thread that runs, or NULL: the scheduler does.
  locked    \* Cluster::_kernel.

Blocked == {"sleep", "delay", "busy"}
States == {"none", "ready", "run", "done"} \cup Blocked

(* A thread that takes over was ready, and finds the cluster unlocked.     *)
TakesOver(t) == st[t] = "ready" /\ st'[t] = "run" /\ ~locked'

(* What happens to a thread that does not run: it is created or woken.     *)
Stirs(t) == \/ st'[t] = st[t]
            \/ st[t] \in Blocked \cup {"none"} /\ st'[t] = "ready"

(* The running thread makes a call: others are created, woken or killed.   *)
Call ==
  /\ cur # NULL /\ cur' = cur /\ st'[cur] = "run"
  /\ \A t \in DOMAIN st \ {cur} : Stirs(t) \/ (st[t] # "none" /\ st'[t] = "done")

(* It yields, blocks, ends or is preempted, and the next takes over.       *)
GiveUp ==
  /\ cur # NULL /\ cur' # cur /\ st'[cur] \in {"ready", "done"} \cup Blocked
  /\ cur' # NULL => TakesOver(cur')
  /\ \A t \in DOMAIN st \ {cur, cur'} : Stirs(t)

(* The scheduler lets time pass, or a ready thread take over.              *)
Idle ==
  /\ cur = NULL
  /\ cur' # NULL => TakesOver(cur')
  /\ \A t \in DOMAIN st \ {cur'} : Stirs(t)

Init ==
  /\ st \in [DOMAIN st -> {"none", "ready"}]
  /\ cur = NULL
  /\ locked \in BOOLEAN

Next == (Call \/ GiveUp \/ Idle) /\ DOMAIN st' = DOMAIN st

Spec == Init /\ [][Next]_<<st, cur, locked>>
=============================================================================
