-------------------------------- MODULE Proc --------------------------------
(***************************************************************************)
(* Processors and their ready queues: src/src/Proc.C, ProcQ.C, ThreadQ.h   *)
(* and the helpers of Cluster.C that move threads and processors between   *)
(* queues without switching context.                                       *)
(*                                                                         *)
(* The operators map a record s, the fields of all Thread and Proc objects,*)
(* to its value after the call:                                            *)
(*     mem             links of threads and processors, ends of queues     *)
(*     count[o]        QVect::_count of the ready queues owned by o        *)
(*     tstate, prio, proc, time, start                                     *)
(*                     Thread::_state, _priority, _proc, _time, _starttime *)
(*     pstate, bt      Proc::_state and Proc::_busythread                  *)
(*     bad             an assertion of the code has failed                 *)
(***************************************************************************)
EXTENDS Queue, Integers

CONSTANTS Threads,   \* User threads.
          MAIN,      \* Cluster::_main, the thread of the scheduler loop.
          Procs,     \* Processors.
          Owner,     \* Owner[p]: the processor whose ready queues p uses.
          NPrio,     \* ConfigParms::_numpriorities.
          TimeMod    \* ptime_t counts modulo TimeMod (2^64 in the code).

ASSUME ProcAssumption ==
  /\ IsFiniteSet(Threads) /\ IsFiniteSet(Procs)
  /\ MAIN \notin Threads
  /\ (Threads \cup {MAIN}) \cap Procs = {}
  /\ NULL \notin Threads \cup Procs \cup {MAIN}
  /\ Owner \in [Procs -> Procs] /\ \A p \in Procs : Owner[Owner[p]] = Owner[p]
  /\ NPrio \in Nat \ {0}
  /\ TimeMod \in Nat \ {0}

AllThreads == Threads \cup {MAIN}
Prios == 0..(NPrio - 1)

(* The queue at priority i of p's QVect, and Cluster::_procs.              *)
ReadyQ(p, i) == <<Owner[p], i>>
ProcQ == <<NULL, 0>>
ReadyQueues == {ReadyQ(p, i) : p \in Procs, i \in Prios}

-----------------------------------------------------------------------------
(* Mutant of Enqueue: the new item is linked before the head.              *)
EnqueueAtHead(s, q, x) ==
  [s EXCEPT !.mem = Push(s.mem, q, x), !.bad = s.bad \/ ~Linkable(s.mem, x)]

(* Queue::add on the memory of s, with its assertion.                      *)
Enqueue(s, q, x) ==
  [s EXCEPT !.mem = Add(s.mem, q, x), !.bad = s.bad \/ ~Linkable(s.mem, x)]

(* Mutants of AddReady: the state is not tested; MAIN is not counted.      *)
AddReadyAlways(s, p, t) ==
  [Enqueue(s, ReadyQ(p, s.prio[t]), t)
     EXCEPT !.tstate[t] = "Ready", !.count[Owner[p]] = @ + 1]
AddReadyUncounted(s, p, t) ==
  IF s.tstate[t] \in {"Run", "Busy"}
  THEN [Enqueue(s, ReadyQ(p, s.prio[t]), t)
          EXCEPT !.tstate[t] = "Ready", !.count[Owner[p]] = IF t = MAIN THEN @ ELSE @ + 1]
  ELSE s

(* Proc::add_ready: only a thread that is neither ready nor done is added. *)
AddReady(s, p, t) ==
  IF s.tstate[t] \in {"Run", "Busy"}
  THEN [Enqueue(s, ReadyQ(p, s.prio[t]), t)
          EXCEPT !.tstate[t] = "Ready", !.count[Owner[p]] = @ + 1]
  ELSE s

(* Proc::add_busy.                                                         *)
AddBusy(s, p, t) ==
  IF s.tstate[t] = "Run"
  THEN [s EXCEPT !.tstate[t] = "Busy", !.bt[p] = t]
  ELSE s

(* Proc::return_thread, after the queue has become m.                      *)
ReturnThread(s, m, p, t) ==
  [s EXCEPT !.mem = m, !.count[Owner[p]] = @ - 1, !.tstate[t] = "Run"]

(* The queue the loops of get_ready() and next_ready() stop at: the one of *)
(* the highest priority that is not empty.  (LowestQ is a mutant of TopQ.) *)
Filled(s, p) == {i \in Prios : s.mem.head[ReadyQ(p, i)] # NULL}
LowestQ(s, p) == ReadyQ(p, CHOOSE i \in Filled(s, p) : \A j \in Filled(s, p) : i <= j)
TopQ(s, p) == ReadyQ(p, CHOOSE i \in Filled(s, p) : \A j \in Filled(s, p) : j <= i)

(* Proc::next_ready, and Proc::get_ready() that takes that thread out.     *)
NextReady(s, p) == IF Filled(s, p) = {} THEN NULL ELSE s.mem.head[TopQ(s, p)]
GetReady(s, p) ==
  IF Filled(s, p) = {} THEN s
  ELSE ReturnThread(s, Get(s.mem, TopQ(s, p)), p, NextReady(s, p))

(* Mutant of GetReadyThread: the thread stays in its ready queue.          *)
KeepReadyThread(s, p, t) == s

(* Proc::get_ready(t): takes t out of the queue of its priority, if there. *)
GetReadyThread(s, p, t) ==
  LET q == ReadyQ(p, s.prio[t])
  IN  IF t \in Contents(s.mem, q)
      THEN ReturnThread(s, GetItem(s.mem, q, t), p, t)
      ELSE s

(* Mutant of RemoveReady: the thread stays in its ready queue.             *)
RemoveNothing(s, p, t) == s

(* Proc::remove_ready: "Use with care, as we can't know if the item is     *)
(* actually in the queue."                                                 *)
RemoveReady(s, p, t) ==
  [ReturnThread(s, Remove(s.mem, ReadyQ(p, s.prio[t]), t), p, t)
     EXCEPT !.bad = s.bad \/ s.proc[t] # p]

(* Mutant of ClearBusyThread: the thread is not made ready.                *)
ForgetBusyThread(s, p) == [s EXCEPT !.bt[p] = NULL]

(* Proc::clearBusyThread.                                                  *)
ClearBusyThread(s, p) ==
  IF s.bt[p] = NULL THEN s
  ELSE [AddReady(s, p, s.bt[p]) EXCEPT !.bt[p] = NULL]

Empty(s, p) == s.count[Owner[p]] = 0

(* Thread::endtime and Proc::endtime.                                      *)
ThreadEnd(s, t) == (s.start[t] + s.time[t]) % TimeMod
ProcEnd(s, p) == IF s.bt[p] = NULL THEN 0 ELSE ThreadEnd(s, s.bt[p])

-----------------------------------------------------------------------------
(* Cluster::add_proc: queue p unless it is already running.                *)
AddProc(s, p) ==
  IF s.pstate[p] = "Running" THEN s
  ELSE Enqueue([s EXCEPT !.pstate[p] = "Running"], ProcQ, p)

(* ProcQ::get_non_empty: the first queued processor that has threads ...   *)
FirstNonEmpty(s) ==
  LET n    == Cardinality(NodesOf(s.mem))
      full == {i \in 0..n : /\ Item(s.mem, ProcQ, i) # NULL
                            /\ ~Empty(s, Item(s.mem, ProcQ, i))}
  IN  IF full = {} THEN NULL
      ELSE Item(s.mem, ProcQ, CHOOSE i \in full : \A j \in full : i <= j)

(* ... is removed from wherever it stands.                                 *)
GetNonEmpty(s) ==
  LET p == FirstNonEmpty(s)
  IN  IF p = NULL THEN s ELSE [s EXCEPT !.mem = Remove(s.mem, ProcQ, p)]

(* Mutants of AddThreadToProc: the processor is not scheduled; the thread  *)
(* that is overtaken keeps its full charge.                                *)
AddThreadOnly(s, t, now) == AddReady(s, s.proc[t], t)
AddThreadUncharged(s, t, now) ==
  LET p  == s.proc[t]
      s1 == AddReady(s, p, t)
  IN  IF s.pstate[p] # "Busy" \/ s.prio[t] > s.prio[s.bt[p]] THEN AddProc(s1, p) ELSE s1

(* Cluster::add_thread_to_proc: the processor is scheduled unless it is    *)
(* busy with a thread of at least t's priority.  A busy thread that is     *)
(* overtaken is charged the time it has used so far.                       *)
AddThreadToProc(s, t, now) ==
  LET p  == s.proc[t]
      s1 == AddReady(s, p, t)
      b  == s.bt[p]
  IN  IF s.pstate[p] # "Busy" THEN AddProc(s1, p)
      ELSE IF b = NULL THEN [s1 EXCEPT !.bad = TRUE]
      ELSE IF s.prio[t] > s.prio[b]
      THEN AddProc([s1 EXCEPT !.time[b] = (now - s.start[b]) % TimeMod], p)
      ELSE s1
=============================================================================
