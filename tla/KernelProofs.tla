---------------------------- MODULE KernelProofs ----------------------------
(***************************************************************************)
(* Theorems about the scheduler without the time model, for any number of  *)
(* threads, processors that may share ready queues, and priorities, and    *)
(* for every choice of calls, preemption and kill included, in which no    *)
(* alarm interrupts an unlocked pAddReady ("readyrace" is not in Ops).  An *)
(* add_proc may be interrupted between any two of its accesses; only the   *)
(* theorems on the queue of processors, at the end, exclude that too: they *)
(* are for the programs that Tame describes.                               *)
(***************************************************************************)
EXTENDS Kernel, ProcProofs

-----------------------------------------------------------------------------
(* The inductive invariant.                                                *)

(* The phases in which a user thread, and the scheduler thread, run.       *)
UserPhases == {"user", "reap"}
MainPhases == {"sched", "newproc", "time", "expire"}

InsertType == [q : ReadyQueues \cup {ProcQ}, tail : AllThreads \cup Procs \cup {NULL},
               ret : {"user", "create"}]
FrameType == [at : {"user", "create", "busy", "bsleep"} \cup Resting \cup Inserting,
              tgt : Threads \cup Procs \cup {NULL}, rem : Times, uts : Nat, due : Nat,
              ins : InsertType]

(* The variables beside obj.                                               *)
Rest ==
  /\ waiters \in [Threads -> Seq(Threads)]
  /\ valid \in [Threads -> BOOLEAN]
  /\ cur \in AllThreads \cup {NULL} /\ curproc \in ProcPtr
  /\ locked \in BOOLEAN /\ shutdown \in BOOLEAN
  /\ now \in Times /\ delayq \in Seq(Threads) /\ busyq = <<>>
  /\ phase \in UserPhases \cup MainPhases \cup {"exit", "self_switch"}

(* What is on the stacks: nothing of the time model, no pAddReady that can *)
(* be interrupted, and a thread in the middle of add_proc, or about to     *)
(* create a thread on a processor, deals with processors and their queue.  *)
Proper(g) ==
  /\ g.at \notin {"busy", "bsleep"} \cup InAddReady
  /\ g.at \in {"create"} \cup InAddProc \cup InQueueAdd =>
       g.tgt \in Procs /\ g.ins.q = ProcQ /\ g.ins.tail \in ProcPtr
Frames ==
  /\ frame \in [Threads -> FrameType]
  /\ \A t \in Threads : Proper(frame[t])

(* No processor is busy.                                                   *)
IdleProcs == \A p \in Procs : obj.pstate[p] # "Busy" /\ obj.bt[p] = NULL

(* No thread is busy, every thread that was created has a processor, and   *)
(* the scheduler thread has the lowest priority.                           *)
Untimed ==
  /\ \A t \in AllThreads : obj.tstate[t] # "Busy"
  /\ \A t \in Threads : obj.tstate[t] # "None" => obj.proc[t] \in Procs
  /\ obj.tstate[MAIN] \in {"Run", "Ready"} /\ obj.prio[MAIN] = 0

(* A user thread runs: the scheduler thread waits on the same queues.      *)
UserTurn ==
  phase \in UserPhases =>
    /\ cur \in Threads /\ obj.tstate[cur] = "Run" /\ frame[cur].at \notin Resting
    /\ curproc \in Procs /\ Owner[obj.proc[cur]] = Owner[curproc]
    /\ obj.tstate[MAIN] = "Ready" /\ Owner[obj.proc[MAIN]] = Owner[curproc]

(* The scheduler thread runs.  After pExit it does so while it is queued.  *)
MainTurn ==
  phase \in MainPhases =>
    /\ cur \in {MAIN, NULL}
    /\ phase = "sched" => curproc \in Procs
    /\ shutdown => phase = "sched"
    /\ ~shutdown => obj.tstate[MAIN] = "Run"
    /\ cur # NULL /\ PreemptOkay => locked

(* A terminating thread holds the lock.                                    *)
Reaping == phase = "reap" => locked

(* Thread t is blocked at a, unless it has been killed.                    *)
Blocked(t, a) == obj.tstate[t] = "Done" \/ (obj.tstate[t] = "Run" /\ frame[t].at = a)

(* The queues that threads other than ready ones are in: the waiters of a  *)
(* thread, and the delayed threads.                                        *)
Waiting ==
  \A u \in Threads :
    /\ \A i \in 1..Len(waiters[u]) :
         LET n == waiters[u][i]
         IN  Blocked(n, "wait") /\ (obj.tstate[n] = "Run" => frame[n].tgt = u)
    /\ \A i, j \in 1..Len(waiters[u]) : waiters[u][i] = waiters[u][j] => i = j
Delayed ==
  /\ \A i \in 1..Len(delayq) : Blocked(delayq[i], "delay")
  /\ \A i, j \in 1..Len(delayq) : delayq[i] = delayq[j] => i = j

Turns == Untimed /\ UserTurn /\ MainTurn /\ Reaping
Lists == Waiting /\ Delayed
KI == Good(obj) /\ Rest /\ Frames /\ IdleProcs /\ Turns /\ Lists

-----------------------------------------------------------------------------
(* What the calls do to the objects.                                       *)

(* Assignments to fields of a thread.                                      *)
LEMMA FieldsGood ==
  ASSUME NEW s, Good(s), NEW t \in AllThreads
  PROVE  /\ \A p \in Procs : (t \in ReadySet(s) => Owner[p] = Owner[s.proc[t]]) =>
              LET z == SetProc(s, t, p)
              IN  /\ Good(z) /\ z.proc = [s.proc EXCEPT ![t] = p]
                  /\ z.tstate = s.tstate /\ z.prio = s.prio /\ z.pstate = s.pstate /\ z.bt = s.bt
         /\ \A i \in Prios : t \notin ReadySet(s) =>
              LET z == [s EXCEPT !.prio[t] = i]
              IN  /\ Good(z) /\ z.prio = [s.prio EXCEPT ![t] = i]
                  /\ z.tstate = s.tstate /\ z.proc = s.proc /\ z.pstate = s.pstate /\ z.bt = s.bt
         /\ t \notin ReadySet(s) =>
              LET z == [s EXCEPT !.tstate[t] = "Done"]
              IN  /\ Good(z) /\ z.tstate = [s.tstate EXCEPT ![t] = "Done"]
                  /\ z.prio = s.prio /\ z.proc = s.proc /\ z.pstate = s.pstate /\ z.bt = s.bt
         /\ \A d, e \in Times :
              LET z == [s EXCEPT !.time[t] = d, !.start[t] = e]
              IN  /\ Good(z) /\ z.tstate = s.tstate
                  /\ z.prio = s.prio /\ z.proc = s.proc /\ z.pstate = s.pstate /\ z.bt = s.bt
         /\ \A p \in Procs, i \in Prios : s.tstate[t] = "None" =>
              LET z == [s EXCEPT !.tstate[t] = "Run", !.proc[t] = p, !.prio[t] = i]
              IN  /\ Good(z) /\ z.tstate = [s.tstate EXCEPT ![t] = "Run"]
                  /\ z.proc = [s.proc EXCEPT ![t] = p] /\ z.prio = [s.prio EXCEPT ![t] = i]
                  /\ z.pstate = s.pstate /\ z.bt = s.bt
<1>0. ObjOK(s)
  BY DEF Good
<1>1. /\ s.tstate \in [AllThreads -> {"None", "Run", "Busy", "Ready", "Done"}] /\ s.prio \in [AllThreads -> Prios]
      /\ s.proc \in [AllThreads -> ProcPtr]
      /\ s.time \in [AllThreads -> Times] /\ s.start \in [AllThreads -> Times]
      /\ Homed(s) /\ ObjOK(s)
  BY DEF Good, ObjOK
<1>2. /\ s.tstate[t] \in {"None", "Run", "Busy", "Ready", "Done"} /\ s.prio[t] \in Prios /\ s.proc[t] \in ProcPtr
      /\ s.time[t] \in Times /\ s.start[t] \in Times
      /\ s.tstate[t] = "Ready" <=> t \in ReadySet(s)
      /\ t \in ReadySet(s) => s.proc[t] \in Procs
  BY <1>1 DEF ReadySet, Homed
<1>3. /\ [s.tstate EXCEPT ![t] = s.tstate[t]] = s.tstate
      /\ [s.prio EXCEPT ![t] = s.prio[t]] = s.prio
      /\ [s.proc EXCEPT ![t] = s.proc[t]] = s.proc
      /\ [s.time EXCEPT ![t] = s.time[t]] = s.time
      /\ [s.start EXCEPT ![t] = s.start[t]] = s.start
  BY <1>1
<1>4. ASSUME NEW p \in Procs, t \in ReadySet(s) => Owner[p] = Owner[s.proc[t]]
      PROVE  LET z == SetProc(s, t, p)
             IN  /\ Good(z) /\ z.tstate = s.tstate /\ z.proc = [s.proc EXCEPT ![t] = p]
                 /\ z.prio = s.prio /\ z.pstate = s.pstate /\ z.bt = s.bt
  <2> DEFINE z == SetProc(s, t, p)
  <2>1. /\ z.mem = s.mem /\ z.count = s.count /\ z.tstate = s.tstate /\ z.prio = s.prio
        /\ z.proc = [s.proc EXCEPT ![t] = p] /\ z.time = s.time /\ z.start = s.start
        /\ z.pstate = s.pstate /\ z.bt = s.bt /\ z.bad = s.bad
        /\ z = [mem |-> z.mem, count |-> z.count, tstate |-> z.tstate, prio |-> z.prio,
                proc |-> z.proc, time |-> z.time, start |-> z.start, pstate |-> z.pstate,
                bt |-> z.bt, bad |-> z.bad]
    BY ONLY <1>0, t \in AllThreads DEF ObjOK, SetProc
  <2> HIDE DEF z
  <2>2. z = [mem |-> s.mem, count |-> s.count, tstate |-> [s.tstate EXCEPT ![t] = s.tstate[t]],
             prio |-> [s.prio EXCEPT ![t] = s.prio[t]], proc |-> [s.proc EXCEPT ![t] = p],
             time |-> [s.time EXCEPT ![t] = s.time[t]], start |-> [s.start EXCEPT ![t] = s.start[t]],
             pstate |-> s.pstate, bt |-> s.bt, bad |-> s.bad]
    BY <1>3, <2>1
  <2>3. s.tstate[t] \in {"None", "Run", "Busy", "Ready", "Done"} /\ (s.tstate[t] = "Ready" <=> t \in ReadySet(s)) /\ (s.tstate[t] \notin {"Ready", "Done"} => s.tstate[t] # "Done")
    BY <1>2, <1>4
  <2>4. p \in ProcPtr /\ s.prio[t] \in Prios /\ s.time[t] \in Times /\ s.start[t] \in Times
    BY <1>2, <1>4 DEF ProcPtr
  <2>5. t \in ReadySet(s) => p \in Procs /\ Owner[p] = Owner[s.proc[t]] /\ s.prio[t] = s.prio[t]
    BY <1>2, <1>4
  <2>6. Good(s) /\ t \in AllThreads
    OBVIOUS
  <2>7. FieldsSet(s, z, t, s.tstate[t], p, s.prio[t], s.time[t], s.start[t])
    BY ONLY <2>2, <2>3, <2>4, <2>5 DEF FieldsSet
  <2>8. Good(z)
    BY ONLY <2>6, <2>7, ThreadFieldsGood
  <2>9. QED
    BY <2>1, <2>8 DEF z
<1>5. ASSUME NEW i \in Prios, t \notin ReadySet(s)
      PROVE  LET z == [s EXCEPT !.prio[t] = i]
             IN  /\ Good(z) /\ z.tstate = s.tstate /\ z.proc = s.proc
                 /\ z.prio = [s.prio EXCEPT ![t] = i] /\ z.pstate = s.pstate /\ z.bt = s.bt
  <2> DEFINE z == [s EXCEPT !.prio[t] = i]
  <2>1. /\ z.mem = s.mem /\ z.count = s.count /\ z.tstate = s.tstate /\ z.prio = [s.prio EXCEPT ![t] = i]
        /\ z.proc = s.proc /\ z.time = s.time /\ z.start = s.start
        /\ z.pstate = s.pstate /\ z.bt = s.bt /\ z.bad = s.bad
        /\ z = [mem |-> z.mem, count |-> z.count, tstate |-> z.tstate, prio |-> z.prio,
                proc |-> z.proc, time |-> z.time, start |-> z.start, pstate |-> z.pstate,
                bt |-> z.bt, bad |-> z.bad]
    BY ONLY <1>0, t \in AllThreads DEF ObjOK
  <2> HIDE DEF z
  <2>2. z = [mem |-> s.mem, count |-> s.count, tstate |-> [s.tstate EXCEPT ![t] = s.tstate[t]],
             prio |-> [s.prio EXCEPT ![t] = i], proc |-> [s.proc EXCEPT ![t] = s.proc[t]],
             time |-> [s.time EXCEPT ![t] = s.time[t]], start |-> [s.start EXCEPT ![t] = s.start[t]],
             pstate |-> s.pstate, bt |-> s.bt, bad |-> s.bad]
    BY <1>3, <2>1
  <2>3. s.tstate[t] \in {"None", "Run", "Busy", "Ready", "Done"} /\ (s.tstate[t] = "Ready" <=> t \in ReadySet(s)) /\ (s.tstate[t] \notin {"Ready", "Done"} => s.tstate[t] # "Done")
    BY <1>2, <1>5
  <2>4. s.proc[t] \in ProcPtr /\ i \in Prios /\ s.time[t] \in Times /\ s.start[t] \in Times
    BY <1>2, <1>5 DEF ProcPtr
  <2>5. t \in ReadySet(s) => s.proc[t] \in Procs /\ Owner[s.proc[t]] = Owner[s.proc[t]] /\ i = s.prio[t]
    BY <1>2, <1>5
  <2>6. Good(s) /\ t \in AllThreads
    OBVIOUS
  <2>7. FieldsSet(s, z, t, s.tstate[t], s.proc[t], i, s.time[t], s.start[t])
    BY ONLY <2>2, <2>3, <2>4, <2>5 DEF FieldsSet
  <2>8. Good(z)
    BY ONLY <2>6, <2>7, ThreadFieldsGood
  <2>9. QED
    BY <2>1, <2>8 DEF z
<1>6. ASSUME t \notin ReadySet(s)
      PROVE  LET z == [s EXCEPT !.tstate[t] = "Done"]
             IN  /\ Good(z) /\ z.tstate = [s.tstate EXCEPT ![t] = "Done"] /\ z.proc = s.proc
                 /\ z.prio = s.prio /\ z.pstate = s.pstate /\ z.bt = s.bt
  <2> DEFINE z == [s EXCEPT !.tstate[t] = "Done"]
  <2>1. /\ z.mem = s.mem /\ z.count = s.count /\ z.tstate = [s.tstate EXCEPT ![t] = "Done"] /\ z.prio = s.prio
        /\ z.proc = s.proc /\ z.time = s.time /\ z.start = s.start
        /\ z.pstate = s.pstate /\ z.bt = s.bt /\ z.bad = s.bad
        /\ z = [mem |-> z.mem, count |-> z.count, tstate |-> z.tstate, prio |-> z.prio,
                proc |-> z.proc, time |-> z.time, start |-> z.start, pstate |-> z.pstate,
                bt |-> z.bt, bad |-> z.bad]
    BY ONLY <1>0, t \in AllThreads DEF ObjOK
  <2> HIDE DEF z
  <2>2. z = [mem |-> s.mem, count |-> s.count, tstate |-> [s.tstate EXCEPT ![t] = "Done"],
             prio |-> [s.prio EXCEPT ![t] = s.prio[t]], proc |-> [s.proc EXCEPT ![t] = s.proc[t]],
             time |-> [s.time EXCEPT ![t] = s.time[t]], start |-> [s.start EXCEPT ![t] = s.start[t]],
             pstate |-> s.pstate, bt |-> s.bt, bad |-> s.bad]
    BY <1>3, <2>1
  <2>3. "Done" \in {"None", "Run", "Busy", "Ready", "Done"} /\ ("Done" = "Ready" <=> t \in ReadySet(s)) /\ ("Done" \notin {"Ready", "Done"} => s.tstate[t] # "Done")
    BY <1>2, <1>6
  <2>4. s.proc[t] \in ProcPtr /\ s.prio[t] \in Prios /\ s.time[t] \in Times /\ s.start[t] \in Times
    BY <1>2, <1>6 DEF ProcPtr
  <2>5. t \in ReadySet(s) => s.proc[t] \in Procs /\ Owner[s.proc[t]] = Owner[s.proc[t]] /\ s.prio[t] = s.prio[t]
    BY <1>2, <1>6
  <2>6. Good(s) /\ t \in AllThreads
    OBVIOUS
  <2>7. FieldsSet(s, z, t, "Done", s.proc[t], s.prio[t], s.time[t], s.start[t])
    BY ONLY <2>2, <2>3, <2>4, <2>5 DEF FieldsSet
  <2>8. Good(z)
    BY ONLY <2>6, <2>7, ThreadFieldsGood
  <2>9. QED
    BY <2>1, <2>8 DEF z
<1>7. ASSUME NEW d \in Times, NEW e \in Times
      PROVE  LET z == [s EXCEPT !.time[t] = d, !.start[t] = e]
             IN  /\ Good(z) /\ z.tstate = s.tstate /\ z.proc = s.proc
                 /\ z.prio = s.prio /\ z.pstate = s.pstate /\ z.bt = s.bt
  <2>0. PICK z : z = [s EXCEPT !.time[t] = d, !.start[t] = e]
    OBVIOUS
  <2>1. /\ z.mem = s.mem /\ z.count = s.count /\ z.tstate = s.tstate /\ z.prio = s.prio
        /\ z.proc = s.proc /\ z.time = [s.time EXCEPT ![t] = d] /\ z.start = [s.start EXCEPT ![t] = e]
        /\ z.pstate = s.pstate /\ z.bt = s.bt /\ z.bad = s.bad
        /\ z = [mem |-> z.mem, count |-> z.count, tstate |-> z.tstate, prio |-> z.prio,
                proc |-> z.proc, time |-> z.time, start |-> z.start, pstate |-> z.pstate,
                bt |-> z.bt, bad |-> z.bad]
    <3>1. ObjOK(s) /\ t \in AllThreads
      BY <1>0
    <3>2. /\ z.mem = s.mem /\ z.count = s.count /\ z.tstate = s.tstate /\ z.prio = s.prio
            /\ z.proc = s.proc /\ z.time = [s.time EXCEPT ![t] = d] /\ z.start = [s.start EXCEPT ![t] = e]
            /\ z.pstate = s.pstate /\ z.bt = s.bt /\ z.bad = s.bad
      BY ONLY <2>0, <3>1 DEF ObjOK
    <3>3. z = [mem |-> z.mem, count |-> z.count, tstate |-> z.tstate, prio |-> z.prio,
                      proc |-> z.proc, time |-> z.time, start |-> z.start, pstate |-> z.pstate,
                      bt |-> z.bt, bad |-> z.bad]
      BY ONLY <2>0, <3>1 DEF ObjOK
    <3>4. QED
      BY ONLY <3>2, <3>3
  <2>2. z = [mem |-> s.mem, count |-> s.count, tstate |-> [s.tstate EXCEPT ![t] = s.tstate[t]],
             prio |-> [s.prio EXCEPT ![t] = s.prio[t]], proc |-> [s.proc EXCEPT ![t] = s.proc[t]],
             time |-> [s.time EXCEPT ![t] = d], start |-> [s.start EXCEPT ![t] = e],
             pstate |-> s.pstate, bt |-> s.bt, bad |-> s.bad]
    BY <1>3, <2>1
  <2>3. s.tstate[t] \in {"None", "Run", "Busy", "Ready", "Done"} /\ (s.tstate[t] = "Ready" <=> t \in ReadySet(s)) /\ (s.tstate[t] \notin {"Ready", "Done"} => s.tstate[t] # "Done")
    BY <1>2, <1>7
  <2>4. s.proc[t] \in ProcPtr /\ s.prio[t] \in Prios /\ d \in Times /\ e \in Times
    BY <1>2, <1>7 DEF ProcPtr
  <2>5. t \in ReadySet(s) => s.proc[t] \in Procs /\ Owner[s.proc[t]] = Owner[s.proc[t]] /\ s.prio[t] = s.prio[t]
    BY <1>2, <1>7
  <2>6. Good(s) /\ t \in AllThreads
    OBVIOUS
  <2>7. FieldsSet(s, z, t, s.tstate[t], s.proc[t], s.prio[t], d, e)
    BY ONLY <2>2, <2>3, <2>4, <2>5 DEF FieldsSet
  <2>8. Good(z)
    BY ONLY <2>6, <2>7, ThreadFieldsGood
  <2>9. QED
    BY <2>0, <2>1, <2>8
<1>8. ASSUME NEW p \in Procs, NEW i \in Prios, s.tstate[t] = "None"
      PROVE  LET z == [s EXCEPT !.tstate[t] = "Run", !.proc[t] = p, !.prio[t] = i]
             IN  /\ Good(z) /\ z.tstate = [s.tstate EXCEPT ![t] = "Run"] /\ z.proc = [s.proc EXCEPT ![t] = p]
                 /\ z.prio = [s.prio EXCEPT ![t] = i] /\ z.pstate = s.pstate /\ z.bt = s.bt
  <2>0. PICK z : z = [s EXCEPT !.tstate[t] = "Run", !.proc[t] = p, !.prio[t] = i]
    OBVIOUS
  <2>1. /\ z.mem = s.mem /\ z.count = s.count /\ z.tstate = [s.tstate EXCEPT ![t] = "Run"] /\ z.prio = [s.prio EXCEPT ![t] = i]
        /\ z.proc = [s.proc EXCEPT ![t] = p] /\ z.time = s.time /\ z.start = s.start
        /\ z.pstate = s.pstate /\ z.bt = s.bt /\ z.bad = s.bad
        /\ z = [mem |-> z.mem, count |-> z.count, tstate |-> z.tstate, prio |-> z.prio,
                proc |-> z.proc, time |-> z.time, start |-> z.start, pstate |-> z.pstate,
                bt |-> z.bt, bad |-> z.bad]
    <3>1. ObjOK(s) /\ t \in AllThreads
      BY <1>0
    <3>2. /\ z.mem = s.mem /\ z.count = s.count /\ z.tstate = [s.tstate EXCEPT ![t] = "Run"] /\ z.prio = [s.prio EXCEPT ![t] = i]
            /\ z.proc = [s.proc EXCEPT ![t] = p] /\ z.time = s.time /\ z.start = s.start
            /\ z.pstate = s.pstate /\ z.bt = s.bt /\ z.bad = s.bad
      BY ONLY <2>0, <3>1 DEF ObjOK
    <3>3. z = [mem |-> z.mem, count |-> z.count, tstate |-> z.tstate, prio |-> z.prio,
                      proc |-> z.proc, time |-> z.time, start |-> z.start, pstate |-> z.pstate,
                      bt |-> z.bt, bad |-> z.bad]
      BY ONLY <2>0, <3>1 DEF ObjOK
    <3>4. QED
      BY ONLY <3>2, <3>3
  <2>2. z = [mem |-> s.mem, count |-> s.count, tstate |-> [s.tstate EXCEPT ![t] = "Run"],
             prio |-> [s.prio EXCEPT ![t] = i], proc |-> [s.proc EXCEPT ![t] = p],
             time |-> [s.time EXCEPT ![t] = s.time[t]], start |-> [s.start EXCEPT ![t] = s.start[t]],
             pstate |-> s.pstate, bt |-> s.bt, bad |-> s.bad]
    BY <1>3, <2>1
  <2>3. "Run" \in {"None", "Run", "Busy", "Ready", "Done"} /\ ("Run" = "Ready" <=> t \in ReadySet(s)) /\ ("Run" \notin {"Ready", "Done"} => s.tstate[t] # "Done")
    BY <1>2, <1>8
  <2>4. p \in ProcPtr /\ i \in Prios /\ s.time[t] \in Times /\ s.start[t] \in Times
    BY <1>2, <1>8 DEF ProcPtr
  <2>5. t \in ReadySet(s) => p \in Procs /\ Owner[p] = Owner[s.proc[t]] /\ i = s.prio[t]
    BY <1>2, <1>8
  <2>6. Good(s) /\ t \in AllThreads
    OBVIOUS
  <2>7. FieldsSet(s, z, t, "Run", p, i, s.time[t], s.start[t])
    BY ONLY <2>2, <2>3, <2>4, <2>5 DEF FieldsSet
  <2>8. Good(z)
    BY ONLY <2>6, <2>7, ThreadFieldsGood
  <2>9. QED
    BY <2>0, <2>1, <2>8
<1>9. QED
  BY <1>4, <1>5, <1>6, <1>7, <1>8, ZenonT(30)

(* The states and processors of threads, and of processors, are functions. *)
LEMMA FieldTypes ==
  ASSUME NEW s, Good(s)
  PROVE  /\ s.tstate \in [AllThreads -> {"None", "Run", "Ready", "Busy", "Done"}]
         /\ s.prio \in [AllThreads -> Prios] /\ s.proc \in [AllThreads -> ProcPtr]
         /\ s.time \in [AllThreads -> Times] /\ s.start \in [AllThreads -> Times]
         /\ s.pstate \in [Procs -> {"None", "Waiting", "Running", "Busy"}]
         /\ s.bt \in [Procs -> Threads \cup {NULL}]
         /\ s.bad \in BOOLEAN /\ MemOK(s.mem)
         /\ \A t \in AllThreads : s.tstate[t] = "Ready" => s.proc[t] \in Procs
  BY DEF Good, ObjOK, Homed, ReadySet

(* The next thread leaves its queue and joins the current processor.       *)
TakenNext(s, z, p, t) ==
  /\ t \in AllThreads /\ s.tstate[t] = "Ready"
  /\ s.proc[t] \in Procs /\ Owner[s.proc[t]] = Owner[p]
  /\ \A u \in AllThreads : s.tstate[u] = "Ready" /\ Owner[s.proc[u]] = Owner[p]
                             => s.prio[u] <= s.prio[t]
  /\ Good(z) /\ z.tstate = [s.tstate EXCEPT ![t] = "Run"]
  /\ z.prio = s.prio /\ z.pstate = s.pstate /\ z.bt = s.bt

LEMMA TakeNext ==
  ASSUME NEW s, Good(s), NEW p \in Procs, NEW t, t = NextReady(s, p), t # NULL
  PROVE  /\ TakenNext(s, GetReady(s, p), p, t) /\ GetReady(s, p).proc = s.proc
         /\ LET z == SetProc(GetReady(s, p), t, p)
            IN  TakenNext(s, z, p, t) /\ z.proc = [s.proc EXCEPT ![t] = p]
<1> DEFINE y == GetReady(s, p)
           z == SetProc(y, t, p)
<1>1. /\ t \in OnOwner(s, Owner[p]) /\ t \in AllThreads
      /\ \A u \in OnOwner(s, Owner[p]) : s.prio[u] <= s.prio[t]
  BY NextReadyFacts
<1>2. /\ s.tstate[t] = "Ready" /\ s.proc[t] \in Procs /\ Owner[s.proc[t]] = Owner[p]
      /\ \A u \in AllThreads : s.tstate[u] = "Ready" /\ Owner[s.proc[u]] = Owner[p]
                                 => s.prio[u] <= s.prio[t]
  BY <1>1, FieldTypes DEF OnOwner, ReadySet
<1>3. /\ Good(y) /\ y.tstate = [s.tstate EXCEPT ![t] = "Run"]
      /\ y.prio = s.prio /\ y.proc = s.proc /\ y.pstate = s.pstate /\ y.bt = s.bt
  BY GetReadyGood
<1> HIDE DEF y
<1>4. t \notin ReadySet(y)
  BY <1>1, <1>3, FieldTypes DEF ReadySet
<1>5. /\ Good(z) /\ z.proc = [y.proc EXCEPT ![t] = p]
      /\ z.tstate = y.tstate /\ z.prio = y.prio /\ z.pstate = y.pstate /\ z.bt = y.bt
  <2>1. \A r \in Procs : (t \in ReadySet(y) => Owner[r] = Owner[y.proc[t]]) =>
          LET w == SetProc(y, t, r)
          IN  /\ Good(w) /\ w.proc = [y.proc EXCEPT ![t] = r]
              /\ w.tstate = y.tstate /\ w.prio = y.prio /\ w.pstate = y.pstate /\ w.bt = y.bt
    BY ONLY <1>1, <1>3, FieldsGood
  <2>2. QED
    BY <1>4, <2>1
<1> HIDE DEF z
<1>6. TakenNext(s, y, p, t) /\ TakenNext(s, z, p, t)
  BY <1>1, <1>2, <1>3, <1>5 DEF TakenNext
<1>7. QED
  BY <1>3, <1>5, <1>6 DEF y, z

(* A thread that runs or is blocked is made ready on its own processor,    *)
(* and the processor is scheduled.                                         *)
Readied(s, z, t) ==
  /\ Good(z)
  /\ z.tstate = IF s.tstate[t] = "Run" THEN [s.tstate EXCEPT ![t] = "Ready"] ELSE s.tstate
  /\ z.prio = s.prio /\ z.proc = s.proc /\ z.bt = s.bt
  /\ z.pstate = [s.pstate EXCEPT ![s.proc[t]] = "Running"]

LEMMA SwitchReadyGood ==
  ASSUME NEW s, Good(s), NEW t \in AllThreads, s.proc[t] \in Procs, s.tstate[t] # "Busy"
  PROVE  Readied(s, SwitchReady(s, t), t)
<1> DEFINE y == AddReady(s, s.proc[t], t)
           z == AddProc(y, s.proc[t])
<1>1. /\ Good(y) /\ y.prio = s.prio /\ y.proc = s.proc /\ y.pstate = s.pstate /\ y.bt = s.bt
      /\ y.tstate = IF s.tstate[t] \in {"Run", "Busy"} THEN [s.tstate EXCEPT ![t] = "Ready"] ELSE s.tstate
  BY AddReadyGood
<1> HIDE DEF y
<1>2. /\ Good(z) /\ z.pstate = [y.pstate EXCEPT ![s.proc[t]] = "Running"]
      /\ z.tstate = y.tstate /\ z.prio = y.prio /\ z.proc = y.proc /\ z.bt = y.bt
  BY <1>1, AddProcGood
<1> HIDE DEF z
<1>3. Readied(s, z, t)
  BY <1>1, <1>2 DEF Readied
<1>4. QED
  BY <1>3 DEF SwitchReady, y, z

(* add_thread_to_proc does the same when no processor is busy.             *)
LEMMA AddThreadGood ==
  ASSUME NEW s, Good(s), NEW t \in AllThreads, s.proc[t] \in Procs, s.tstate[t] # "Busy",
         s.pstate[s.proc[t]] # "Busy", NEW x
  PROVE  Readied(s, AddThreadToProc(s, t, x), t)
<1>1. AddThreadToProc(s, t, x) = SwitchReady(s, t)
  BY DEF AddThreadToProc, SwitchReady
<1>2. QED
  BY <1>1, SwitchReadyGood

(* A new thread.                                                           *)
Made(s, z, t, p, i) ==
  /\ Good(z) /\ z.tstate = [s.tstate EXCEPT ![t] = "Ready"]
  /\ z.proc = [s.proc EXCEPT ![t] = p] /\ z.prio = [s.prio EXCEPT ![t] = i]
  /\ z.pstate = s.pstate /\ z.bt = s.bt

LEMMA CreateGood ==
  ASSUME NEW s, Good(s), NEW t \in AllThreads, s.tstate[t] = "None", NEW p \in Procs, NEW i \in Prios,
         NEW z, z = AddReady([s EXCEPT !.tstate[t] = "Run", !.proc[t] = p, !.prio[t] = i], p, t)
  PROVE  Made(s, z, t, p, i)
<1> DEFINE y == [s EXCEPT !.tstate[t] = "Run", !.proc[t] = p, !.prio[t] = i]
<1>0. z = AddReady(y, p, t)
  OBVIOUS
<1>1. /\ Good(y) /\ y.tstate = [s.tstate EXCEPT ![t] = "Run"]
      /\ y.proc = [s.proc EXCEPT ![t] = p] /\ y.prio = [s.prio EXCEPT ![t] = i]
      /\ y.pstate = s.pstate /\ y.bt = s.bt
  <2>1. \A r \in Procs, j \in Prios : s.tstate[t] = "None" =>
          LET w == [s EXCEPT !.tstate[t] = "Run", !.proc[t] = r, !.prio[t] = j]
          IN  /\ Good(w) /\ w.tstate = [s.tstate EXCEPT ![t] = "Run"]
              /\ w.proc = [s.proc EXCEPT ![t] = r] /\ w.prio = [s.prio EXCEPT ![t] = j]
              /\ w.pstate = s.pstate /\ w.bt = s.bt
    BY ONLY Good(s), t \in AllThreads, FieldsGood
  <2>2. QED
    BY <2>1
<1> HIDE DEF y
<1>2. y.proc[t] = p /\ y.tstate[t] = "Run"
  BY <1>1, FieldTypes
<1>3. /\ Good(z) /\ z.tstate = [y.tstate EXCEPT ![t] = "Ready"]
      /\ z.prio = y.prio /\ z.proc = y.proc /\ z.pstate = y.pstate /\ z.bt = y.bt
  BY <1>0, <1>1, <1>2, AddReadyGood
<1>4. z.tstate = [s.tstate EXCEPT ![t] = "Ready"]
  BY <1>1, <1>3, FieldTypes
<1>5. QED
  BY <1>1, <1>3, <1>4 DEF Made

-----------------------------------------------------------------------------
(* What the invariant says about the queues.                               *)

LEMMA QueuesHold ==
  ASSUME Good(obj)
  PROVE  /\ \A q \in ReadyQueues : Contents(obj.mem, q) = Members(obj, q) /\ WellFormed(q)
         /\ ReadyIffQueued
<1>1. ObjOK(obj) /\ Homed(obj) /\ Counted(obj) /\ MemOK(obj.mem)
  BY DEF Good, ObjOK
<1>2. PICK k, n : Tickets(obj, k, n)
  BY DEF Good
<1>3. ASSUME NEW q \in ReadyQueues
      PROVE  Contents(obj.mem, q) = Members(obj, q) /\ WellFormed(q)
  <2>1. /\ Line(obj.mem, q, Members(obj, q), k) /\ Distinct(Members(obj, q), k)
        /\ k \in [AllThreads -> Nat] /\ Members(obj, q) \in SUBSET AllThreads
    BY <1>2, MembersFacts DEF Tickets
  <2>2. /\ Contents(obj.mem, q) = Members(obj, q)
        /\ Acyclic(obj.mem, q)
        /\ obj.mem.tail[q] = IF Length(obj.mem, q) = 0 THEN NULL
                             ELSE Item(obj.mem, q, Length(obj.mem, q) - 1)
    BY ONLY <1>1, <1>3, <2>1, LineContents
  <2>3. QED
    BY ONLY <2>2 DEF WellFormed
<1>4. ASSUME NEW t \in AllThreads, NEW q \in ReadyQueues
      PROVE  t \in Contents(obj.mem, q) <=>
               obj.tstate[t] = "Ready" /\ q = ReadyQ(obj.proc[t], obj.prio[t])
  BY <1>3 DEF Members, ReadySet
<1>5. ASSUME NEW p \in Procs, Owner[p] = p
      PROVE  obj.count[p] = Cardinality(UNION {Contents(obj.mem, ReadyQ(p, i)) : i \in Prios})
  <2> DEFINE U == UNION {Contents(obj.mem, ReadyQ(p, i)) : i \in Prios}
  <2>1. ASSUME NEW t \in U PROVE t \in OnOwner(obj, p)
    <3>1. PICK i \in Prios : t \in Contents(obj.mem, ReadyQ(p, i))
      OBVIOUS
    <3>2. t \in Members(obj, ReadyQ(p, i))
      BY <1>3, <3>1, Distinctness
    <3>3. t \in ReadySet(obj) /\ ReadyQ(obj.proc[t], obj.prio[t]) = ReadyQ(p, i)
      BY <3>2 DEF Members
    <3>4. obj.proc[t] \in Procs /\ obj.prio[t] \in Prios
      BY <1>1, <3>3, QueueOf
    <3>5. Owner[obj.proc[t]] = Owner[p]
      BY <3>3, <3>4, Distinctness
    <3>6. QED
      BY <1>5, <3>3, <3>5 DEF OnOwner
  <2>2. ASSUME NEW t \in OnOwner(obj, p) PROVE t \in U
    <3>1. t \in ReadySet(obj) /\ Owner[obj.proc[t]] = p
      BY DEF OnOwner
    <3>2. obj.proc[t] \in Procs /\ obj.prio[t] \in Prios
      BY <1>1, <3>1, QueueOf
    <3>3. ReadyQ(obj.proc[t], obj.prio[t]) = ReadyQ(p, obj.prio[t])
      BY <1>5, <3>1 DEF ReadyQ
    <3>4. t \in Members(obj, ReadyQ(p, obj.prio[t]))
      BY <3>1, <3>3 DEF Members
    <3>5. t \in Contents(obj.mem, ReadyQ(p, obj.prio[t]))
      BY <1>3, <3>2, <3>4, Distinctness
    <3>6. QED
      BY <3>2, <3>5
  <2>3. U = OnOwner(obj, p)
    BY <2>1, <2>2
  <2> HIDE DEF U
  <2>4. obj.count[p] = Cardinality(OnOwner(obj, p))
    BY <1>1 DEF Counted
  <2>5. QED
    BY <2>3, <2>4 DEF U
<1>6. QED
  BY <1>3, <1>4, <1>5 DEF ReadyIffQueued

-----------------------------------------------------------------------------
(* What a step may do to the threads.  Every action below is shown to have *)
(* one of six effects, from which the rest follows.                        *)

(* The effects on a thread that neither gives up nor takes over.           *)
Kept(u) ==
  obj'.tstate[u] = obj.tstate[u] /\ obj'.proc[u] = obj.proc[u] /\ obj'.prio[u] = obj.prio[u]
Created(u) ==
  /\ u \in Threads /\ obj.tstate[u] = "None" /\ obj'.tstate[u] = "Ready" /\ obj'.proc[u] \in Procs
  /\ obj'.proc[u] = IF frame[cur].at = "create" THEN frame[cur].tgt ELSE curproc
Woken(u) ==
  /\ u \in Threads /\ obj.tstate[u] = "Run" /\ frame[u].at \in Resting
  /\ frame[u].at = "wait" => phase = "reap" /\ cur = frame[u].tgt
  /\ obj'.tstate[u] = "Ready" /\ obj'.proc[u] = obj.proc[u]
Killed(u) ==
  /\ "kill" \in Ops /\ u \in Threads /\ obj.tstate[u] # "None"
  /\ obj'.tstate[u] = "Done" /\ obj'.proc[u] = obj.proc[u]

(* A suspended thread with frame f goes on with frame g.                   *)
Resumed(f, g) == g.at \notin Resting /\ g = IF f.at \in Resting THEN Idle ELSE f

(* t is the first among the ready threads of the current processor.        *)
First(t) ==
  /\ t \in AllThreads \ {cur} /\ obj.tstate[t] = "Ready" /\ Owner[obj.proc[t]] = Owner[curproc]
  /\ \A u \in AllThreads \ {cur} :
       obj.tstate[u] = "Ready" /\ Owner[obj.proc[u]] = Owner[curproc] => obj.prio[u] <= obj.prio[t]
  /\ obj'.tstate[t] = "Run" /\ obj'.prio[t] = obj.prio[t]
  /\ obj'.proc[t] \in Procs /\ Owner[obj'.proc[t]] = Owner[curproc]
  /\ obj'.proc[t] \in {obj.proc[t], curproc}
  /\ t \in Threads => frame'[t].at \notin Resting /\ Resumed(frame[t], frame'[t])

(* The running thread blocks with frame g where it can be found again.     *)
Parked(g) ==
  /\ g.at = "delay" => cur \in Elems(delayq')
  /\ g.at = "wait" => /\ g.tgt \in Threads \ {cur} /\ Alive(g.tgt)
                      /\ cur \in Elems(waiters'[g.tgt])

(* The running thread makes a call and runs on.                            *)
Called ==
  /\ phase \in UserPhases /\ phase' \in UserPhases /\ (phase' = "reap" => locked')
  /\ phase = "reap" => phase' = "reap"
  /\ cur' = cur /\ curproc' = curproc
  /\ obj'.tstate[cur] = "Run" /\ obj'.proc[cur] = obj.proc[cur]
  /\ \A u \in AllThreads \ {cur} : Kept(u) \/ Created(u) \/ Woken(u) \/ Killed(u)
  /\ \A u \in Threads \ {cur} : frame'[u] = frame[u]
  /\ frame'[cur].at \notin Resting

(* The running thread gives way to t.                                      *)
GaveWay(t) ==
  /\ phase \in UserPhases /\ curproc' = curproc
  /\ First(t)
  /\ cur' = t /\ phase' = (IF t = MAIN THEN "sched" ELSE "user") /\ locked' = (t = MAIN)
  /\ obj'.tstate[cur] \in {"Run", "Ready", "Done"} /\ obj'.proc[cur] \in Procs
  /\ obj'.proc[cur] = obj.proc[cur]
  /\ IF obj'.tstate[cur] = "Run"
     THEN frame'[cur].at \in Resting /\ Parked(frame'[cur]) /\ frame[cur].at = "user"
     ELSE frame'[cur].at \notin Resting /\ frame'[cur] = frame[cur]
  /\ IF phase = "reap" THEN obj'.tstate[cur] = "Done" /\ waiters[cur] = <<>>
                       ELSE obj'.tstate[cur] # "Done"
  /\ \A u \in AllThreads \ {cur, t} : Kept(u)
  /\ \A u \in Threads \ {cur, t} : frame'[u] = frame[u]

(* The running thread switches to its own stack.                           *)
Stuck ==
  /\ phase = "user" /\ phase' = "self_switch" /\ cur' = cur /\ curproc' = curproc
  /\ "setprio" \in Ops /\ frame[cur].at = "user"
  /\ obj'.tstate[cur] = "Run" /\ obj'.proc[cur] \in Procs /\ obj'.proc[cur] \in {obj.proc[cur], curproc}
  /\ \A u \in AllThreads \ {cur} : Kept(u)
  /\ frame' = frame

(* The running thread asks for shutdown.                                   *)
Left ==
  /\ phase = "user" /\ phase' = "sched" /\ cur' = MAIN /\ curproc' = curproc /\ locked' /\ shutdown'
  /\ obj'.tstate[cur] = "Ready" /\ obj'.proc[cur] = obj.proc[cur]
  /\ \A u \in AllThreads \ {cur} : Kept(u)
  /\ frame' = frame

(* The scheduler lets t run.                                               *)
Dispatched(t) ==
  /\ phase = "sched" /\ phase' = "user" /\ curproc' = curproc
  /\ First(t) /\ t # MAIN /\ cur' = t /\ ~locked'
  /\ obj'.tstate[MAIN] = "Ready" /\ obj'.proc[MAIN] = curproc /\ obj'.prio[MAIN] = obj.prio[MAIN]
  /\ \A u \in AllThreads \ {MAIN, t} : Kept(u)
  /\ \A u \in Threads \ {t} : frame'[u] = frame[u]

(* The scheduler looks for another processor, lets time pass or ends.      *)
Scheduled ==
  /\ phase \in MainPhases /\ phase' \in MainPhases \cup {"exit"}
  /\ cur' = cur /\ locked' = locked /\ shutdown' = shutdown
  /\ (phase' = "sched" => curproc' \in Procs) /\ (shutdown => phase' = "exit")
  /\ \A u \in AllThreads : Kept(u) \/ Woken(u)
  /\ frame' = frame

Effect ==
  \/ Called \/ Stuck \/ Left \/ Scheduled
  \/ \E t \in AllThreads : GaveWay(t) \/ Dispatched(t)

(* Only the running thread joins a list, and is not done when it does.     *)
InList(t) == t \in Elems(delayq) \/ \E u \in Threads : t \in Elems(waiters[u])
Joined ==
  \A t \in Threads : InList(t)' => InList(t) \/ (t = cur /\ obj'.tstate[t] = "Run")

(* A thread that goes on being blocked stays in the lists it is in.        *)
Held ==
  /\ \A t \in Threads :
       obj.tstate[t] = "Run" /\ obj'.tstate[t] = "Run" =>
         /\ t \in Elems(delayq) => t \in Elems(delayq')
         /\ \A u \in Threads : t \in Elems(waiters[u]) => t \in Elems(waiters'[u])
  /\ Joined

LEMMA HeldSame ==
  ASSUME UNCHANGED <<waiters, delayq>>
  PROVE  Held
  BY DEF Held, Joined, InList

LEMMA TurnsKept ==
  ASSUME KI, Effect
  PROVE  Turns'
<1>1. /\ MAIN \in AllThreads /\ MAIN \notin Threads /\ NULL \notin AllThreads /\ Threads \subseteq AllThreads
      /\ \A u \in AllThreads : u \in Threads \/ u = MAIN
  BY ProcAssumption DEF AllThreads
<1>2. /\ \A t \in AllThreads : obj.tstate[t] # "Busy"
      /\ \A t \in Threads : obj.tstate[t] # "None" => obj.proc[t] \in Procs
      /\ obj.tstate[MAIN] \in {"Run", "Ready"} /\ obj.prio[MAIN] = 0
  BY DEF KI, Turns, Untimed
<1>3. phase \in UserPhases =>
        /\ cur \in Threads /\ obj.tstate[cur] = "Run"
        /\ curproc \in Procs /\ Owner[obj.proc[cur]] = Owner[curproc]
        /\ obj.tstate[MAIN] = "Ready" /\ Owner[obj.proc[MAIN]] = Owner[curproc]
  BY DEF KI, Turns, UserTurn
<1>4. phase \in MainPhases =>
        /\ cur \in {MAIN, NULL} /\ (phase = "sched" => curproc \in Procs)
        /\ ~shutdown => obj.tstate[MAIN] = "Run"
        /\ cur # NULL /\ PreemptOkay => locked
  BY DEF KI, Turns, MainTurn
<1>5. ASSUME NEW u \in AllThreads, Kept(u) \/ Created(u) \/ Woken(u) \/ Killed(u)
      PROVE  /\ obj'.tstate[u] # "Busy"
             /\ u \in Threads /\ obj'.tstate[u] # "None" => obj'.proc[u] \in Procs
             /\ u = MAIN => Kept(u)
  BY <1>1, <1>2, <1>5 DEF Kept, Created, Woken, Killed
<1>6. CASE Called
  <2>1. cur \in Threads /\ Kept(MAIN)
    BY <1>1, <1>3, <1>5, <1>6 DEF Called
  <2>2. Untimed'
    BY <1>1, <1>2, <1>3, <1>5, <1>6, <2>1 DEF Called, Untimed, Kept
  <2>3. UserTurn'
    BY <1>3, <1>6, <2>1 DEF Called, UserTurn, Kept
  <2>4. MainTurn' /\ Reaping'
    BY <1>6 DEF Called, MainTurn, Reaping, UserPhases, MainPhases
  <2>5. QED
    BY <2>2, <2>3, <2>4 DEF Turns
<1>7. ASSUME NEW t \in AllThreads, GaveWay(t) PROVE Turns'
  <2>1. cur \in Threads /\ t # cur /\ (t = MAIN \/ (t \in Threads /\ Kept(MAIN)))
    BY <1>1, <1>3, <1>7 DEF GaveWay, First
  <2>2. Untimed'
    BY <1>1, <1>2, <1>5, <1>7, <2>1 DEF GaveWay, First, Untimed, Kept
  <2>3. UserTurn'
    BY <1>1, <1>3, <1>7, <2>1 DEF GaveWay, First, UserTurn, Kept, UserPhases
  <2>4. MainTurn' /\ Reaping'
    BY <1>1, <1>3, <1>7, <2>1 DEF GaveWay, First, MainTurn, Reaping, UserPhases, MainPhases
  <2>5. QED
    BY <2>2, <2>3, <2>4 DEF Turns
<1>8. CASE Stuck
  <2>1. cur \in Threads /\ Kept(MAIN)
    BY <1>1, <1>3, <1>8 DEF Stuck, UserPhases
  <2>2. Untimed'
    BY <1>1, <1>2, <1>5, <1>8, <2>1 DEF Stuck, Untimed, Kept
  <2>3. UserTurn' /\ MainTurn' /\ Reaping'
    BY <1>8 DEF Stuck, UserTurn, MainTurn, Reaping, UserPhases, MainPhases
  <2>4. QED
    BY <2>2, <2>3 DEF Turns
<1>9. CASE Left
  <2>1. cur \in Threads /\ Kept(MAIN) /\ curproc \in Procs
    BY <1>1, <1>3, <1>9 DEF Left, UserPhases
  <2>2. Untimed'
    BY <1>1, <1>2, <1>3, <1>5, <1>9, <2>1 DEF Left, Untimed, Kept, UserPhases
  <2>3. UserTurn' /\ MainTurn' /\ Reaping'
    BY <1>9, <2>1 DEF Left, UserTurn, MainTurn, Reaping, UserPhases, MainPhases
  <2>4. QED
    BY <2>2, <2>3 DEF Turns
<1>10. ASSUME NEW t \in AllThreads, Dispatched(t) PROVE Turns'
  <2>1. t \in Threads /\ curproc \in Procs
    BY <1>1, <1>4, <1>10 DEF Dispatched, MainPhases
  <2>2. Untimed'
    BY <1>1, <1>2, <1>5, <1>10, <2>1 DEF Dispatched, First, Untimed, Kept
  <2>3. UserTurn' /\ MainTurn' /\ Reaping'
    BY <1>10, <2>1 DEF Dispatched, First, UserTurn, MainTurn, Reaping, UserPhases, MainPhases
  <2>4. QED
    BY <2>2, <2>3 DEF Turns
<1>11. CASE Scheduled
  <2>1. Kept(MAIN)
    BY <1>1, <1>5, <1>11 DEF Scheduled
  <2>2. Untimed'
    BY <1>1, <1>2, <1>5, <1>11, <2>1 DEF Scheduled, Untimed, Kept
  <2>3. PreemptOkay' = PreemptOkay
    BY DEF PreemptOkay
  <2>4. UserTurn' /\ MainTurn' /\ Reaping'
    BY <1>4, <1>11, <2>1, <2>3 DEF Scheduled, UserTurn, MainTurn, Reaping, UserPhases, MainPhases, Kept
  <2>5. QED
    BY <2>2, <2>4 DEF Turns
<1>12. QED
  BY <1>6, <1>7, <1>8, <1>9, <1>10, <1>11 DEF Effect

-----------------------------------------------------------------------------
(* The calls that do not switch threads.                                   *)

LEMMA ThreadFacts ==
  /\ MAIN \in AllThreads /\ MAIN \notin Threads /\ NULL \notin AllThreads /\ Threads \subseteq AllThreads
  /\ \A u \in AllThreads : u \in Threads \/ u = MAIN
  BY ProcAssumption DEF AllThreads

LEMMA UserFacts ==
  ASSUME KI, phase \in UserPhases
  PROVE  /\ cur \in Threads /\ cur \in AllThreads /\ cur # MAIN
         /\ obj.tstate[cur] = "Run" /\ frame[cur].at \notin Resting
         /\ curproc \in Procs /\ obj.proc[cur] \in Procs /\ Owner[obj.proc[cur]] = Owner[curproc]
         /\ obj.tstate[MAIN] = "Ready" /\ obj.proc[MAIN] \in Procs
         /\ Owner[obj.proc[MAIN]] = Owner[curproc]
         /\ \A p \in Procs : obj.pstate[p] # "Busy" /\ obj.bt[p] = NULL
         /\ \A t \in AllThreads : obj.tstate[t] # "Busy"
         /\ \A t \in Threads : obj.tstate[t] # "None" => obj.proc[t] \in Procs
  BY ThreadFacts, FieldTypes DEF KI, Turns, UserTurn, Untimed, IdleProcs

(* A thread that is blocked in a list stays there, or is killed; a thread  *)
(* that is done stays done.                                                *)
Still(t) ==
  /\ obj.tstate[t] = "Done" => obj'.tstate[t] = "Done"
  /\ obj.tstate[t] = "Run" /\ frame[t].at \in {"wait", "delay"} =>
       obj'.tstate[t] = "Done" \/ (obj'.tstate[t] = "Run" /\ frame'[t] = frame[t])

LEMMA WaitingKept ==
  ASSUME KI, waiters' = waiters, \A t \in Threads : Still(t)
  PROVE  Waiting'
<1>1. /\ waiters \in [Threads -> Seq(Threads)] /\ Waiting
  BY DEF KI, Rest, Lists
<1>2. ASSUME NEW u \in Threads, NEW i \in 1..Len(waiters[u])
      PROVE  LET n == waiters[u][i]
             IN  Blocked(n, "wait")' /\ (obj'.tstate[n] = "Run" => frame'[n].tgt = u)
  <2>1. waiters[u][i] \in Threads
    BY <1>1
  <2>2. PICK n \in Threads : n = waiters[u][i]
    BY <2>1
  <2>3. Blocked(n, "wait") /\ (obj.tstate[n] = "Run" => frame[n].tgt = u)
    BY <1>1, <2>2 DEF Waiting
  <2>4. Blocked(n, "wait")' /\ (obj'.tstate[n] = "Run" => frame'[n].tgt = u)
    BY <2>3 DEF Blocked, Still
  <2>5. QED
    BY <2>2, <2>4 DEF Blocked
<1>3. QED
  BY <1>1, <1>2 DEF Waiting, Blocked

LEMMA DelayedKept ==
  ASSUME KI, delayq' = delayq, \A t \in Threads : Still(t)
  PROVE  Delayed'
<1>1. delayq \in Seq(Threads) /\ Delayed
  BY DEF KI, Rest, Lists
<1>2. ASSUME NEW i \in 1..Len(delayq) PROVE Blocked(delayq[i], "delay")'
  <2>1. PICK n \in Threads : n = delayq[i]
    BY <1>1
  <2>2. Blocked(n, "delay")
    BY <1>1, <2>1 DEF Delayed
  <2>3. Blocked(n, "delay")'
    BY <2>2 DEF Blocked, Still
  <2>4. QED
    BY <2>1, <2>3 DEF Blocked
<1>3. QED
  BY <1>1, <1>2 DEF Delayed

LEMMA StepKI ==
  ASSUME KI, Good(obj'), Rest', Frames', IdleProcs', Lists', Effect
  PROVE  KI'
  BY TurnsKept DEF KI

(* A call that wakes or kills threads and sets the caller's frame.         *)
PlainCall ==
  /\ phase = "user" /\ phase \in UserPhases /\ phase' \in UserPhases /\ (phase' = "reap" => locked')
  /\ Good(obj') /\ IdleProcs' /\ Frames'
  /\ cur' = cur /\ curproc' = curproc /\ locked' \in BOOLEAN
  /\ UNCHANGED <<waiters, valid, now, delayq, busyq, shutdown>>
  /\ obj'.tstate[cur] = "Run" /\ obj'.proc[cur] = obj.proc[cur]
  /\ \A u \in AllThreads \ {cur} :
       Kept(u) \/ Created(u) \/ Killed(u) \/ (Woken(u) /\ frame[u].at = "sleep")
  /\ \A u \in Threads \ {cur} : frame'[u] = frame[u]
  /\ frame'[cur].at \notin Resting

LEMMA PlainCallKI ==
  ASSUME KI, PlainCall
  PROVE  KI' /\ Effect
<1>1. cur \in Threads /\ obj.tstate[cur] = "Run" /\ frame[cur].at \notin Resting
  BY UserFacts DEF PlainCall
<1>2. Called
  BY DEF Called, PlainCall
<1>3. Effect
  BY <1>2 DEF Effect
<1>4. \A t \in Threads : Still(t)
  BY <1>1, ThreadFacts DEF PlainCall, Still, Kept, Created, Killed, Woken, Resting
<1>5. Lists'
  BY <1>4, WaitingKept, DelayedKept DEF PlainCall, Lists
<1>6. Rest'
  BY DEF PlainCall, KI, Rest, UserPhases
<1>7. KI'
  BY <1>3, <1>5, <1>6, StepKI DEF PlainCall
<1>8. QED
  BY <1>3, <1>7

LEMMA FramesSame ==
  ASSUME KI, frame' = frame
  PROVE  Frames'
  BY DEF KI, Frames

LEMMA LockKI ==
  ASSUME KI, Lock \/ Unlock \/ Terminate
  PROVE  KI' /\ Effect
<1>1. phase = "user" /\ phase \in UserPhases /\ frame' = frame /\ obj' = obj
  BY DEF Lock, Unlock, Terminate, Calls, UserPhases
<1>2. Good(obj') /\ IdleProcs'
  BY <1>1 DEF KI, IdleProcs
<1>3. Frames'
  BY <1>1, FramesSame
<1>4. \A u \in AllThreads : Kept(u)
  BY <1>1 DEF Kept
<1>5. PlainCall
  BY <1>1, <1>2, <1>3, <1>4, UserFacts
     DEF PlainCall, Lock, Unlock, Terminate, Calls, UserPhases, timeVars
<1>6. QED
  BY <1>5, PlainCallKI

LEMMA UserPriosOK ==
  ASSUME NEW pr \in UserPrios, NEW c \in Prios
  PROVE  (IF pr < 0 THEN c ELSE pr) \in Prios
  BY ProcAssumption DEF UserPrios, ConvertPriority, Prios

LEMMA CreateKI ==
  ASSUME KI, phase \in UserPhases, NEW p \in Procs, NEW t \in Threads, NEW pr \in UserPrios,
         Create(p, t, pr), p = IF frame[cur].at = "create" THEN frame[cur].tgt ELSE curproc
  PROVE  /\ Good(obj') /\ IdleProcs' /\ locked' \in BOOLEAN
         /\ obj'.tstate[cur] = "Run" /\ obj'.proc[cur] = obj.proc[cur]
         /\ \A u \in AllThreads \ {cur} : Kept(u) \/ Created(u)
<1> DEFINE i == IF pr < 0 THEN obj.prio[cur] ELSE pr
<1>1. /\ Good(obj) /\ t \in AllThreads /\ obj.tstate[t] = "None"
      /\ obj.tstate \in [AllThreads -> {"None", "Run", "Ready", "Busy", "Done"}]
      /\ obj.prio \in [AllThreads -> Prios] /\ obj.proc \in [AllThreads -> ProcPtr]
  BY FieldTypes, ThreadFacts DEF KI, Create
<1>2. i \in Prios
  BY <1>1, UserFacts, UserPriosOK
<1>3. obj' = AddReady([obj EXCEPT !.tstate[t] = "Run", !.proc[t] = p, !.prio[t] = i], p, t)
  BY DEF Create
<1> HIDE DEF i
<1>4. /\ Good(obj') /\ obj'.tstate = [obj.tstate EXCEPT ![t] = "Ready"]
      /\ obj'.proc = [obj.proc EXCEPT ![t] = p] /\ obj'.prio = [obj.prio EXCEPT ![t] = i]
      /\ obj'.pstate = obj.pstate /\ obj'.bt = obj.bt
  <2>1. p \in Procs
    OBVIOUS
  <2>2. Made(obj, obj', t, p, i)
    BY ONLY <1>1, <1>2, <1>3, <2>1, CreateGood
  <2>3. QED
    BY ONLY <2>2 DEF Made
<1>5. IdleProcs'
  BY <1>4 DEF KI, IdleProcs
<1>6. cur \in AllThreads /\ cur # t
  BY <1>1, UserFacts
<1>7. \A u \in AllThreads : u # t => Kept(u)
  BY <1>1, <1>4 DEF Kept
<1>8. Created(t)
  BY <1>1, <1>4 DEF Created
<1>9. Kept(cur) /\ obj.tstate[cur] = "Run"
  BY <1>6, <1>7, UserFacts
<1>10. locked' \in BOOLEAN
  BY DEF Create
<1>11. QED
  BY <1>4, <1>5, <1>7, <1>8, <1>9, <1>10 DEF Kept

LEMMA SpawnKI ==
  ASSUME KI, NEW t \in Threads, NEW pr \in UserPrios, Spawn(t, pr)
  PROVE  KI' /\ Effect
<1>1. /\ phase = "user" /\ phase \in UserPhases /\ frame' = frame /\ Create(curproc, t, pr)
      /\ frame[cur].at = "user"
  BY DEF Spawn, Calls, UserPhases
<1>2. Frames'
  BY <1>1, FramesSame
<1>3. /\ Good(obj') /\ IdleProcs' /\ locked' \in BOOLEAN
      /\ obj'.tstate[cur] = "Run" /\ obj'.proc[cur] = obj.proc[cur]
      /\ \A u \in AllThreads \ {cur} : Kept(u) \/ Created(u)
  BY <1>1, UserFacts, CreateKI
<1>4. PlainCall
  BY <1>1, <1>2, <1>3, UserFacts DEF PlainCall, Spawn, Calls, UserPhases, timeVars
<1>5. QED
  BY <1>4, PlainCallKI

(* The caller's frame changes, and no other.                               *)
LEMMA FrameSet ==
  ASSUME KI, phase \in UserPhases, NEW g \in FrameType, frame' = [frame EXCEPT ![cur] = g],
         Proper(g)
  PROVE  Frames' /\ frame'[cur] = g /\ \A u \in Threads \ {cur} : frame'[u] = frame[u]
  BY UserFacts DEF KI, Frames

LEMMA IdleFrame == Idle \in FrameType /\ Idle.at = "user" /\ Proper(Idle)
<1>1. NoInsert \in InsertType
  BY DEF NoInsert, InsertType
<1>2. QED
  BY <1>1, ProcAssumption
     DEF Idle, FrameType, Times, Proper, InAddReady, InAddProc, InQueueAdd

LEMMA SpawnOnCreateKI ==
  ASSUME KI, NEW t \in Threads, NEW pr \in UserPrios, SpawnOnCreate(t, pr)
  PROVE  KI' /\ Effect
<1>1. /\ phase = "user" /\ phase \in UserPhases /\ frame' = [frame EXCEPT ![cur] = Idle]
      /\ Create(frame[cur].tgt, t, pr) /\ frame[cur].at = "create"
  BY DEF SpawnOnCreate, UserPhases
<1>2. Frames' /\ frame'[cur] = Idle /\ \A u \in Threads \ {cur} : frame'[u] = frame[u]
  BY <1>1, IdleFrame, FrameSet
<1>3. frame[cur].tgt \in Procs
  BY <1>1, UserFacts DEF KI, Frames, Proper
<1>4. /\ Good(obj') /\ IdleProcs' /\ locked' \in BOOLEAN
      /\ obj'.tstate[cur] = "Run" /\ obj'.proc[cur] = obj.proc[cur]
      /\ \A u \in AllThreads \ {cur} : Kept(u) \/ Created(u)
  BY <1>1, <1>3, CreateKI
<1>5. PlainCall
  BY <1>1, <1>2, <1>4, UserFacts, IdleFrame DEF PlainCall, SpawnOnCreate, UserPhases, timeVars, Resting
<1>6. QED
  BY <1>5, PlainCallKI

(* Calls that only concern processors.                                     *)
LEMMA ProcCallKI ==
  ASSUME KI, phase = "user", phase' = phase, Good(obj'), IdleProcs', Frames',
         obj'.tstate = obj.tstate, obj'.proc = obj.proc, obj'.prio = obj.prio,
         UNCHANGED <<waiters, valid, cur, curproc, locked, timeVars, shutdown>>,
         \A u \in Threads \ {cur} : frame'[u] = frame[u], frame'[cur].at \notin Resting
  PROVE  KI' /\ Effect
<1>1. \A u \in AllThreads : Kept(u)
  BY DEF Kept
<1>2. locked' \in BOOLEAN
  BY DEF KI, Rest
<1>3. PlainCall
  BY <1>1, <1>2, UserFacts DEF PlainCall, UserPhases, timeVars
<1>4. QED
  BY <1>3, PlainCallKI

(* The frames that add_proc starts and ends with.                          *)
LEMMA AddProcFrames ==
  ASSUME NEW p \in Procs, NEW ret \in {"user", "create"}
  PROVE  /\ LET g == Returned(ret, p)
            IN  g \in FrameType /\ Proper(g) /\ g.at = ret /\ (ret = "create" => g.tgt = p)
         /\ LET g == [Idle EXCEPT !.at = "p_test", !.tgt = p, !.ins.ret = ret]
            IN  g \in FrameType /\ Proper(g) /\ g.at = "p_test"
<1>1. /\ Idle \in FrameType /\ Idle.at = "user" /\ Proper(Idle)
      /\ Idle.ins.q = ProcQ /\ Idle.ins.tail = NULL /\ Idle.ins \in InsertType
  BY IdleFrame DEF Idle, NoInsert, FrameType
<1>2. LET g == Returned(ret, p)
      IN  g \in FrameType /\ Proper(g) /\ g.at = ret /\ (ret = "create" => g.tgt = p)
  <2>1. CASE ret = "user"
    BY <1>1, <2>1 DEF Returned
  <2>2. CASE ret = "create"
    BY <1>1, <2>2 DEF Returned, FrameType, Proper, InAddReady, ProcPtr
  <2>3. QED
    BY <2>1, <2>2
<1>3. LET g == [Idle EXCEPT !.at = "p_test", !.tgt = p, !.ins.ret = ret]
      IN  g \in FrameType /\ Proper(g) /\ g.at = "p_test"
  <2> DEFINE n == [Idle.ins EXCEPT !.ret = ret]
             g == [Idle EXCEPT !.at = "p_test", !.tgt = p, !.ins = n]
  <2>1. n \in InsertType /\ n.q = ProcQ /\ n.tail = NULL
    BY <1>1 DEF InsertType
  <2> HIDE DEF n
  <2>2. g \in FrameType /\ g.at = "p_test" /\ g.tgt = p /\ g.ins = n
    BY <1>1, <2>1 DEF FrameType, Inserting, InAddProc
  <2>3. Proper(g)
    BY <2>1, <2>2 DEF Proper, InAddReady, ProcPtr
  <2>4. [Idle EXCEPT !.at = "p_test", !.tgt = p, !.ins.ret = ret] = g
    BY <1>1 DEF n, FrameType
  <2>5. QED
    BY <2>2, <2>3, <2>4
<1>4. QED
  BY <1>2, <1>3

(* add_proc called by pSpawn or make_sharedproc, in one step or begun.     *)
LEMMA AddProcCallKI ==
  ASSUME KI, phase = "user", phase' = phase, NEW s, Good(s), s.tstate = obj.tstate,
         s.proc = obj.proc, s.prio = obj.prio, s.bt = obj.bt, \A q \in Procs : s.pstate[q] # "Busy",
         NEW p \in Procs, NEW ret \in {"user", "create"}, AddProcCall(s, p, ret),
         UNCHANGED <<waiters, valid, cur, curproc, locked, timeVars, shutdown>>
  PROVE  KI' /\ Effect
<1>1. phase \in UserPhases /\ cur \in Threads
  BY UserFacts DEF UserPhases
<1>2. /\ Good(obj') /\ obj'.tstate = obj.tstate /\ obj'.prio = obj.prio /\ obj'.proc = obj.proc
      /\ obj'.bt = obj.bt /\ \A q \in Procs : obj'.pstate[q] # "Busy"
  <2>1. CASE Interruptible
    BY <2>1 DEF AddProcCall
  <2>2. CASE ~Interruptible
    <3>1. obj' = AddProc(s, p)
      BY <2>2 DEF AddProcCall
    <3>2. /\ Good(obj') /\ obj'.tstate = s.tstate /\ obj'.prio = s.prio /\ obj'.proc = s.proc
          /\ obj'.bt = s.bt /\ obj'.pstate = [s.pstate EXCEPT ![p] = "Running"]
      BY <3>1, AddProcGood
    <3>3. QED
      BY <3>2, FieldTypes
  <2>3. QED
    BY <2>1, <2>2
<1>3. IdleProcs'
  BY <1>2 DEF KI, IdleProcs
<1>4. PICK g : /\ g \in FrameType /\ Proper(g) /\ g.at \in {"p_test", ret}
               /\ frame' = [frame EXCEPT ![cur] = g]
  <2>1. CASE Interruptible
    BY <2>1, AddProcFrames DEF AddProcCall
  <2>2. CASE ~Interruptible
    BY <2>2, AddProcFrames DEF AddProcCall
  <2>3. QED
    BY <2>1, <2>2
<1>5. Frames' /\ frame'[cur] = g /\ \A u \in Threads \ {cur} : frame'[u] = frame[u]
  BY <1>1, <1>4, FrameSet
<1>6. frame'[cur].at \notin Resting
  BY <1>4, <1>5 DEF Resting
<1>7. QED
  BY <1>2, <1>3, <1>5, <1>6, ProcCallKI

LEMMA SpawnOnKI ==
  ASSUME KI, NEW p \in Procs, SpawnOn(p)
  PROVE  KI' /\ Effect
<1>1. /\ phase = "user" /\ phase' = phase /\ AddProcCall(obj, p, "create")
      /\ UNCHANGED <<waiters, valid, cur, curproc, locked, timeVars, shutdown>>
  BY DEF SpawnOn, Calls, clusterVars
<1>2. Good(obj) /\ \A q \in Procs : obj.pstate[q] # "Busy"
  BY DEF KI, IdleProcs
<1>3. QED
  BY <1>1, <1>2, AddProcCallKI

LEMMA MakeSharedKI ==
  ASSUME KI, NEW p \in Procs, MakeShared(p)
  PROVE  KI' /\ Effect
<1> DEFINE y == [obj EXCEPT !.pstate[p] = "Waiting"]
<1>1. /\ phase = "user" /\ phase' = phase /\ AddProcCall(y, p, "user")
      /\ UNCHANGED <<waiters, valid, cur, curproc, locked, timeVars, shutdown>>
  BY DEF MakeShared, Calls, clusterVars
<1>2. /\ Good(y) /\ y.tstate = obj.tstate /\ y.prio = obj.prio /\ y.proc = obj.proc
      /\ y.bt = obj.bt /\ y.pstate = [obj.pstate EXCEPT ![p] = "Waiting"]
  BY ProcStateGood DEF KI
<1> HIDE DEF y
<1>3. \A q \in Procs : y.pstate[q] # "Busy"
  BY <1>2, FieldTypes DEF KI, IdleProcs
<1>4. QED
  BY <1>1, <1>2, <1>3, AddProcCallKI

(* The steps of an add_proc that can be interrupted.  They change links of *)
(* processors and the ends of their queue.                                 *)
LEMMA InsertMem ==
  ASSUME Good(obj), NEW x \in Procs, NEW v \in ProcPtr,
         \/ obj' = [obj EXCEPT !.mem.next[x] = v]
         \/ obj' = [obj EXCEPT !.mem.prev[x] = v]
         \/ obj' = [obj EXCEPT !.mem.head[ProcQ] = v]
         \/ obj' = [obj EXCEPT !.mem.tail[ProcQ] = v]
  PROVE  /\ Good(obj') /\ obj'.tstate = obj.tstate /\ obj'.prio = obj.prio /\ obj'.proc = obj.proc
         /\ obj'.bt = obj.bt /\ obj'.pstate = obj.pstate
<1>1. MemOK(obj.mem) /\ ObjOK(obj)
  BY DEF Good, ObjOK
<1>2. PICK a : ProcsOnly(obj.mem, a) /\ obj' = [obj EXCEPT !.mem = a]
  <2>1. CASE obj' = [obj EXCEPT !.mem.next[x] = v]
    BY <1>1, <2>1, ProcLinkOnly DEF ObjOK
  <2>2. CASE obj' = [obj EXCEPT !.mem.prev[x] = v]
    BY <1>1, <2>2, ProcLinkOnly DEF ObjOK
  <2>3. CASE obj' = [obj EXCEPT !.mem.head[ProcQ] = v]
    BY <1>1, <2>3, ProcLinkOnly DEF ObjOK
  <2>4. CASE obj' = [obj EXCEPT !.mem.tail[ProcQ] = v]
    BY <1>1, <2>4, ProcLinkOnly DEF ObjOK
  <2>5. QED
    BY <2>1, <2>2, <2>3, <2>4
<1>3. QED
  BY <1>2, ProcMemGood

LEMMA InsertKI ==
  ASSUME KI, InsertStep
  PROVE  KI' /\ Effect
<1> DEFINE h == frame[cur]
           x == h.tgt
<1>1. /\ phase = "user" /\ phase \in UserPhases /\ phase' = phase /\ h.at \in Inserting
      /\ UNCHANGED <<waiters, valid, cur, curproc, locked, timeVars, shutdown>>
  BY DEF InsertStep, TestReady, SetReady, CountReady, TestProc, SetRunning, TestLinks, ClearNext,
         LoadTail, LinkItem, LinkBack, MoveTail, Inside, clusterVars, UserPhases,
         Inserting, InAddReady, InAddProc, InQueueAdd
<1>2. /\ cur \in Threads /\ frame \in [Threads -> FrameType] /\ h \in FrameType /\ Proper(h)
      /\ Good(obj) /\ MemOK(obj.mem)
  BY <1>1, UserFacts, FieldTypes DEF KI, Frames
<1>3. /\ x \in Procs /\ h.ins.q = ProcQ /\ h.ins.tail \in ProcPtr /\ h.ins \in InsertType
      /\ h.ins.ret \in {"user", "create"} /\ h.at \notin InAddReady
  BY <1>1, <1>2 DEF Proper, FrameType, InsertType, Inserting
<1>4. ~TestReady /\ ~SetReady /\ ~CountReady
  BY <1>3 DEF TestReady, SetReady, CountReady, Inside, InAddReady
<1>5. /\ obj.mem.tail[ProcQ] \in ProcPtr /\ NULL \in ProcPtr /\ x \in ProcPtr
      /\ \A y \in ProcPtr : y # NULL => y \in Procs
  BY <1>2, <1>3 DEF MemOK, ProcPtr
<1>6. Inserted = x /\ Insertion = h.ins
  BY DEF Inserted, Insertion
<1> DEFINE Same == /\ Good(obj') /\ obj'.tstate = obj.tstate /\ obj'.prio = obj.prio /\ obj'.proc = obj.proc
                   /\ obj'.bt = obj.bt /\ \A q \in Procs : obj'.pstate[q] # "Busy"
           Framed == \E g \in FrameType : /\ Proper(g) /\ g.at \notin Resting
                                           /\ frame' = [frame EXCEPT ![cur] = g]
<1>7. obj' = obj => Same
  BY <1>2 DEF KI, IdleProcs
<1>8. ASSUME NEW y \in Procs, NEW v \in ProcPtr,
             \/ obj' = [obj EXCEPT !.mem.next[y] = v]
             \/ obj' = [obj EXCEPT !.mem.prev[y] = v]
             \/ obj' = [obj EXCEPT !.mem.head[ProcQ] = v]
             \/ obj' = [obj EXCEPT !.mem.tail[ProcQ] = v]
      PROVE  Same
  <2>1. /\ Good(obj') /\ obj'.tstate = obj.tstate /\ obj'.prio = obj.prio /\ obj'.proc = obj.proc
        /\ obj'.bt = obj.bt /\ obj'.pstate = obj.pstate
    BY <1>2, <1>8, InsertMem
  <2>2. QED
    BY <2>1 DEF KI, IdleProcs
<1>9. ASSUME NEW pc \in InAddProc \cup InQueueAdd, GoTo(pc) PROVE Framed
  <2> DEFINE g == [h EXCEPT !.at = pc]
  <2>1. g \in FrameType /\ g.at = pc /\ g.tgt = x /\ g.ins = h.ins
    BY <1>2 DEF FrameType, Inserting
  <2>2. Proper(g) /\ g.at \notin Resting
    BY <1>3, <2>1 DEF Proper, InAddReady, InAddProc, InQueueAdd, Resting
  <2>3. frame' = [frame EXCEPT ![cur] = g]
    BY <1>2, <1>9 DEF GoTo
  <2>4. QED
    BY <2>1, <2>2, <2>3
<1>10. ASSUME frame' = [frame EXCEPT ![cur] = Returned(h.ins.ret, x)] PROVE Framed
  <2>1. PICK g : g = Returned(h.ins.ret, x)
    OBVIOUS
  <2>2. g \in FrameType /\ Proper(g) /\ g.at = h.ins.ret
    BY <1>3, <2>1, AddProcFrames
  <2>3. QED
    BY <1>3, <1>10, <2>1, <2>2 DEF Resting
<1> HIDE DEF Same
<1>11. Same /\ Framed
  <2>1. CASE TestProc
    <3>1. obj' = obj
      BY <2>1 DEF TestProc
    <3>2. "p_set" \in InAddProc \cup InQueueAdd
      BY DEF InAddProc
    <3>3. GoTo("p_set") \/ frame' = [frame EXCEPT ![cur] = Returned(h.ins.ret, x)]
      BY <1>6, <2>1 DEF TestProc
    <3>4. QED
      BY <1>7, <1>9, <1>10, <3>1, <3>2, <3>3
  <2>2. CASE SetRunning
    <3>1. obj' = [obj EXCEPT !.pstate[x] = "Running"] /\ GoTo("q_test")
      BY <1>6, <2>2 DEF SetRunning
    <3>2. /\ Good(obj') /\ obj'.tstate = obj.tstate /\ obj'.prio = obj.prio /\ obj'.proc = obj.proc
          /\ obj'.bt = obj.bt /\ obj'.pstate = [obj.pstate EXCEPT ![x] = "Running"]
      BY <1>2, <1>3, <3>1, ProcStateGood
    <3>3. Same
      BY <1>2, <3>2, FieldTypes DEF Same, KI, IdleProcs
    <3>4. QED
      BY <1>9, <3>1, <3>3 DEF InQueueAdd
  <2>3. CASE TestLinks
    <3>1. PICK b \in BOOLEAN : obj' = [obj EXCEPT !.bad = b]
      BY <2>3 DEF TestLinks
    <3>2. GoTo("q_null")
      BY <2>3 DEF TestLinks
    <3>3. /\ Good(obj') /\ obj'.tstate = obj.tstate /\ obj'.prio = obj.prio /\ obj'.proc = obj.proc
          /\ obj'.bt = obj.bt /\ obj'.pstate = obj.pstate
      BY <1>2, <3>1, BadGood
    <3>4. Same
      BY <3>3 DEF Same, KI, IdleProcs
    <3>5. QED
      BY <1>9, <3>2, <3>4 DEF InQueueAdd
  <2>4. CASE ClearNext
    <3>1. obj' = [obj EXCEPT !.mem.next[x] = NULL] /\ GoTo("q_load")
      BY <1>6, <2>4 DEF ClearNext
    <3>2. QED
      BY <1>3, <1>5, <1>8, <1>9, <3>1 DEF InQueueAdd
  <2>5. CASE LoadTail
    <3> DEFINE n == [h.ins EXCEPT !.tail = obj.mem.tail[ProcQ]]
               g == [h EXCEPT !.at = "q_link", !.ins = n]
    <3>1. n \in InsertType /\ n.q = ProcQ /\ n.tail \in ProcPtr
      BY <1>3, <1>5 DEF InsertType, ProcPtr
    <3>2. obj' = obj /\ frame' = [frame EXCEPT ![cur].at = "q_link", ![cur].ins.tail = obj.mem.tail[ProcQ]]
      BY <1>3, <1>6, <2>5 DEF LoadTail
    <3>3. frame' = [frame EXCEPT ![cur] = g]
      BY <1>2, <3>2
    <3> HIDE DEF n
    <3>4. g \in FrameType /\ g.at = "q_link" /\ g.tgt = x /\ g.ins = n
      BY <1>2, <3>1 DEF FrameType, Inserting, InQueueAdd
    <3>5. Proper(g) /\ g.at \notin Resting
      BY <1>3, <3>1, <3>4 DEF Proper, InAddReady, Resting
    <3>6. QED
      BY <1>7, <3>2, <3>3, <3>4, <3>5
  <2>6. CASE LinkItem
    <3>1. /\ GoTo("q_prev")
          /\ obj' = IF h.ins.tail = NULL THEN [obj EXCEPT !.mem.head[ProcQ] = x]
                    ELSE [obj EXCEPT !.mem.next[h.ins.tail] = x]
      BY <1>3, <1>6, <2>6 DEF LinkItem
    <3>2. CASE h.ins.tail = NULL
      BY <1>3, <1>5, <1>8, <1>9, <3>1, <3>2 DEF InQueueAdd
    <3>3. CASE h.ins.tail # NULL
      BY <1>3, <1>5, <1>8, <1>9, <3>1, <3>3 DEF InQueueAdd
    <3>4. QED
      BY <3>2, <3>3
  <2>7. CASE LinkBack
    <3>1. GoTo("q_tail") /\ \E b \in ProcPtr : obj' = [obj EXCEPT !.mem.prev[x] = b]
      BY <1>3, <1>5, <1>6, <2>7 DEF LinkBack
    <3>2. QED
      BY <1>3, <1>8, <1>9, <3>1 DEF InQueueAdd
  <2>8. CASE MoveTail
    <3>1. /\ obj' = [obj EXCEPT !.mem.tail[ProcQ] = x]
          /\ frame' = [frame EXCEPT ![cur] = Returned(h.ins.ret, x)]
      BY <1>3, <1>6, <2>8 DEF MoveTail
    <3>2. QED
      BY <1>3, <1>5, <1>8, <1>10, <3>1
  <2>9. QED
    BY <1>4, <2>1, <2>2, <2>3, <2>4, <2>5, <2>6, <2>7, <2>8 DEF InsertStep
<1>12. IdleProcs'
  BY <1>11 DEF Same, KI, IdleProcs
<1>13. PICK g \in FrameType : Proper(g) /\ g.at \notin Resting /\ frame' = [frame EXCEPT ![cur] = g]
  BY <1>11
<1>14. Frames' /\ frame'[cur] = g /\ \A u \in Threads \ {cur} : frame'[u] = frame[u]
  BY <1>1, <1>13, FrameSet
<1>15. QED
  BY <1>1, <1>11, <1>12, <1>13, <1>14, ProcCallKI DEF Same

(* pWake and pAddReady.                                                    *)
LEMMA WakeKI ==
  ASSUME KI, "readyrace" \notin Ops, NEW t \in Threads, Wake(t) \/ AddReadyCall(t)
  PROVE  KI' /\ Effect
<1>1. /\ phase = "user" /\ phase \in UserPhases /\ MayWake(t) /\ frame' = frame
      /\ UNCHANGED <<waiters, valid, cur, curproc, phase, now, delayq, busyq, shutdown>>
      /\ locked' = FALSE \/ locked' = locked
      /\ obj' = AddThreadToProc(obj, t, now) \/ obj' = SwitchReady(obj, t)
  BY DEF Wake, AddReadyCall, MayMake, Calls, UserPhases, SwitchReady, clusterVars, timeVars
<1>2. /\ Good(obj) /\ t \in AllThreads /\ obj.tstate[t] \in {"Ready", "Done", "Run"}
      /\ obj.proc[t] \in Procs /\ obj.pstate[obj.proc[t]] # "Busy"
  BY <1>1, UserFacts, ThreadFacts DEF KI, MayWake
<1>3. Readied(obj, obj', t)
  BY <1>1, <1>2, AddThreadGood, SwitchReadyGood
<1>4. /\ Good(obj')
      /\ obj'.tstate = IF obj.tstate[t] = "Run" THEN [obj.tstate EXCEPT ![t] = "Ready"] ELSE obj.tstate
      /\ obj'.prio = obj.prio /\ obj'.proc = obj.proc /\ obj'.bt = obj.bt
      /\ obj'.pstate = [obj.pstate EXCEPT ![obj.proc[t]] = "Running"]
  BY <1>3 DEF Readied
<1>5. IdleProcs'
  BY <1>2, <1>4, FieldTypes DEF KI, IdleProcs
<1>6. Frames'
  BY <1>1, FramesSame
<1>7. locked' \in BOOLEAN
  BY <1>1 DEF KI, Rest
<1>8. \A u \in AllThreads : Kept(u) \/ (u = t /\ obj.tstate[t] = "Run" /\ obj'.tstate[t] = "Ready"
                                         /\ obj'.proc[t] = obj.proc[t])
  BY <1>2, <1>4, FieldTypes DEF Kept
<1>9. obj.tstate[t] = "Run" => frame[t].at = "sleep"
  BY <1>1 DEF MayWake
<1>10. t = cur => obj.tstate[t] # "Run"
  BY <1>1, <1>9, UserFacts DEF Resting
<1>11. \A u \in AllThreads \ {cur} : Kept(u) \/ (Woken(u) /\ frame[u].at = "sleep")
  BY <1>8, <1>9 DEF Woken, Resting
<1>12. Kept(cur)
  BY <1>1, <1>8, <1>10, UserFacts
<1>13. PlainCall
  BY <1>1, <1>4, <1>5, <1>6, <1>7, <1>11, <1>12, UserFacts DEF PlainCall, UserPhases, Kept
<1>14. QED
  BY <1>13, PlainCallKI

LEMMA KillKI ==
  ASSUME KI, NEW t \in Threads, Kill(t)
  PROVE  KI' /\ Effect
<1>1. /\ phase = "user" /\ phase \in UserPhases /\ t # cur /\ obj.tstate[t] # "None" /\ frame' = frame
      /\ UNCHANGED <<waiters, valid, cur, curproc, phase, now, delayq, busyq, shutdown>>
      /\ locked' = FALSE /\ "kill" \in Ops
      /\ obj' = obj \/ obj' = [GetReadyThread(obj, obj.proc[t], t) EXCEPT !.tstate[t] = "Done"]
  BY DEF Kill, Calls, UserPhases, timeVars
<1>2. Good(obj) /\ t \in AllThreads /\ obj.proc[t] \in Procs
  BY <1>1, UserFacts, ThreadFacts DEF KI
<1>3. \/ obj' = obj
      \/ /\ Good(obj') /\ obj'.tstate = [obj.tstate EXCEPT ![t] = "Done"]
         /\ obj'.prio = obj.prio /\ obj'.proc = obj.proc
         /\ obj'.pstate = obj.pstate /\ obj'.bt = obj.bt
  <2>1. LET z == [GetReadyThread(obj, obj.proc[t], t) EXCEPT !.tstate[t] = "Done"]
        IN  /\ Good(z) /\ SameProcs(obj.mem, z.mem)
            /\ z.tstate = [obj.tstate EXCEPT ![t] = "Done"]
            /\ z.prio = obj.prio /\ z.proc = obj.proc /\ z.time = obj.time /\ z.start = obj.start
            /\ z.pstate = obj.pstate /\ z.bt = obj.bt /\ z.bad = obj.bad
    BY ONLY <1>2, KillGood
  <2>2. QED
    BY <1>1, <2>1
<1>4. Good(obj') /\ IdleProcs'
  BY <1>2, <1>3 DEF KI, IdleProcs
<1>5. Frames'
  BY <1>1, FramesSame
<1>6. \A u \in AllThreads : Kept(u) \/ (u = t /\ Killed(t))
  BY <1>1, <1>2, <1>3, FieldTypes DEF Kept, Killed
<1>7. Kept(cur)
  BY <1>1, <1>6, UserFacts
<1>8. PlainCall
  BY <1>1, <1>4, <1>5, <1>6, <1>7, UserFacts DEF PlainCall, UserPhases, Kept
<1>9. QED
  BY <1>8, PlainCallKI

-----------------------------------------------------------------------------
(* The calls that switch threads.                                          *)

(* The frames after a switch to t from frames fr: a thread that was        *)
(* blocked is back in its own code.                                        *)
LEMMA ResumeFrames ==
  ASSUME NEW t \in AllThreads, NEW fr \in [Threads -> FrameType],
         \A u \in Threads : Proper(fr[u]),
         frame' = IF t \in Threads /\ fr[t].at \in Resting THEN [fr EXCEPT ![t] = Idle] ELSE fr
  PROVE  /\ Frames'
         /\ \A u \in Threads \ {t} : frame'[u] = fr[u]
         /\ t \in Threads => Resumed(fr[t], frame'[t])
<1>1. CASE t \in Threads /\ fr[t].at \in Resting
  <2>1. frame' = [fr EXCEPT ![t] = Idle]
    BY <1>1
  <2>2. Idle \in FrameType /\ Idle.at = "user" /\ Proper(Idle)
    BY IdleFrame
  <2>3. \A u \in Threads : frame'[u] = IF u = t THEN Idle ELSE fr[u]
    BY <2>1
  <2>4. frame' \in [Threads -> FrameType]
    BY <2>1, <2>2
  <2>5. QED
    BY <1>1, <2>2, <2>3, <2>4 DEF Frames, Resting, Resumed
<1>2. CASE ~(t \in Threads /\ fr[t].at \in Resting)
  <2>1. frame' = fr
    BY <1>2
  <2>2. QED
    BY <1>2, <2>1 DEF Frames, Resumed
<1>3. QED
  BY <1>1, <1>2

(* The scheduler thread is ready, so there is always a next thread, and it *)
(* is not the one that gives way unless that one has been queued.          *)
LEMMA NextExists ==
  ASSUME KI, phase \in UserPhases, NEW s, Good(s), s.tstate[MAIN] = "Ready", s.proc = obj.proc
  PROVE  /\ NextReady(s, curproc) # NULL
         /\ TakenNext(s, GetReady(s, curproc), curproc, NextReady(s, curproc))
         /\ GetReady(s, curproc).proc = s.proc
         /\ TakenNext(s, SetProc(GetReady(s, curproc), NextReady(s, curproc), curproc), curproc,
                      NextReady(s, curproc))
         /\ SetProc(GetReady(s, curproc), NextReady(s, curproc), curproc).proc
              = [s.proc EXCEPT ![NextReady(s, curproc)] = curproc]
<1>1. curproc \in Procs /\ Owner[s.proc[MAIN]] = Owner[curproc]
  BY UserFacts
<1>2. MAIN \in OnOwner(s, Owner[curproc])
  BY <1>1, ThreadFacts DEF OnOwner, ReadySet
<1>3. NextReady(s, curproc) # NULL
  BY <1>1, <1>2, NextReadyFacts
<1>4. PICK t : t = NextReady(s, curproc)
  OBVIOUS
<1>5. /\ TakenNext(s, GetReady(s, curproc), curproc, t) /\ GetReady(s, curproc).proc = s.proc
      /\ LET z == SetProc(GetReady(s, curproc), t, curproc)
         IN  TakenNext(s, z, curproc, t) /\ z.proc = [s.proc EXCEPT ![t] = curproc]
  BY <1>1, <1>3, <1>4, TakeNext
<1>6. QED
  BY <1>3, <1>4, <1>5

(* What is common to all switches.                                         *)
SwitchCall(t) ==
  /\ Good(obj') /\ IdleProcs' /\ Frames' /\ GaveWay(t)
  /\ obj.tstate[t] = "Ready" /\ t \in AllThreads
  /\ UNCHANGED <<valid, now, busyq, shutdown>>

LEMMA SwitchKI ==
  ASSUME KI, NEW t \in AllThreads, SwitchCall(t), Lists',
         waiters' \in [Threads -> Seq(Threads)], delayq' \in Seq(Threads)
  PROVE  KI' /\ Effect
<1>1. Effect
  BY DEF Effect, SwitchCall
<1>2. Rest'
  BY ThreadFacts DEF SwitchCall, GaveWay, KI, Rest, UserPhases, MainPhases
<1>3. KI'
  BY <1>1, <1>2, StepKI DEF SwitchCall
<1>4. QED
  BY <1>1, <1>3

(* Threads other than the two of a switch stay as they are.                *)
LEMMA SwitchStill ==
  ASSUME KI, NEW t \in AllThreads, SwitchCall(t)
  PROVE  \A u \in Threads \ {cur} : Still(u)
  BY UserFacts, ThreadFacts DEF SwitchCall, GaveWay, First, Still, Kept

LEMMA CallerStill ==
  ASSUME KI, phase \in UserPhases
  PROVE  Still(cur)
  BY UserFacts DEF Still, Resting

(* Yield and preemption.                                                   *)
LEMMA ExecReadyKI ==
  ASSUME KI, phase = "user", phase \in UserPhases, ExecReady,
         UNCHANGED <<waiters, valid, curproc, timeVars, shutdown>>
  PROVE  KI' /\ Effect
<1> DEFINE t == NextReady(obj, curproc)
           y == SetProc(GetReady(obj, curproc), t, curproc)
<1>0. /\ t # NULL /\ t # cur => obj' = SwitchReady(y, cur) /\ Resume(t, TRUE, frame)
  BY DEF ExecReady
<1>1. /\ cur \in Threads /\ cur \in AllThreads /\ cur # MAIN /\ curproc \in Procs
      /\ obj.tstate[cur] = "Run" /\ obj.proc[cur] \in Procs /\ Good(obj)
      /\ obj.tstate \in [AllThreads -> {"None", "Run", "Ready", "Busy", "Done"}]
      /\ obj.proc \in [AllThreads -> ProcPtr]
      /\ obj.pstate \in [Procs -> {"None", "Waiting", "Running", "Busy"}]
  BY UserFacts, FieldTypes DEF KI
<1>2. t # NULL /\ TakenNext(obj, y, curproc, t) /\ y.proc = [obj.proc EXCEPT ![t] = curproc]
  BY <1>1, NextExists, UserFacts
<1> HIDE DEF y, t
<1>4. /\ t \in AllThreads /\ obj.tstate[t] = "Ready" /\ t # cur
      /\ obj.proc[t] \in Procs /\ Owner[obj.proc[t]] = Owner[curproc]
      /\ \A u \in AllThreads : obj.tstate[u] = "Ready" /\ Owner[obj.proc[u]] = Owner[curproc]
                                 => obj.prio[u] <= obj.prio[t]
      /\ Good(y) /\ y.tstate = [obj.tstate EXCEPT ![t] = "Run"]
      /\ y.prio = obj.prio /\ y.pstate = obj.pstate /\ y.bt = obj.bt
  BY <1>1, <1>2 DEF TakenNext
<1>3. /\ obj' = SwitchReady(y, cur) /\ cur' = t /\ phase' = (IF t = MAIN THEN "sched" ELSE "user")
      /\ locked' = (t = MAIN)
      /\ frame' = IF t \in Threads /\ frame[t].at \in Resting THEN [frame EXCEPT ![t] = Idle] ELSE frame
  BY <1>0, <1>2, <1>4 DEF Resume
<1>5. y.tstate[cur] = "Run" /\ y.proc[cur] = obj.proc[cur]
  BY <1>1, <1>2, <1>4
<1>6. /\ Good(obj') /\ obj'.tstate = [y.tstate EXCEPT ![cur] = "Ready"]
      /\ obj'.prio = y.prio /\ obj'.proc = y.proc /\ obj'.bt = y.bt
      /\ obj'.pstate = [y.pstate EXCEPT ![y.proc[cur]] = "Running"]
  <2>1. Good(y) /\ cur \in AllThreads /\ y.proc[cur] \in Procs /\ y.tstate[cur] # "Busy"
    BY <1>1, <1>4, <1>5
  <2>2. Readied(y, obj', cur)
    BY <1>3, <2>1, SwitchReadyGood
  <2>3. QED
    BY <1>5, <2>2 DEF Readied
<1>7. IdleProcs'
  BY <1>1, <1>4, <1>5, <1>6 DEF KI, IdleProcs
<1>8. Frames' /\ (\A u \in Threads \ {t} : frame'[u] = frame[u]) /\ (t \in Threads => Resumed(frame[t], frame'[t]))
  BY <1>3, <1>4, ResumeFrames DEF KI, Frames
<1>9. \A u \in AllThreads \ {cur, t} : Kept(u)
  BY <1>1, <1>2, <1>4, <1>6 DEF Kept
<1>10. First(t)
  BY <1>1, <1>2, <1>4, <1>6, <1>8 DEF First, Resumed
<1>11. /\ obj'.tstate[cur] = "Ready" /\ obj'.proc[cur] \in Procs /\ obj'.proc[cur] = obj.proc[cur]
       /\ frame'[cur].at \notin Resting /\ frame'[cur] = frame[cur]
  BY <1>1, <1>4, <1>5, <1>6, <1>8, UserFacts
<1>12. GaveWay(t)
  BY <1>3, <1>8, <1>9, <1>10, <1>11 DEF GaveWay
<1>13. SwitchCall(t)
  BY <1>4, <1>6, <1>7, <1>8, <1>12 DEF SwitchCall, timeVars
<1>14. \A u \in Threads : Still(u)
  BY <1>1, <1>4, <1>13, SwitchStill, CallerStill
<1>15. Lists'
  BY <1>14, WaitingKept, DelayedKept DEF Lists, timeVars
<1>16. waiters' \in [Threads -> Seq(Threads)] /\ delayq' \in Seq(Threads)
  BY DEF KI, Rest, timeVars
<1>17. QED
  BY <1>4, <1>13, <1>15, <1>16, SwitchKI

LEMMA YieldKI ==
  ASSUME KI, Yield \/ Preempt
  PROVE  KI' /\ Effect
  BY ExecReadyKI DEF Yield, Preempt, Calls, UserPhases

(* The caller blocks in frame g; s is obj after its timer has been set.    *)
LEMMA BlockSwitch ==
  ASSUME KI, phase = "user", phase \in UserPhases, NEW s, Good(s), s.tstate = obj.tstate, s.proc = obj.proc,
         s.prio = obj.prio, s.pstate = obj.pstate, s.bt = obj.bt,
         frame[cur].at = "user",
         NEW g \in FrameType, g.at \in Resting, Parked(g), NEW fr, fr = [frame EXCEPT ![cur] = g],
         ExecBlock(s, TRUE, fr), UNCHANGED <<valid, curproc, now, busyq, shutdown>>
  PROVE  /\ \E t \in AllThreads : SwitchCall(t)
         /\ frame'[cur] = g /\ obj'.tstate[cur] = "Run"
<1> DEFINE t == NextReady(s, curproc)
           y == SetProc(GetReady(s, curproc), t, curproc)
<1>1. /\ cur \in Threads /\ cur \in AllThreads /\ cur # MAIN /\ curproc \in Procs
      /\ obj.tstate[cur] = "Run" /\ obj.proc[cur] \in Procs /\ Good(obj)
      /\ obj.tstate \in [AllThreads -> {"None", "Run", "Ready", "Busy", "Done"}]
      /\ obj.proc \in [AllThreads -> ProcPtr]
      /\ frame \in [Threads -> FrameType]
  BY UserFacts, FieldTypes DEF KI, Frames
<1>2. t # NULL /\ TakenNext(s, y, curproc, t) /\ y.proc = [s.proc EXCEPT ![t] = curproc]
  BY <1>1, NextExists, UserFacts
<1>3. /\ t \in AllThreads /\ obj.tstate[t] = "Ready" /\ t # cur
      /\ obj.proc[t] \in Procs /\ Owner[obj.proc[t]] = Owner[curproc]
      /\ \A u \in AllThreads : obj.tstate[u] = "Ready" /\ Owner[obj.proc[u]] = Owner[curproc]
                                 => obj.prio[u] <= obj.prio[t]
      /\ Good(y) /\ y.tstate = [obj.tstate EXCEPT ![t] = "Run"]
      /\ y.prio = obj.prio /\ y.pstate = obj.pstate /\ y.bt = obj.bt
  <2> HIDE DEF t, y
  <2>1. QED
    BY <1>1, <1>2 DEF TakenNext
<1>4. /\ obj' = y /\ cur' = t /\ phase' = (IF t = MAIN THEN "sched" ELSE "user")
      /\ locked' = (t = MAIN)
      /\ frame' = IF t \in Threads /\ fr[t].at \in Resting THEN [fr EXCEPT ![t] = Idle] ELSE fr
  <2>1. obj' = IF t = NULL THEN s ELSE y
    BY DEF ExecBlock
  <2>2. (CASE t = NULL -> Crash("null_thread", fr)
           [] t = cur  -> Crash("self_switch", fr)
           [] OTHER    -> Resume(t, TRUE, fr))
    BY DEF ExecBlock
  <2> HIDE DEF t, y
  <2>3. Resume(t, TRUE, fr)
    BY <1>2, <1>3, <2>2
  <2>4. QED
    BY <1>2, <2>1, <2>3 DEF Resume
<1> HIDE DEF y, t
<1>5. /\ fr \in [Threads -> FrameType] /\ fr[cur] = g /\ \A u \in Threads \ {cur} : fr[u] = frame[u]
      /\ \A u \in Threads : Proper(fr[u])
  <2>1. Proper(g)
    BY DEF Proper, Resting, InAddReady, InAddProc, InQueueAdd
  <2>2. QED
    BY <1>1, <2>1 DEF KI, Frames
<1>6. /\ Frames' /\ (\A u \in Threads \ {t} : frame'[u] = fr[u])
      /\ (t \in Threads => Resumed(fr[t], frame'[t]))
  BY ONLY <1>3, <1>4, <1>5, ResumeFrames
<1>7. IdleProcs'
  BY <1>3, <1>4 DEF KI, IdleProcs
<1>8. \A u \in AllThreads \ {t} : Kept(u)
  BY <1>1, <1>2, <1>3, <1>4 DEF Kept
<1>9. First(t)
  <2>1. t \in Threads => frame'[t].at \notin Resting /\ Resumed(frame[t], frame'[t])
    BY <1>3, <1>5, <1>6 DEF Resumed
  <2>2. QED
    BY <1>1, <1>2, <1>3, <1>4, <2>1 DEF First
<1>10. /\ obj'.tstate[cur] = "Run" /\ obj'.proc[cur] \in Procs /\ obj'.proc[cur] = obj.proc[cur]
       /\ frame'[cur] = g
  BY <1>1, <1>3, <1>5, <1>6, <1>8 DEF Kept
<1>11. \A u \in Threads \ {cur, t} : frame'[u] = frame[u]
  BY <1>5, <1>6
<1>12. GaveWay(t)
  BY <1>4, <1>8, <1>9, <1>10, <1>11 DEF GaveWay
<1>13. SwitchCall(t)
  BY <1>3, <1>4, <1>6, <1>7, <1>12 DEF SwitchCall
<1>14. QED
  BY <1>3, <1>10, <1>13

LEMMA SleepKI ==
  ASSUME KI, Sleep
  PROVE  KI' /\ Effect
<1> DEFINE g == [frame[cur] EXCEPT !.at = "sleep"]
<1>1. /\ phase = "user" /\ phase \in UserPhases /\ frame[cur].at = "user"
      /\ ExecBlock(obj, TRUE, [frame EXCEPT ![cur].at = "sleep"])
      /\ UNCHANGED <<waiters, valid, curproc, now, delayq, busyq, shutdown>>
  BY DEF Sleep, Calls, UserPhases, timeVars
<1>2. cur \in Threads /\ frame \in [Threads -> FrameType] /\ Good(obj)
  BY <1>1, UserFacts DEF KI, Frames
<1>3. PICK fr : fr = [frame EXCEPT ![cur].at = "sleep"]
  OBVIOUS
<1>4. fr = [frame EXCEPT ![cur] = g]
  BY <1>2, <1>3
<1>5. g \in FrameType /\ g.at \in Resting /\ Parked(g)
  BY <1>2 DEF FrameType, Resting, Parked
<1> HIDE DEF g
<1>6. PICK t \in AllThreads : SwitchCall(t)
  BY <1>1, <1>2, <1>3, <1>4, <1>5, BlockSwitch
<1>7. \A u \in Threads : Still(u)
  BY <1>1, <1>2, <1>6, SwitchStill, CallerStill
<1>8. Lists'
  BY <1>1, <1>7, WaitingKept, DelayedKept DEF Lists
<1>9. waiters' \in [Threads -> Seq(Threads)] /\ delayq' \in Seq(Threads)
  BY <1>1 DEF KI, Rest
<1>10. QED
  BY <1>6, <1>8, <1>9, SwitchKI

(* The running thread is in no list.                                       *)
LEMMA CallerFree ==
  ASSUME KI, phase \in UserPhases
  PROVE  /\ \A u \in Threads : \A i \in 1..Len(waiters[u]) : waiters[u][i] # cur
         /\ \A i \in 1..Len(delayq) : delayq[i] # cur
  BY UserFacts DEF KI, Lists, Waiting, Delayed, Blocked, Resting

(* Waiting, in the next state.                                             *)
WillWait(n, u) ==
  \/ obj'.tstate[n] = "Done"
  \/ obj'.tstate[n] = "Run" /\ frame'[n].at = "wait" /\ frame'[n].tgt = u

LEMMA WillWaitAll ==
  ASSUME \A u \in Threads :
           /\ \A i \in 1..Len(waiters'[u]) : WillWait(waiters'[u][i], u)
           /\ \A i, j \in 1..Len(waiters'[u]) : waiters'[u][i] = waiters'[u][j] => i = j
  PROVE  Waiting'
  BY DEF Waiting, Blocked, WillWait

LEMMA WaitKI ==
  ASSUME KI, NEW t \in Threads, Wait(t)
  PROVE  KI' /\ Effect /\ Held
<1>1. /\ phase \in UserPhases /\ phase = "user" /\ t # cur /\ frame[cur].at = "user"
      /\ UNCHANGED <<valid, curproc, now, delayq, busyq, shutdown>>
  BY DEF Wait, Calls, UserPhases, timeVars
<1>2. cur \in Threads /\ frame \in [Threads -> FrameType] /\ Good(obj) /\ IdleProcs
  BY <1>1, UserFacts DEF KI, Frames
<1>3. CASE obj.tstate[t] = "Done"
  <2>1. /\ locked' = FALSE /\ UNCHANGED <<obj, waiters, cur, phase, frame>>
    BY <1>3 DEF Wait
  <2>2. Good(obj') /\ IdleProcs' /\ Frames'
    BY <1>2, <2>1, FramesSame DEF IdleProcs
  <2>3. \A u \in AllThreads : Kept(u)
    BY <2>1 DEF Kept
  <2>4. PlainCall
    BY <1>1, <2>1, <2>2, <2>3, UserFacts DEF PlainCall, UserPhases
  <2>5. Held
    BY <1>1, <2>1, HeldSame
  <2>6. QED
    BY <2>4, <2>5, PlainCallKI
<1>4. CASE obj.tstate[t] # "Done"
  <2> DEFINE g == [frame[cur] EXCEPT !.at = "wait", !.tgt = t]
  <2>1. /\ waiters' = [waiters EXCEPT ![t] = Append(@, cur)]
        /\ ExecBlock(obj, TRUE, [frame EXCEPT ![cur].at = "wait", ![cur].tgt = t])
    BY <1>4 DEF Wait
  <2>2. PICK fr : fr = [frame EXCEPT ![cur].at = "wait", ![cur].tgt = t]
    OBVIOUS
  <2>3. fr = [frame EXCEPT ![cur] = g]
    BY <1>2, <2>2
  <2>4. g \in FrameType /\ g.at \in Resting /\ g.at = "wait" /\ g.tgt = t
    BY <1>2 DEF FrameType, Resting
  <2> HIDE DEF g
  <2>5. (\E v \in AllThreads : SwitchCall(v)) /\ frame'[cur] = g /\ obj'.tstate[cur] = "Run"
    <3>1. PICK w : w = waiters[t]
      OBVIOUS
    <3>2. waiters'[t] = Append(w, cur) /\ w \in Seq(Threads)
      BY <1>2, <2>1, <3>1 DEF KI, Rest
    <3>3. cur \in Elems(waiters'[t])
      <4>1. Len(w) + 1 \in 1..Len(Append(w, cur)) /\ Append(w, cur)[Len(w) + 1] = cur
        BY <1>2, <3>2
      <4>2. QED
        BY <3>2, <4>1 DEF Elems
    <3>4. Alive(t)
      BY <1>4 DEF Wait, Alive
    <3>5. Parked(g)
      BY <1>1, <2>4, <3>3, <3>4 DEF Parked
    <3>6. QED
      BY <1>1, <1>2, <2>1, <2>2, <2>3, <2>4, <3>5, BlockSwitch
  <2>6. PICK v \in AllThreads : SwitchCall(v)
    BY <2>5
  <2>7. \A u \in Threads : Still(u)
    BY <1>1, <1>2, <2>6, SwitchStill, CallerStill
  <2>8. Delayed'
    BY <1>1, <2>7, DelayedKept
  <2>9. waiters \in [Threads -> Seq(Threads)]
    BY DEF KI, Rest
  <2>10. /\ waiters' \in [Threads -> Seq(Threads)]
         /\ \A u \in Threads \ {t} : waiters'[u] = waiters[u]
         /\ waiters'[t] = Append(waiters[t], cur)
    BY <1>2, <2>1, <2>9
  <2>11. ASSUME NEW u \in Threads, NEW i \in 1..Len(waiters[u])
         PROVE  WillWait(waiters[u][i], u)
    <3>1. PICK n \in Threads : n = waiters[u][i]
      BY <2>9
    <3>2. Blocked(n, "wait") /\ (obj.tstate[n] = "Run" => frame[n].tgt = u)
      BY <3>1 DEF KI, Lists, Waiting
    <3>3. WillWait(n, u)
      BY <2>7, <3>2 DEF Blocked, Still, WillWait
    <3>4. QED
      BY <3>1, <3>3
  <2>12. ASSUME NEW u \in Threads
         PROVE  /\ \A i \in 1..Len(waiters'[u]) : WillWait(waiters'[u][i], u)
                /\ \A i, j \in 1..Len(waiters'[u]) : waiters'[u][i] = waiters'[u][j] => i = j
    <3>1. \A i, j \in 1..Len(waiters[u]) : waiters[u][i] = waiters[u][j] => i = j
      BY DEF KI, Lists, Waiting
    <3>2. CASE u # t
      BY <2>10, <2>11, <3>1, <3>2
    <3>3. CASE u = t
      <4>1. waiters[t] \in Seq(Threads) /\ \A i \in 1..Len(waiters[t]) : waiters[t][i] # cur
        BY <1>1, <2>9, CallerFree
      <4>2. PICK w, a : w = waiters[t] /\ a = waiters'[t]
        OBVIOUS
      <4>3. /\ Len(a) = Len(w) + 1 /\ Len(w) \in Nat /\ a[Len(w) + 1] = cur
            /\ \A i \in 1..Len(w) : a[i] = w[i]
        BY <1>2, <2>10, <4>1, <4>2
      <4>4. ASSUME NEW i \in 1..Len(a)
            PROVE  WillWait(a[i], u)
        <5>1. CASE i = Len(w) + 1
          BY <2>4, <2>5, <3>3, <4>3, <5>1 DEF WillWait
        <5>2. CASE i \in 1..Len(w)
          BY <2>11, <3>3, <4>2, <4>3, <5>2
        <5>3. QED
          BY <4>3, <5>1, <5>2
      <4>5. \A i, j \in 1..Len(a) : a[i] = a[j] => i = j
        <5>1. \A i \in 1..Len(w) : w[i] # cur
          BY <4>1, <4>2
        <5>2. \A i, j \in 1..Len(w) : w[i] = w[j] => i = j
          BY <3>1, <3>3, <4>2
        <5>3. SUFFICES ASSUME NEW i \in 1..Len(a), NEW j \in 1..Len(a), a[i] = a[j]
                       PROVE  i = j
          OBVIOUS
        <5>4. i \in 1..Len(w) \/ i = Len(w) + 1
          BY ONLY <4>3, i \in 1..Len(a)
        <5>5. j \in 1..Len(w) \/ j = Len(w) + 1
          BY ONLY <4>3, j \in 1..Len(a)
        <5>6. QED
          BY <4>3, <5>1, <5>2, <5>3, <5>4, <5>5
      <4>6. QED
        BY <3>3, <4>2, <4>4, <4>5
    <3>4. QED
      BY <3>2, <3>3
  <2>13. Waiting'
    BY <2>12, WillWaitAll
  <2>14. delayq' \in Seq(Threads) /\ Lists'
    BY <1>1, <2>8, <2>13 DEF KI, Rest, Lists
  <2>15. ASSUME NEW n \in Threads, n \in Elems(waiters[t]) PROVE n \in Elems(waiters'[t])
    <3>1. PICK w, a : w = waiters[t] /\ a = waiters'[t]
      OBVIOUS
    <3>2. w \in Seq(Threads) /\ Len(w) \in Nat /\ a = Append(w, cur)
      BY <2>9, <2>10, <3>1
    <3>3. \A i \in 1..Len(w) : i \in 1..Len(a) /\ a[i] = w[i]
      BY <1>2, <3>2
    <3>4. QED
      BY <2>15, <3>1, <3>3 DEF Elems
  <2>16. Held
    <3>1. ASSUME NEW n \in Threads, n \in Elems(waiters'[t]) PROVE n = cur \/ n \in Elems(waiters[t])
      <4>1. PICK w, a : w = waiters[t] /\ a = waiters'[t]
        OBVIOUS
      <4>2. w \in Seq(Threads) /\ Len(w) \in Nat /\ a = Append(w, cur) /\ cur \in Threads
        BY <1>2, <2>9, <2>10, <4>1
      <4>3. \A i \in 1..Len(a) : a[i] = cur \/ (i \in 1..Len(w) /\ a[i] = w[i])
        BY ONLY <4>2
      <4>4. QED
        BY <3>1, <4>1, <4>3 DEF Elems
    <3>2. \A u \in Threads \ {t} : waiters'[u] = waiters[u]
      BY <2>10, <2>9
    <3>3. delayq' = delayq /\ obj'.tstate[cur] = "Run"
      BY <1>1, <2>5
    <3>4. Joined
      BY <3>1, <3>2, <3>3 DEF Joined, InList
    <3>5. QED
      BY <1>1, <2>10, <2>15, <3>4 DEF Held
  <2>17. QED
    BY <2>6, <2>10, <2>14, <2>16, SwitchKI
<1>5. QED
  BY <1>3, <1>4

(* What the queue of delayed threads holds after push and pop.             *)
Listed(a, S) == a \in Seq(S) /\ \A i, j \in 1..Len(a) : a[i] = a[j] => i = j
Pushed(r, a, S, x) ==
  /\ Listed(r, S) /\ Len(r) = Len(a) + 1
  /\ \A i \in 1..Len(r) : r[i] = x \/ \E j \in 1..Len(a) : r[i] = a[j]
  /\ Elems(r) = Elems(a) \cup {x}
Popped(r, a, S) ==
  /\ Listed(r, S) /\ \A i \in 1..Len(r) : \E j \in 2..Len(a) : r[i] = a[j]
  /\ \A j \in 2..Len(a) : a[j] \in Elems(r)

(* The first n elements of one list are among those of another; when they  *)
(* are distinct, those of the other are among them.                        *)
Within(n, r, b) == \A i \in 1..n : \E j \in 1..n : r[i] = b[j]
Unlike(n, r) == \A i, j \in 1..n : r[i] = r[j] => i = j
LEMMA SameElems ==
  ASSUME NEW n \in Nat, NEW r, NEW b, Unlike(n, r), Within(n, r, b)
  PROVE  Within(n, b, r)
<1>0. /\ \A i, j \in 1..n : r[i] = r[j] => i = j
      /\ \A i \in 1..n : \E j \in 1..n : r[i] = b[j]
  BY DEF Unlike, Within
<1> DEFINE D == 1..n
<1>1. PICK f : f = [i \in D |-> CHOOSE j \in D : r[i] = b[j]]
  OBVIOUS
<1>2. (\A i \in D : r[i] = b[f[i]]) /\ f \in [D -> D]
  BY <1>0, <1>1
<1>3. ASSUME NEW i \in D, NEW j \in D, f[i] = f[j] PROVE i = j
  <2>1. r[i] = r[j]
    BY ONLY <1>2, <1>3
  <2>2. QED
    BY <1>0, <2>1
<1>4. IsFiniteSet(D)
  BY FS_Interval
<1> HIDE DEF D
<1>5. f \in Injection(D, D)
  BY ONLY <1>2, <1>3 DEF Injection, IsInjective
<1>6. f \in Surjection(D, D)
  BY ONLY <1>4, <1>5, FS_Injection
<1>7. \A j \in D : \E i \in D : f[i] = j
  BY ONLY <1>6 DEF Surjection
<1>8. \A j \in D : \E i \in D : b[j] = r[i]
  BY ONLY <1>2, <1>7
<1>9. QED
  BY <1>8 DEF D, Within

LEMMA PushListed ==
  ASSUME NEW S, NEW a, Listed(a, S), NEW key, NEW x \in S, \A i \in 1..Len(a) : a[i] # x,
         NEW r, r = HeapPush(a, key, x)
  PROVE  Pushed(r, a, S, x)
<1>1. a \in Seq(S) /\ (\A i, j \in 1..Len(a) : a[i] = a[j] => i = j) /\ x \in S
  BY DEF Listed
<1>2. LET z == HeapPush(a, key, x)
      IN  /\ z \in Seq(S) /\ Len(z) = Len(a) + 1
          /\ \A i, j \in 1..Len(z) : z[i] = z[j] => i = j
          /\ \A i \in 1..Len(z) : z[i] = x \/ \E j \in 1..Len(a) : z[i] = a[j]
  BY <1>1, HeapPushFacts
<1>n. PICK n \in Nat : n = Len(a) + 1
  BY <1>1
<1>3. PICK b : b = Append(a, x)
  OBVIOUS
<1>4. b[n] = x /\ n \in 1..n /\ \A j \in 1..Len(a) : b[j] = a[j] /\ j \in 1..n
  BY <1>1, <1>n, <1>3
<1>5. /\ Len(r) = n /\ \A i, j \in 1..n : r[i] = r[j] => i = j
      /\ \A i \in 1..n : r[i] = x \/ \E j \in 1..Len(a) : r[i] = a[j]
  BY <1>1, <1>2, <1>n
<1>6. Unlike(n, r) /\ Within(n, r, b)
  BY <1>4, <1>5 DEF Unlike, Within
<1>7. Within(n, b, r)
  BY <1>6, SameElems
<1>8. x \in Elems(r) /\ \A j \in 1..Len(a) : a[j] \in Elems(r)
  <2>1. \A j \in 1..n : b[j] \in Elems(r)
    BY <1>5, <1>7 DEF Elems, Within
  <2>2. QED
    BY ONLY <1>4, <2>1
<1>9. Elems(r) = Elems(a) \cup {x}
  BY <1>2, <1>8 DEF Elems
<1>10. QED
  BY <1>2, <1>9 DEF Pushed, Listed

LEMMA PopListed ==
  ASSUME NEW S, NEW a, Listed(a, S), a # <<>>, NEW key, NEW r, r = HeapPop(a, key)
  PROVE  Popped(r, a, S)
<1>1. a \in Seq(S) /\ (\A i, j \in 1..Len(a) : a[i] = a[j] => i = j)
  BY DEF Listed
<1>2. LET z == HeapPop(a, key)
      IN  /\ z \in Seq(S) /\ Len(z) = Len(a) - 1
          /\ \A i, j \in 1..Len(z) : z[i] = z[j] => i = j
          /\ \A i \in 1..Len(z) : \E j \in 2..Len(a) : z[i] = a[j]
  BY <1>1, HeapPopFacts
<1>n. PICK n \in Nat : n = Len(a) - 1
  BY <1>1
<1>3. PICK b : b = [j \in 1..n |-> a[j + 1]]
  OBVIOUS
<1>4. \A j \in 2..Len(a) : j - 1 \in 1..n /\ b[j - 1] = a[j]
  BY <1>1, <1>n, <1>3
<1>5. /\ Len(r) = n /\ \A i, j \in 1..n : r[i] = r[j] => i = j
      /\ \A i \in 1..n : \E j \in 2..Len(a) : r[i] = a[j]
  BY <1>1, <1>2, <1>n
<1>6. Unlike(n, r) /\ Within(n, r, b)
  <2>1. ASSUME NEW i \in 1..n PROVE \E j \in 1..n : r[i] = b[j]
    <3>1. PICK j \in 2..Len(a) : r[i] = a[j]
      BY <1>5
    <3>2. j - 1 \in 1..n /\ r[i] = b[j - 1]
      BY <1>4, <3>1
    <3>3. QED
      BY <3>2
  <2>2. QED
    BY <1>5, <2>1 DEF Unlike, Within
<1>7. Within(n, b, r)
  BY <1>6, SameElems
<1>8. ASSUME NEW j \in 2..Len(a) PROVE a[j] \in Elems(r)
  <2>1. \A i \in 1..n : b[i] \in Elems(r)
    BY <1>5, <1>7 DEF Elems, Within
  <2>2. QED
    BY <1>4, <2>1
<1>9. QED
  BY <1>2, <1>8 DEF Popped, Listed

LEMMA DelayKI ==
  ASSUME KI, NEW d \in Delays, Delay(d)
  PROVE  KI' /\ Effect /\ Held
<1> DEFINE g == [frame[cur] EXCEPT !.at = "delay", !.due = now + d]
<1>1. /\ phase \in UserPhases /\ phase = "user" /\ now + d <= MaxTime /\ frame[cur].at = "user"
      /\ UNCHANGED <<waiters, valid, curproc, now, busyq, shutdown>>
  BY DEF Delay, Calls, UserPhases
<1>2. PICK s : s = Timed(obj, cur, d)
  OBVIOUS
<1>3. /\ delayq' = HeapPush(delayq, ThreadKeys(s), cur)
      /\ ExecBlock(s, TRUE, [frame EXCEPT ![cur].at = "delay", ![cur].due = now + d])
  BY <1>2 DEF Delay
<1>4. /\ cur \in Threads /\ cur \in AllThreads /\ frame \in [Threads -> FrameType] /\ Good(obj)
      /\ now \in Times
  BY <1>1, UserFacts DEF KI, Frames, Rest
<1>5. d \in Times /\ now + d \in Nat
  BY <1>1, <1>4, KernelAssumption, ProcAssumption DEF Times
<1>6. /\ Good(s) /\ s.tstate = obj.tstate /\ s.prio = obj.prio /\ s.proc = obj.proc
      /\ s.pstate = obj.pstate /\ s.bt = obj.bt
  <2>1. \A a, b \in Times :
          LET z == [obj EXCEPT !.time[cur] = a, !.start[cur] = b]
          IN  /\ Good(z) /\ z.tstate = obj.tstate
              /\ z.prio = obj.prio /\ z.proc = obj.proc /\ z.pstate = obj.pstate /\ z.bt = obj.bt
    BY ONLY <1>4, FieldsGood
  <2>2. QED
    BY <1>2, <1>4, <1>5, <2>1 DEF Timed
<1>7. PICK fr : fr = [frame EXCEPT ![cur].at = "delay", ![cur].due = now + d]
  OBVIOUS
<1>8. fr = [frame EXCEPT ![cur] = g]
  BY <1>4, <1>7
<1>9. g \in FrameType /\ g.at \in Resting /\ g.at = "delay"
  BY <1>4, <1>5 DEF FrameType, Resting
<1> HIDE DEF g
<1>10. /\ delayq \in Seq(Threads) /\ \A i, j \in 1..Len(delayq) : delayq[i] = delayq[j] => i = j
       /\ \A i \in 1..Len(delayq) : Blocked(delayq[i], "delay")
       /\ \A i \in 1..Len(delayq) : delayq[i] # cur
  BY <1>1, CallerFree DEF KI, Rest, Lists, Delayed
<1>11. PICK r, key : r = HeapPush(delayq, key, cur) /\ r = delayq'
  BY <1>3
<1>12. /\ r \in Seq(Threads) /\ Len(r) = Len(delayq) + 1
       /\ \A i, j \in 1..Len(r) : r[i] = r[j] => i = j
       /\ \A i \in 1..Len(r) : r[i] = cur \/ \E j \in 1..Len(delayq) : r[i] = delayq[j]
       /\ Elems(r) = Elems(delayq) \cup {cur}
  <2>1. Listed(delayq, Threads)
    BY ONLY <1>10 DEF Listed
  <2>2. Pushed(r, delayq, Threads, cur)
    BY ONLY <1>4, <1>10, <1>11, <2>1, PushListed
  <2>3. QED
    BY ONLY <2>2 DEF Pushed, Listed
<1>13. (\E v \in AllThreads : SwitchCall(v)) /\ frame'[cur] = g /\ obj'.tstate[cur] = "Run"
  <2>1. /\ ExecBlock(s, TRUE, fr) /\ UNCHANGED <<valid, curproc, now, busyq, shutdown>>
        /\ KI /\ phase \in UserPhases /\ phase = "user" /\ Parked(g) /\ frame[cur].at = "user"
    BY <1>1, <1>3, <1>7, <1>9, <1>11, <1>12 DEF Parked
  <2>2. QED
    BY ONLY <1>6, <1>8, <1>9, <2>1, BlockSwitch
<1>14. PICK v \in AllThreads : SwitchCall(v)
  BY <1>13
<1>15. \A u \in Threads : Still(u)
  BY <1>1, <1>4, <1>14, SwitchStill, CallerStill
<1>16. Waiting'
  BY <1>1, <1>15, WaitingKept
<1>17. ASSUME NEW i \in 1..Len(r)
       PROVE  obj'.tstate[r[i]] = "Done" \/ (obj'.tstate[r[i]] = "Run" /\ frame'[r[i]].at = "delay")
  <2>1. CASE r[i] = cur
    BY <1>9, <1>13, <2>1
  <2>2. CASE r[i] # cur
    <3>1. PICK j \in 1..Len(delayq) : r[i] = delayq[j]
      BY <1>12, <2>2
    <3>2. PICK n \in Threads : n = delayq[j]
      BY <1>10
    <3>3. Blocked(n, "delay") /\ Still(n)
      BY <1>15, <1>10, <3>2
    <3>4. QED
      BY <3>1, <3>2, <3>3 DEF Blocked, Still
  <2>3. QED
    BY <2>1, <2>2
<1>18. Delayed'
  BY <1>11, <1>12, <1>17 DEF Delayed, Blocked
<1>19. waiters' \in [Threads -> Seq(Threads)] /\ delayq' \in Seq(Threads) /\ Lists'
  BY <1>1, <1>16, <1>11, <1>12, <1>18 DEF KI, Rest, Lists
<1>20. Held
  <2>1. Joined
    BY <1>1, <1>11, <1>12, <1>13 DEF Joined, InList
  <2>2. QED
    BY <1>1, <1>11, <1>12, <2>1 DEF Held
<1>21. QED
  BY <1>14, <1>19, <1>20, SwitchKI

(* pExit, and pBusy outside the time model.                                *)
LEMMA LeaveKI ==
  ASSUME KI, Exit \/ BusyRefused \/ BadPriority
  PROVE  KI' /\ Effect
<1>1. /\ phase \in UserPhases /\ phase = "user" /\ shutdown' = TRUE /\ obj' = SwitchReady(obj, cur)
      /\ Resume(MAIN, TRUE, frame)
      /\ UNCHANGED <<waiters, valid, curproc, now, delayq, busyq>>
  BY DEF Exit, BusyRefused, BadPriority, Leave, Calls, UserPhases, timeVars
<1>2. cur' = MAIN /\ phase' = "sched" /\ locked' = TRUE /\ frame' = frame
  BY <1>1, ThreadFacts DEF Resume
<1>3. /\ cur \in Threads /\ cur \in AllThreads /\ obj.tstate[cur] = "Run" /\ obj.proc[cur] \in Procs
      /\ Good(obj) /\ IdleProcs
  BY <1>1, UserFacts DEF KI
<1>4. Readied(obj, obj', cur)
  BY <1>1, <1>3, SwitchReadyGood
<1>5. /\ Good(obj') /\ obj'.tstate = [obj.tstate EXCEPT ![cur] = "Ready"]
      /\ obj'.prio = obj.prio /\ obj'.proc = obj.proc /\ obj'.bt = obj.bt
      /\ obj'.pstate = [obj.pstate EXCEPT ![obj.proc[cur]] = "Running"]
  BY <1>3, <1>4 DEF Readied
<1>6. IdleProcs' /\ Frames'
  BY <1>2, <1>3, <1>5, FieldTypes, FramesSame DEF IdleProcs
<1>7. (\A u \in AllThreads \ {cur} : Kept(u)) /\ obj'.tstate[cur] = "Ready"
  BY <1>3, <1>5, FieldTypes DEF Kept
<1>8. Left
  BY <1>1, <1>2, <1>5, <1>7 DEF Left
<1>9. Effect
  BY <1>8 DEF Effect
<1>10. \A u \in Threads : Still(u)
  BY <1>1, <1>2, <1>3, <1>7, CallerStill, ThreadFacts DEF Still, Kept
<1>11. Lists'
  BY <1>1, <1>10, WaitingKept, DelayedKept DEF Lists
<1>12. Rest'
  BY <1>1, <1>2, ThreadFacts DEF KI, Rest, MainPhases
<1>13. QED
  BY <1>5, <1>6, <1>9, <1>11, <1>12, StepKI

(* The end of a thread.                                                    *)
LEMMA SwitchTermKI ==
  ASSUME KI, SwitchTerm
  PROVE  KI' /\ Effect
<1> DEFINE t == NextReady(obj, curproc)
           y == GetReady(obj, curproc)
<1>1. /\ phase = "reap" /\ phase \in UserPhases /\ waiters[cur] = <<>>
      /\ UNCHANGED <<waiters, valid, curproc, now, delayq, busyq, shutdown>>
  BY DEF SwitchTerm, UserPhases, timeVars
<1>2. /\ cur \in Threads /\ cur \in AllThreads /\ cur # MAIN /\ curproc \in Procs
      /\ obj.tstate[cur] = "Run" /\ obj.proc[cur] \in Procs /\ Good(obj)
      /\ obj.tstate \in [AllThreads -> {"None", "Run", "Ready", "Busy", "Done"}]
      /\ obj.proc \in [AllThreads -> ProcPtr]
  BY <1>1, UserFacts, FieldTypes DEF KI
<1>3. t # NULL /\ TakenNext(obj, y, curproc, t) /\ y.proc = obj.proc
  BY <1>1, <1>2, NextExists, UserFacts
<1>4. /\ obj' = [y EXCEPT !.tstate[cur] = "Done"]
      /\ cur' = t /\ phase' = (IF t = MAIN THEN "sched" ELSE "user") /\ locked' = (t = MAIN)
      /\ frame' = IF t \in Threads /\ frame[t].at \in Resting THEN [frame EXCEPT ![t] = Idle] ELSE frame
  BY <1>3 DEF SwitchTerm, Resume
<1> HIDE DEF y, t
<1>5. /\ t \in AllThreads /\ obj.tstate[t] = "Ready" /\ t # cur
      /\ obj.proc[t] \in Procs /\ Owner[obj.proc[t]] = Owner[curproc]
      /\ \A u \in AllThreads : obj.tstate[u] = "Ready" /\ Owner[obj.proc[u]] = Owner[curproc]
                                 => obj.prio[u] <= obj.prio[t]
      /\ Good(y) /\ y.tstate = [obj.tstate EXCEPT ![t] = "Run"]
      /\ y.prio = obj.prio /\ y.pstate = obj.pstate /\ y.bt = obj.bt
  BY <1>2, <1>3 DEF TakenNext
<1>6. cur \notin ReadySet(y)
  BY <1>2, <1>5 DEF ReadySet
<1>7. /\ Good(obj') /\ obj'.tstate = [y.tstate EXCEPT ![cur] = "Done"]
      /\ obj'.prio = y.prio /\ obj'.proc = y.proc /\ obj'.pstate = y.pstate /\ obj'.bt = y.bt
  <2>1. cur \notin ReadySet(y) =>
          LET z == [y EXCEPT !.tstate[cur] = "Done"]
          IN  /\ Good(z) /\ z.tstate = [y.tstate EXCEPT ![cur] = "Done"]
              /\ z.prio = y.prio /\ z.proc = y.proc /\ z.pstate = y.pstate /\ z.bt = y.bt
    BY ONLY <1>2, <1>5, FieldsGood
  <2>2. QED
    BY <1>4, <1>6, <2>1
<1>8. IdleProcs'
  BY <1>5, <1>7 DEF KI, IdleProcs
<1>9. Frames' /\ (\A u \in Threads \ {t} : frame'[u] = frame[u]) /\ (t \in Threads => Resumed(frame[t], frame'[t]))
  BY <1>4, <1>5, ResumeFrames DEF KI, Frames
<1>10. \A u \in AllThreads \ {cur, t} : Kept(u)
  BY <1>2, <1>3, <1>5, <1>7 DEF Kept
<1>11. First(t)
  BY <1>2, <1>3, <1>5, <1>7, <1>9 DEF First, Resumed
<1>12. /\ obj'.tstate[cur] = "Done" /\ obj'.proc[cur] \in Procs /\ obj'.proc[cur] = obj.proc[cur]
       /\ frame'[cur].at \notin Resting /\ frame'[cur] = frame[cur]
  BY <1>1, <1>2, <1>3, <1>5, <1>7, <1>9, UserFacts
<1>13. GaveWay(t)
  BY <1>1, <1>4, <1>9, <1>10, <1>11, <1>12 DEF GaveWay
<1>14. SwitchCall(t)
  BY <1>1, <1>5, <1>7, <1>8, <1>9, <1>13 DEF SwitchCall
<1>15. \A u \in Threads : Still(u)
  BY <1>1, <1>2, <1>5, <1>14, SwitchStill, CallerStill
<1>16. Lists'
  BY <1>1, <1>15, WaitingKept, DelayedKept DEF Lists
<1>17. waiters' \in [Threads -> Seq(Threads)] /\ delayq' \in Seq(Threads)
  BY <1>1 DEF KI, Rest
<1>18. QED
  BY <1>5, <1>14, <1>16, <1>17, SwitchKI

(* pSetPriority.                                                           *)
LEMMA SetPriorityKI ==
  ASSUME KI, NEW u \in Prios, SetPriority(u)
  PROVE  KI' /\ Effect
<1>1. PICK pr, s, w : pr = ConvertPriority(u) /\ s = [obj EXCEPT !.prio[cur] = pr]
                       /\ w = AddReady(s, curproc, cur)
  OBVIOUS
<1>2. /\ phase = "user" /\ phase \in UserPhases /\ frame[cur].at = "user" /\ "setprio" \in Ops
      /\ \/ ExecBlock(w, TRUE, frame)
         \/ obj' = s /\ locked' = TRUE /\ UNCHANGED <<cur, phase, frame>>
      /\ UNCHANGED <<waiters, valid, curproc, now, delayq, busyq, shutdown>>
  BY <1>1 DEF SetPriority, Calls, UserPhases, timeVars
<1>3. pr \in Prios
  BY <1>1, ProcAssumption DEF ConvertPriority, Prios
<1>4. /\ cur \in Threads /\ cur \in AllThreads /\ cur # MAIN /\ curproc \in Procs
      /\ obj.tstate[cur] = "Run" /\ frame[cur].at \notin Resting
      /\ obj.proc[cur] \in Procs /\ Owner[obj.proc[cur]] = Owner[curproc]
      /\ obj.tstate[MAIN] = "Ready" /\ Good(obj) /\ IdleProcs
      /\ obj.tstate \in [AllThreads -> {"None", "Run", "Ready", "Busy", "Done"}]
      /\ obj.proc \in [AllThreads -> ProcPtr] /\ obj.prio \in [AllThreads -> Prios]
      /\ frame \in [Threads -> FrameType]
  BY <1>2, UserFacts, FieldTypes DEF KI, Frames
<1>5. /\ Good(s) /\ s.prio = [obj.prio EXCEPT ![cur] = pr]
      /\ s.tstate = obj.tstate /\ s.proc = obj.proc /\ s.pstate = obj.pstate /\ s.bt = obj.bt
  <2>1. cur \notin ReadySet(obj)
    BY <1>4 DEF ReadySet
  <2>2. \A i \in Prios : cur \notin ReadySet(obj) =>
          LET z == [obj EXCEPT !.prio[cur] = i]
          IN  /\ Good(z) /\ z.prio = [obj.prio EXCEPT ![cur] = i]
              /\ z.tstate = obj.tstate /\ z.proc = obj.proc /\ z.pstate = obj.pstate /\ z.bt = obj.bt
    BY ONLY <1>4, FieldsGood
  <2>3. QED
    BY <1>1, <1>3, <2>1, <2>2
<1>6. CASE obj' = s /\ locked' = TRUE /\ UNCHANGED <<cur, phase, frame>>
  <2>1. \A v \in AllThreads \ {cur} : Kept(v)
    BY <1>4, <1>5, <1>6 DEF Kept
  <2>2. IdleProcs' /\ Frames'
    BY <1>4, <1>5, <1>6, FramesSame DEF IdleProcs
  <2>3. PlainCall
    BY <1>2, <1>4, <1>5, <1>6, <2>1, <2>2 DEF PlainCall
  <2>4. QED
    BY <2>3, PlainCallKI
<1>7. CASE ExecBlock(w, TRUE, frame)
  <2>1. /\ Good(w) /\ w.tstate = [obj.tstate EXCEPT ![cur] = "Ready"] /\ w.prio = s.prio
        /\ w.proc = obj.proc /\ w.pstate = obj.pstate /\ w.bt = obj.bt
    <3>1. /\ Good(s) /\ cur \in AllThreads /\ curproc \in Procs
          /\ s.proc[cur] \in Procs /\ Owner[s.proc[cur]] = Owner[curproc]
      BY <1>4, <1>5
    <3>2. LET z == AddReady(s, curproc, cur)
          IN  /\ Good(z) /\ SameProcs(s.mem, z.mem)
              /\ z.tstate = IF s.tstate[cur] \in {"Run", "Busy"} THEN [s.tstate EXCEPT ![cur] = "Ready"]
                            ELSE s.tstate
              /\ z.prio = s.prio /\ z.proc = s.proc /\ z.time = s.time /\ z.start = s.start
              /\ z.pstate = s.pstate /\ z.bt = s.bt /\ z.bad = s.bad
      BY ONLY <3>1, AddReadyGood
    <3>3. QED
      BY <1>1, <1>4, <1>5, <3>2
  <2>2. PICK t, y : t = NextReady(w, curproc) /\ y = SetProc(GetReady(w, curproc), t, curproc)
    OBVIOUS
  <2>3. w.tstate[MAIN] = "Ready"
    BY <1>4, <2>1, ThreadFacts
  <2>4. t # NULL /\ TakenNext(w, y, curproc, t) /\ y.proc = [obj.proc EXCEPT ![t] = curproc]
    <3>1. KI /\ phase \in UserPhases /\ Good(w) /\ w.proc = obj.proc
      BY <1>2, <2>1
    <3>2. QED
      BY ONLY <2>2, <2>3, <3>1, NextExists
  <2>5. /\ t \in AllThreads /\ w.tstate[t] = "Ready"
        /\ obj.proc[t] \in Procs /\ Owner[obj.proc[t]] = Owner[curproc]
        /\ \A v \in AllThreads : w.tstate[v] = "Ready" /\ Owner[obj.proc[v]] = Owner[curproc]
                                   => w.prio[v] <= w.prio[t]
        /\ Good(y) /\ y.tstate = [w.tstate EXCEPT ![t] = "Run"]
        /\ y.prio = s.prio /\ y.pstate = obj.pstate /\ y.bt = obj.bt
    BY <2>1, <2>4 DEF TakenNext
  <2>6. obj' = y
    BY <1>7, <2>2, <2>4 DEF ExecBlock
  <2>7. (CASE t = NULL -> Crash("null_thread", frame)
           [] t = cur  -> Crash("self_switch", frame)
           [] OTHER    -> Resume(t, TRUE, frame))
    BY <1>7, <2>2 DEF ExecBlock
  <2>8. IdleProcs'
    BY <1>4, <2>5, <2>6 DEF IdleProcs
  <2>9. \A v \in AllThreads \ {cur, t} : Kept(v)
    BY <1>4, <1>5, <2>1, <2>4, <2>5, <2>6 DEF Kept
  <2>10. CASE t = cur
    <3>1. Crash("self_switch", frame)
      BY <2>4, <2>7, <2>10
    <3>2. phase' = "self_switch" /\ frame' = frame /\ cur' = cur /\ locked' = locked
      BY <3>1 DEF Crash
    <3>3. obj'.tstate[cur] = "Run" /\ obj'.proc[cur] \in Procs /\ obj'.proc[cur] \in {obj.proc[cur], curproc}
      BY <1>4, <2>1, <2>4, <2>5, <2>6, <2>10
    <3>4. Stuck
      BY <1>2, <2>9, <2>10, <3>2, <3>3 DEF Stuck
    <3>5. Effect
      BY <3>4 DEF Effect
    <3>6. \A v \in Threads : Still(v)
      BY <1>2, <2>9, <2>10, <3>2, CallerStill, ThreadFacts DEF Still, Kept
    <3>7. Lists' /\ Frames'
      BY <1>2, <3>2, <3>6, WaitingKept, DelayedKept, FramesSame DEF Lists
    <3>8. Rest'
      BY <1>2, <3>2 DEF KI, Rest
    <3>9. QED
      BY <2>5, <2>6, <2>8, <3>5, <3>7, <3>8, StepKI
  <2>11. CASE t # cur
    <3>1. Resume(t, TRUE, frame)
      BY <2>4, <2>7, <2>11
    <3>2. /\ cur' = t /\ phase' = (IF t = MAIN THEN "sched" ELSE "user") /\ locked' = (t = MAIN)
          /\ frame' = IF t \in Threads /\ frame[t].at \in Resting THEN [frame EXCEPT ![t] = Idle] ELSE frame
      BY <3>1 DEF Resume
    <3>3. Frames' /\ (\A v \in Threads \ {t} : frame'[v] = frame[v]) /\ (t \in Threads => Resumed(frame[t], frame'[t]))
      BY <2>5, <3>2, ResumeFrames DEF KI, Frames
    <3>4. obj.tstate[t] = "Ready"
      BY <1>4, <2>1, <2>5, <2>11
    <3>5. \A v \in AllThreads \ {cur} :
            obj.tstate[v] = "Ready" /\ Owner[obj.proc[v]] = Owner[curproc] => obj.prio[v] <= obj.prio[t]
      BY <1>4, <1>5, <2>1, <2>5, <2>11
    <3>6. /\ obj'.tstate[t] = "Run" /\ obj'.prio[t] = obj.prio[t]
          /\ obj'.proc[t] \in Procs /\ Owner[obj'.proc[t]] = Owner[curproc]
          /\ obj'.proc[t] \in {obj.proc[t], curproc}
      BY <1>4, <1>5, <2>1, <2>4, <2>5, <2>6, <2>11
    <3>7. First(t)
      BY <2>5, <2>11, <3>3, <3>4, <3>5, <3>6 DEF First, Resumed
    <3>8. /\ obj'.tstate[cur] = "Ready" /\ obj'.proc[cur] \in Procs /\ obj'.proc[cur] = obj.proc[cur]
          /\ frame'[cur].at \notin Resting /\ frame'[cur] = frame[cur]
      BY <1>4, <2>1, <2>4, <2>5, <2>6, <2>11, <3>3
    <3>9. GaveWay(t)
      BY <1>2, <2>9, <3>2, <3>3, <3>7, <3>8 DEF GaveWay
    <3>10. SwitchCall(t)
      BY <1>2, <2>5, <2>6, <2>8, <3>3, <3>4, <3>9 DEF SwitchCall
    <3>11. \A v \in Threads : Still(v)
      BY <1>2, <1>4, <2>5, <3>10, SwitchStill, CallerStill
    <3>12. Lists'
      BY <1>2, <3>11, WaitingKept, DelayedKept DEF Lists
    <3>13. waiters' \in [Threads -> Seq(Threads)] /\ delayq' \in Seq(Threads)
      BY <1>2 DEF KI, Rest
    <3>14. QED
      BY <2>5, <3>10, <3>12, <3>13, SwitchKI
  <2>12. QED
    BY <2>10, <2>11
<1>8. QED
  BY <1>2, <1>6, <1>7

(* One of the waiters of a terminating thread is made ready.               *)
LEMMA ReapKI ==
  ASSUME KI, Reap
  PROVE  KI' /\ Effect /\ Held
<1>1. PICK w, n : w = waiters[cur] /\ n = w[Len(w)]
  OBVIOUS
<1>2. /\ phase = "reap" /\ phase \in UserPhases /\ w # <<>> /\ obj' = SwitchReady(obj, n)
      /\ waiters' = [waiters EXCEPT ![cur] = SubSeq(w, 1, Len(w) - 1)]
      /\ UNCHANGED <<valid, cur, curproc, locked, phase, now, delayq, busyq, shutdown, frame>>
  BY <1>1 DEF Reap, SwitchReady, UserPhases, clusterVars, timeVars
<1>3. /\ cur \in Threads /\ cur \in AllThreads /\ obj.tstate[cur] = "Run"
      /\ frame[cur].at \notin Resting /\ Good(obj) /\ IdleProcs /\ Waiting /\ Delayed
      /\ waiters \in [Threads -> Seq(Threads)] /\ delayq \in Seq(Threads) /\ locked
      /\ obj.tstate \in [AllThreads -> {"None", "Run", "Ready", "Busy", "Done"}]
      /\ obj.proc \in [AllThreads -> ProcPtr]
  BY <1>2, UserFacts, FieldTypes DEF KI, Lists, Rest, Turns, Reaping
<1>4. w \in Seq(Threads) /\ Len(w) \in 1..Len(w) /\ Len(w) \in Nat /\ n \in Threads
  BY <1>1, <1>2, <1>3
<1>5. /\ Blocked(n, "wait") /\ (obj.tstate[n] = "Run" => frame[n].tgt = cur)
      /\ \A i, j \in 1..Len(w) : w[i] = w[j] => i = j
  BY <1>1, <1>3, <1>4 DEF Waiting
<1>6. /\ n # cur /\ n \in AllThreads /\ obj.proc[n] \in Procs /\ obj.tstate[n] # "Busy"
      /\ obj.tstate[n] = "Run" => frame[n].at = "wait"
  BY <1>2, <1>3, <1>4, <1>5, UserFacts, ThreadFacts DEF Blocked, Resting
<1>7. Readied(obj, obj', n)
  BY <1>2, <1>3, <1>6, SwitchReadyGood
<1>8. /\ Good(obj')
      /\ obj'.tstate = IF obj.tstate[n] = "Run" THEN [obj.tstate EXCEPT ![n] = "Ready"] ELSE obj.tstate
      /\ obj'.prio = obj.prio /\ obj'.proc = obj.proc /\ obj'.bt = obj.bt
      /\ obj'.pstate = [obj.pstate EXCEPT ![obj.proc[n]] = "Running"]
  BY <1>7 DEF Readied
<1>9. IdleProcs' /\ Frames'
  BY <1>2, <1>3, <1>6, <1>8, FieldTypes, FramesSame DEF IdleProcs
<1>10. (\A v \in AllThreads \ {n} : Kept(v)) /\ (Kept(n) \/ Woken(n))
  BY <1>2, <1>3, <1>4, <1>5, <1>6, <1>8 DEF Kept, Woken, Resting
<1>11. Called
  BY <1>2, <1>3, <1>6, <1>10 DEF Called, Kept
<1>12. Effect
  BY <1>11 DEF Effect
<1>13. \A v \in Threads \ {n} : obj'.tstate[v] = obj.tstate[v] /\ frame'[v] = frame[v]
  BY <1>2, <1>10, ThreadFacts DEF Kept
<1>14. obj'.tstate[n] = "Done" \/ obj.tstate[n] = "Run"
  BY <1>5, <1>8 DEF Blocked
<1>15. ASSUME NEW u \in Threads
       PROVE  /\ \A i \in 1..Len(waiters'[u]) : WillWait(waiters'[u][i], u)
              /\ \A i, j \in 1..Len(waiters'[u]) : waiters'[u][i] = waiters'[u][j] => i = j
  <2>1. PICK a, b : a = waiters[u] /\ b = waiters'[u]
    OBVIOUS
  <2>2. /\ a \in Seq(Threads) /\ Len(a) \in Nat
        /\ \A i, j \in 1..Len(a) : a[i] = a[j] => i = j
        /\ \A i \in 1..Len(a) : Blocked(a[i], "wait") /\ (obj.tstate[a[i]] = "Run" => frame[a[i]].tgt = u)
    BY <1>3, <2>1 DEF Waiting
  <2>3. CASE u # cur
    <3>1. b = a
      BY <1>2, <1>3, <2>1, <2>3
    <3>2. ASSUME NEW i \in 1..Len(a) PROVE WillWait(a[i], u)
      <4>1. PICK v \in Threads : v = a[i]
        BY <2>2
      <4>2. Blocked(v, "wait") /\ (obj.tstate[v] = "Run" => frame[v].tgt = u)
        BY <2>2, <4>1
      <4>3. CASE v # n
        BY <1>13, <4>1, <4>2, <4>3 DEF WillWait, Blocked
      <4>4. CASE v = n
        BY <1>5, <1>14, <2>3, <4>1, <4>2, <4>4 DEF WillWait
      <4>5. QED
        BY <4>3, <4>4
    <3>3. QED
      BY <2>1, <2>2, <3>1, <3>2
  <2>4. CASE u = cur
    <3>1. /\ a = w /\ Len(b) = Len(w) - 1
          /\ \A i \in 1..Len(b) : b[i] = w[i] /\ i \in 1..Len(w) /\ i # Len(w)
      <4>1. a = w /\ b = SubSeq(w, 1, Len(w) - 1)
        BY <1>1, <1>2, <1>3, <2>1, <2>4
      <4>2. PICK l : l = Len(w) - 1
        OBVIOUS
      <4>3. l \in Nat /\ l + 1 = Len(w) /\ b = SubSeq(w, 1, l)
        BY ONLY <1>4, <4>1, <4>2
      <4>4. Len(b) = l /\ \A i \in 1..l : b[i] = w[i]
        BY ONLY <1>4, <4>3
      <4>5. QED
        BY ONLY <4>1, <4>3, <4>4
    <3>2. ASSUME NEW i \in 1..Len(b) PROVE WillWait(b[i], u)
      <4>1. i \in 1..Len(a) /\ b[i] = a[i] /\ a[i] # n
        BY <1>1, <1>4, <1>5, <3>1
      <4>2. PICK v \in Threads : v = a[i]
        BY <2>2, <4>1
      <4>3. Blocked(v, "wait") /\ (obj.tstate[v] = "Run" => frame[v].tgt = u)
        BY <2>2, <4>1, <4>2
      <4>4. QED
        BY <1>13, <4>1, <4>2, <4>3 DEF WillWait, Blocked
    <3>3. \A i, j \in 1..Len(b) : b[i] = b[j] => i = j
      BY <1>5, <3>1
    <3>4. QED
      BY <2>1, <3>2, <3>3
  <2>5. QED
    BY <2>3, <2>4
<1>16. Waiting'
  BY <1>15, WillWaitAll
<1>17. ASSUME NEW i \in 1..Len(delayq)
       PROVE  obj'.tstate[delayq[i]] = "Done" \/ (obj'.tstate[delayq[i]] = "Run" /\ frame'[delayq[i]].at = "delay")
  <2>1. PICK v \in Threads : v = delayq[i]
    BY <1>3
  <2>2. Blocked(v, "delay")
    BY <1>3, <2>1 DEF Delayed
  <2>3. v = n => obj.tstate[n] # "Run"
    BY <1>6, <2>2 DEF Blocked
  <2>4. QED
    BY <1>13, <1>14, <2>1, <2>2, <2>3 DEF Blocked
<1>18. Delayed'
  BY <1>2, <1>3, <1>17 DEF Delayed, Blocked
<1>19. waiters' \in [Threads -> Seq(Threads)]
  BY <1>2, <1>3, <1>4
<1>20. Rest'
  BY <1>2, <1>19 DEF KI, Rest
<1>21. obj'.tstate[n] # "Run"
  BY <1>3, <1>6, <1>8
<1>22. ASSUME NEW v \in Threads \ {n}, v \in Elems(waiters[cur]) PROVE v \in Elems(waiters'[cur])
  <2>1. PICK b, l : b = waiters'[cur] /\ l = Len(w) - 1
    OBVIOUS
  <2>2. l \in Nat /\ l + 1 = Len(w) /\ b = SubSeq(w, 1, l)
    BY <1>2, <1>3, <1>4, <2>1
  <2>3. Len(b) = l /\ \A i \in 1..l : b[i] = w[i]
    BY ONLY <1>4, <2>2
  <2>4. PICK i \in 1..Len(w) : v = w[i]
    BY <1>1, <1>22 DEF Elems
  <2>5. i \in 1..l
    BY <1>1, <1>4, <2>2, <2>4
  <2>6. QED
    BY <2>1, <2>3, <2>4, <2>5 DEF Elems
<1>23. \A u \in Threads \ {cur} : waiters'[u] = waiters[u]
  BY <1>2, <1>3
<1>24. Held
  <2>1. Elems(waiters'[cur]) \subseteq Elems(waiters[cur])
    <3>1. PICK b, l : b = waiters'[cur] /\ l = Len(w) - 1
      OBVIOUS
    <3>2. l \in Nat /\ l + 1 = Len(w) /\ b = SubSeq(w, 1, l)
      BY <1>2, <1>3, <1>4, <3>1
    <3>3. Len(b) = l /\ \A i \in 1..l : b[i] = w[i] /\ i \in 1..Len(w)
      BY ONLY <1>4, <3>2
    <3>4. QED
      BY <1>1, <3>1, <3>3 DEF Elems
  <2>2. Joined
    BY <1>2, <1>23, <2>1 DEF Joined, InList
  <2>3. QED
    BY <1>2, <1>21, <1>22, <1>23, <2>2 DEF Held
<1>25. QED
  BY <1>8, <1>9, <1>12, <1>16, <1>18, <1>20, <1>24, StepKI DEF Lists

-----------------------------------------------------------------------------
(* The scheduler loop.                                                     *)

LEMMA MainFacts ==
  ASSUME KI, phase \in MainPhases, phase # "sched" \/ ~shutdown
  PROVE  /\ cur \in {MAIN, NULL} /\ cur \notin Threads /\ ~shutdown /\ shutdown = FALSE
         /\ obj.tstate[MAIN] = "Run" /\ (phase = "sched" => curproc \in Procs)
         /\ Good(obj) /\ IdleProcs /\ MemOK(obj.mem)
         /\ \A p \in Procs : obj.pstate[p] # "Busy" /\ obj.bt[p] = NULL
         /\ waiters \in [Threads -> Seq(Threads)] /\ delayq \in Seq(Threads) /\ busyq = <<>>
         /\ now \in Times
<1>1. /\ cur \in {MAIN, NULL} /\ (phase = "sched" => curproc \in Procs)
      /\ (shutdown => phase = "sched") /\ (~shutdown => obj.tstate[MAIN] = "Run")
  BY DEF KI, Turns, MainTurn
<1>2. shutdown \in BOOLEAN
  BY DEF KI, Rest
<1>3. ~shutdown
  BY <1>1
<1>4. shutdown = FALSE
  BY <1>2, <1>3
<1>5. cur \notin Threads
  BY <1>1, ProcAssumption
<1>6. QED
  BY <1>1, <1>3, <1>4, <1>5, FieldTypes DEF KI, Rest, IdleProcs

(* A step of the scheduler that moves no thread.                           *)
QuietStep ==
  /\ phase \in MainPhases /\ phase' \in MainPhases \cup {"exit"}
  /\ (phase' = "sched" => curproc' \in Procs) /\ (shutdown => phase' = "exit")
  /\ curproc' \in ProcPtr /\ now' \in Times
  /\ UNCHANGED <<waiters, valid, cur, locked, delayq, busyq, shutdown, frame>>
  /\ Good(obj') /\ IdleProcs'
  /\ obj'.tstate = obj.tstate /\ obj'.proc = obj.proc /\ obj'.prio = obj.prio

LEMMA QuietKI ==
  ASSUME KI, QuietStep
  PROVE  KI' /\ Effect
<1>1. \A u \in AllThreads : Kept(u)
  BY DEF QuietStep, Kept
<1>2. Scheduled
  BY <1>1 DEF Scheduled, QuietStep
<1>3. Effect
  BY <1>2 DEF Effect
<1>4. \A u \in Threads : Still(u)
  BY DEF QuietStep, Still
<1>5. Lists' /\ Frames'
  BY <1>4, WaitingKept, DelayedKept, FramesSame DEF Lists, QuietStep
<1>6. Rest'
  BY DEF KI, Rest, QuietStep
<1>7. QED
  BY <1>3, <1>5, <1>6, StepKI DEF QuietStep

LEMMA SchedulerExitKI ==
  ASSUME KI, SchedulerExit
  PROVE  KI' /\ Effect
<1>1. QuietStep
  BY DEF SchedulerExit, Quiet, QuietStep, timeVars, KI, Rest, MainPhases, IdleProcs
<1>2. QED
  BY <1>1, QuietKI

LEMMA UpdateProcKI ==
  ASSUME KI, UpdateProc
  PROVE  KI' /\ Effect
<1>1. /\ phase = "sched" /\ phase \in MainPhases /\ ~shutdown /\ phase' = "newproc"
      /\ obj' = [obj EXCEPT !.pstate[curproc] = "Waiting"]
      /\ UNCHANGED <<waiters, valid, cur, curproc, locked, now, delayq, busyq, shutdown, frame>>
  BY DEF UpdateProc, Quiet, timeVars, MainPhases
<1>2. Good(obj) /\ curproc \in Procs /\ IdleProcs
  BY <1>1, MainFacts
<1>3. /\ Good(obj') /\ obj'.tstate = obj.tstate /\ obj'.prio = obj.prio /\ obj'.proc = obj.proc
      /\ obj'.bt = obj.bt /\ obj'.pstate = [obj.pstate EXCEPT ![curproc] = "Waiting"]
  BY <1>1, <1>2, ProcStateGood
<1>4. IdleProcs'
  BY <1>2, <1>3, FieldTypes DEF IdleProcs
<1>5. QuietStep
  BY <1>1, <1>2, <1>3, <1>4 DEF QuietStep, MainPhases, KI, Rest
<1>6. QED
  BY <1>5, QuietKI

LEMMA GetNewProcKI ==
  ASSUME KI, GetNewProc
  PROVE  KI' /\ Effect
<1>1. /\ phase = "newproc" /\ phase \in MainPhases
      /\ curproc' = FirstNonEmpty(obj) /\ obj' = GetNonEmpty(obj)
      /\ phase' = IF curproc' = NULL THEN "time" ELSE Found
      /\ UNCHANGED <<waiters, valid, cur, locked, now, delayq, busyq, shutdown, frame>>
  BY DEF GetNewProc, Quiet, timeVars, MainPhases
<1>2. /\ cur \notin Threads /\ Good(obj) /\ IdleProcs /\ MemOK(obj.mem) /\ ~shutdown /\ now \in Times
  BY <1>1, MainFacts
<1>3. curproc' \in ProcPtr
  BY <1>1, <1>2, FirstIsProc
<1>4. phase' \in {"time", "sched"} /\ (phase' = "sched" => curproc' \in Procs)
  BY <1>1, <1>2, <1>3 DEF Found, ProcPtr
<1>5. /\ Good(obj') /\ obj'.tstate = obj.tstate /\ obj'.prio = obj.prio /\ obj'.proc = obj.proc
      /\ obj'.bt = obj.bt /\ obj'.pstate = obj.pstate
  <2>1. PICK p : p = FirstNonEmpty(obj)
    OBVIOUS
  <2>2. CASE p = NULL
    BY <1>1, <1>2, <2>1, <2>2 DEF GetNonEmpty
  <2>3. CASE p # NULL
    <3>1. p \in Procs
      BY <1>1, <1>3, <2>1, <2>3 DEF ProcPtr
    <3>2. PICK a : a = Remove(obj.mem, ProcQ, p)
      OBVIOUS
    <3>3. ProcsOnly(obj.mem, a)
      BY <1>2, <3>1, <3>2, RemoveProcMem
    <3>4. obj' = [obj EXCEPT !.mem = a]
      BY <1>1, <2>1, <2>3, <3>2 DEF GetNonEmpty
    <3>5. QED
      BY <1>2, <3>3, <3>4, ProcMemGood
  <2>4. QED
    BY <2>2, <2>3
<1>6. IdleProcs'
  BY <1>2, <1>5 DEF IdleProcs
<1>7. QuietStep
  BY <1>1, <1>2, <1>3, <1>4, <1>5, <1>6 DEF QuietStep, MainPhases
<1>8. QED
  BY <1>7, QuietKI

LEMMA AdvanceTimeKI ==
  ASSUME KI, AdvanceTime
  PROVE  KI' /\ Effect
<1>1. /\ phase = "time" /\ phase \in MainPhases
      /\ IF TopEnds = {} THEN phase' = NoneLeft /\ now' = now
         ELSE phase' = "expire" /\ now' = NearestEnd
      /\ UNCHANGED <<obj, waiters, valid, cur, curproc, locked, delayq, busyq, shutdown, frame>>
  BY DEF AdvanceTime, Quiet, MainPhases
<1>2. /\ cur \notin Threads /\ Good(obj) /\ IdleProcs /\ ~shutdown
      /\ now \in Times /\ delayq \in Seq(Threads) /\ busyq = <<>>
  BY <1>1, MainFacts
<1>3. phase' \in {"exit", "expire"}
  BY <1>1, <1>2 DEF NoneLeft
<1>4. now' \in Times
  <2>1. CASE TopEnds = {}
    BY <1>1, <1>2, <2>1
  <2>2. CASE TopEnds # {}
    <3>1. delayq # <<>> /\ TopEnds = {ThreadEnd(obj, HeapTop(delayq))}
      BY <1>2, <2>2 DEF TopEnds
    <3>2. PICK n \in Threads : n = HeapTop(delayq)
      BY <1>2, <3>1 DEF HeapTop
    <3>3. PICK e : e = ThreadEnd(obj, n)
      OBVIOUS
    <3>4. obj.start[n] \in Times /\ obj.time[n] \in Times
      BY <1>2, FieldTypes, ThreadFacts
    <3>5. e \in Times
      BY <3>3, <3>4, ProcAssumption DEF ThreadEnd, Times
    <3>6. TopEnds = {e}
      BY <3>1, <3>2, <3>3
    <3>7. e \in Int /\ e <= e
      BY <3>5 DEF Times
    <3>8. NearestEnd \in TopEnds
      BY <3>6, <3>7 DEF NearestEnd
    <3>9. QED
      BY <1>1, <2>2, <3>5, <3>6, <3>8
  <2>3. QED
    BY <2>1, <2>2
<1>5. QuietStep
  BY <1>1, <1>2, <1>3, <1>4 DEF QuietStep, MainPhases, KI, Rest, IdleProcs
<1>6. QED
  BY <1>5, QuietKI

LEMMA PickProcKI ==
  ASSUME KI, PickProc
  PROVE  KI' /\ Effect
<1>1. PICK p, a, s : p = obj.mem.head[ProcQ] /\ a = Get(obj.mem, ProcQ) /\ s = [obj EXCEPT !.mem = a]
  OBVIOUS
<1>2. /\ phase = "expire" /\ phase \in MainPhases
      /\ \/ obj' = s /\ curproc' = p /\ p # NULL /\ phase' = Found
         \/ /\ obj' = IF p = NULL THEN s ELSE [s EXCEPT !.pstate[p] = "Waiting"]
            /\ curproc' = NULL /\ phase' = "time"
      /\ UNCHANGED <<waiters, valid, cur, locked, now, delayq, busyq, shutdown, frame>>
  BY <1>1 DEF PickProc, Quiet, timeVars, MainPhases
<1>3. /\ cur \notin Threads /\ Good(obj) /\ IdleProcs /\ MemOK(obj.mem) /\ ~shutdown /\ now \in Times
  BY <1>2, MainFacts
<1>4. p \in ProcPtr /\ ProcsOnly(obj.mem, a)
  BY <1>1, <1>3, GetProcMem DEF MemOK
<1>5. /\ Good(s) /\ s.tstate = obj.tstate /\ s.prio = obj.prio /\ s.proc = obj.proc
      /\ s.bt = obj.bt /\ s.pstate = obj.pstate
  BY <1>1, <1>3, <1>4, ProcMemGood
<1>6. curproc' \in ProcPtr /\ phase' \in {"time", "sched"} /\ (phase' = "sched" => curproc' \in Procs)
  BY <1>2, <1>3, <1>4 DEF Found, ProcPtr
<1>7. /\ Good(obj') /\ obj'.tstate = obj.tstate /\ obj'.prio = obj.prio /\ obj'.proc = obj.proc
      /\ obj'.bt = obj.bt
      /\ \/ obj'.pstate = obj.pstate
         \/ p \in Procs /\ obj'.pstate = [obj.pstate EXCEPT ![p] = "Waiting"]
  <2>1. CASE obj' = s
    BY <1>5, <2>1
  <2>2. CASE p # NULL /\ obj' = [s EXCEPT !.pstate[p] = "Waiting"]
    <3>1. p \in Procs
      BY <1>4, <2>2 DEF ProcPtr
    <3>2. /\ Good(obj') /\ obj'.tstate = s.tstate /\ obj'.prio = s.prio /\ obj'.proc = s.proc
          /\ obj'.bt = s.bt /\ obj'.pstate = [s.pstate EXCEPT ![p] = "Waiting"]
      BY <1>5, <2>2, <3>1, ProcStateGood
    <3>3. QED
      BY <1>5, <3>1, <3>2
  <2>3. QED
    BY <1>2, <2>1, <2>2
<1>8. IdleProcs'
  BY <1>3, <1>7, FieldTypes DEF IdleProcs
<1>9. QuietStep
  BY <1>2, <1>3, <1>6, <1>7, <1>8 DEF QuietStep, MainPhases
<1>10. QED
  BY <1>9, QuietKI

(* A thread whose delay is over is made ready.                             *)
LEMMA ExpireDelayKI ==
  ASSUME KI, ExpireDelay
  PROVE  KI' /\ Effect /\ Held
<1>1. PICK n, r, key : n = HeapTop(delayq) /\ key = ThreadKeys(obj) /\ r = HeapPop(delayq, key)
  OBVIOUS
<1>2. /\ phase = "expire" /\ phase \in MainPhases /\ delayq # <<>> /\ phase' = phase
      /\ delayq' = r /\ obj' = AddThreadToProc(obj, n, now)
      /\ UNCHANGED <<waiters, valid, cur, curproc, locked, now, busyq, shutdown, frame>>
  BY <1>1 DEF ExpireDelay, DelayDue, Quiet, clusterVars, MainPhases
<1>3. /\ cur \notin Threads /\ Good(obj) /\ IdleProcs /\ ~shutdown /\ delayq \in Seq(Threads)
      /\ waiters \in [Threads -> Seq(Threads)] /\ Waiting /\ Delayed
      /\ obj.tstate \in [AllThreads -> {"None", "Run", "Ready", "Busy", "Done"}]
      /\ obj.proc \in [AllThreads -> ProcPtr]
  BY <1>2, MainFacts, FieldTypes DEF KI, Lists
<1>4. n \in Threads /\ n = delayq[1] /\ 1 \in 1..Len(delayq) /\ Len(delayq) \in Nat
  BY <1>1, <1>2, <1>3 DEF HeapTop
<1>5. Blocked(n, "delay")
  BY <1>3, <1>4 DEF Delayed
<1>6. /\ n \in AllThreads /\ obj.proc[n] \in Procs /\ obj.tstate[n] # "Busy"
      /\ obj.pstate[obj.proc[n]] # "Busy" /\ (obj.tstate[n] = "Run" => frame[n].at = "delay")
  BY <1>3, <1>4, <1>5, ThreadFacts DEF Blocked, KI, Turns, Untimed, IdleProcs
<1>7. Readied(obj, obj', n)
  BY <1>2, <1>3, <1>6, AddThreadGood
<1>8. /\ Good(obj')
      /\ obj'.tstate = IF obj.tstate[n] = "Run" THEN [obj.tstate EXCEPT ![n] = "Ready"] ELSE obj.tstate
      /\ obj'.prio = obj.prio /\ obj'.proc = obj.proc /\ obj'.bt = obj.bt
      /\ obj'.pstate = [obj.pstate EXCEPT ![obj.proc[n]] = "Running"]
  BY <1>7 DEF Readied
<1>9. IdleProcs' /\ Frames'
  BY <1>2, <1>3, <1>6, <1>8, FieldTypes, FramesSame DEF IdleProcs
<1>10. (\A v \in AllThreads \ {n} : Kept(v)) /\ (Kept(n) \/ Woken(n))
  BY <1>3, <1>4, <1>6, <1>8 DEF Kept, Woken, Resting
<1>11. Scheduled
  BY <1>2, <1>3, <1>10 DEF Scheduled
<1>12. Effect
  BY <1>11 DEF Effect
<1>13. \A v \in Threads \ {n} : obj'.tstate[v] = obj.tstate[v] /\ frame'[v] = frame[v]
  BY <1>2, <1>10, ThreadFacts DEF Kept
<1>14. obj'.tstate[n] = "Done" \/ obj.tstate[n] = "Run"
  BY <1>5, <1>8 DEF Blocked
<1>15. ASSUME NEW u \in Threads
       PROVE  /\ \A i \in 1..Len(waiters'[u]) : WillWait(waiters'[u][i], u)
              /\ \A i, j \in 1..Len(waiters'[u]) : waiters'[u][i] = waiters'[u][j] => i = j
  <2>1. PICK a : a = waiters[u]
    OBVIOUS
  <2>2. /\ a \in Seq(Threads) /\ waiters'[u] = a
        /\ \A i, j \in 1..Len(a) : a[i] = a[j] => i = j
        /\ \A i \in 1..Len(a) : Blocked(a[i], "wait") /\ (obj.tstate[a[i]] = "Run" => frame[a[i]].tgt = u)
    BY <1>2, <1>3, <2>1 DEF Waiting
  <2>3. ASSUME NEW i \in 1..Len(a) PROVE WillWait(a[i], u)
    <3>1. PICK v \in Threads : v = a[i]
      BY <2>2
    <3>2. Blocked(v, "wait") /\ (obj.tstate[v] = "Run" => frame[v].tgt = u)
      BY <2>2, <3>1
    <3>3. CASE v # n
      BY <1>13, <3>1, <3>2, <3>3 DEF WillWait, Blocked
    <3>4. CASE v = n
      BY <1>6, <1>14, <3>1, <3>2, <3>4 DEF WillWait, Blocked
    <3>5. QED
      BY <3>3, <3>4
  <2>4. QED
    BY <2>2, <2>3
<1>16. Waiting'
  BY <1>15, WillWaitAll
<1>17. Listed(delayq, Threads)
  BY <1>3 DEF Listed, Delayed
<1>18. Popped(r, delayq, Threads)
  BY ONLY <1>1, <1>2, <1>17, PopListed
<1>19. /\ r \in Seq(Threads) /\ (\A i, j \in 1..Len(r) : r[i] = r[j] => i = j)
       /\ \A i \in 1..Len(r) : \E j \in 2..Len(delayq) : r[i] = delayq[j]
       /\ \A j \in 2..Len(delayq) : delayq[j] \in Elems(r)
  BY ONLY <1>18 DEF Popped, Listed
<1>20. ASSUME NEW i \in 1..Len(r)
       PROVE  obj'.tstate[r[i]] = "Done" \/ (obj'.tstate[r[i]] = "Run" /\ frame'[r[i]].at = "delay")
  <2>1. PICK j \in 2..Len(delayq) : r[i] = delayq[j]
    BY <1>19
  <2>2. j \in 1..Len(delayq) /\ j # 1
    BY <1>4
  <2>3. r[i] # n
    BY <1>4, <1>17, <2>1, <2>2 DEF Listed
  <2>4. PICK v \in Threads : v = r[i]
    BY <1>19
  <2>5. Blocked(v, "delay")
    BY <1>3, <2>1, <2>2, <2>4 DEF Delayed
  <2>6. QED
    BY <1>13, <2>3, <2>4, <2>5 DEF Blocked
<1>21. Delayed'
  BY <1>2, <1>19, <1>20 DEF Delayed, Blocked
<1>22. Rest'
  BY <1>2, <1>19 DEF KI, Rest
<1>23. obj'.tstate[n] # "Run"
  BY <1>3, <1>6, <1>8
<1>24. ASSUME NEW v \in Threads \ {n}, v \in Elems(delayq) PROVE v \in Elems(r)
  <2>1. PICK i \in 1..Len(delayq) : v = delayq[i]
    BY <1>24 DEF Elems
  <2>2. i \in 2..Len(delayq)
    BY <1>4, <2>1
  <2>3. QED
    BY <1>19, <2>1, <2>2
<1>25. Held
  <2>1. Elems(r) \subseteq Elems(delayq)
    <3>1. \A j \in 2..Len(delayq) : j \in 1..Len(delayq)
      BY <1>4
    <3>2. QED
      BY <1>19, <3>1 DEF Elems
  <2>2. Joined
    BY <1>2, <2>1 DEF Joined, InList
  <2>3. QED
    BY <1>2, <1>23, <1>24, <2>2 DEF Held
<1>26. QED
  BY <1>8, <1>9, <1>12, <1>16, <1>21, <1>22, <1>25, StepKI DEF Lists

(* The scheduler switches to a user thread, or ends.                       *)
LEMMA DispatchKI ==
  ASSUME KI, Dispatch
  PROVE  KI' /\ Effect
<1>1. PICK t, y, z : t = NextReady(obj, curproc) /\ y = GetReady(obj, curproc) /\ z = SetProc(y, MAIN, curproc)
  OBVIOUS
<1>2. /\ phase = "sched" /\ phase \in MainPhases /\ ~shutdown
      /\ IF t = NULL THEN phase' = "exit" /\ UNCHANGED <<obj, cur, locked, frame>>
         ELSE obj' = SwitchReady(z, MAIN) /\ Resume(t, locked, frame)
      /\ UNCHANGED <<waiters, valid, curproc, now, delayq, busyq, shutdown>>
  BY <1>1 DEF Dispatch, timeVars, MainPhases
<1>3. /\ cur \in {MAIN, NULL} /\ Good(obj) /\ IdleProcs /\ curproc \in Procs /\ obj.tstate[MAIN] = "Run"
      /\ now \in Times
      /\ obj.tstate \in [AllThreads -> {"None", "Run", "Ready", "Busy", "Done"}]
      /\ obj.proc \in [AllThreads -> ProcPtr]
  BY <1>2, MainFacts, FieldTypes
<1>4. CASE t = NULL
  <2>1. QuietStep
    BY <1>2, <1>3, <1>4 DEF QuietStep, MainPhases, KI, Rest, IdleProcs
  <2>2. QED
    BY <2>1, QuietKI
<1>5. CASE t # NULL
  <2>1. TakenNext(obj, y, curproc, t) /\ y.proc = obj.proc
    <3>1. /\ TakenNext(obj, GetReady(obj, curproc), curproc, t) /\ GetReady(obj, curproc).proc = obj.proc
          /\ LET x == SetProc(GetReady(obj, curproc), t, curproc)
             IN  TakenNext(obj, x, curproc, t) /\ x.proc = [obj.proc EXCEPT ![t] = curproc]
      BY ONLY <1>1, <1>3, <1>5, TakeNext
    <3>2. QED
      BY ONLY <1>1, <3>1
  <2>2. /\ t \in AllThreads /\ obj.tstate[t] = "Ready" /\ obj.proc[t] \in Procs
        /\ Owner[obj.proc[t]] = Owner[curproc]
        /\ \A u \in AllThreads : obj.tstate[u] = "Ready" /\ Owner[obj.proc[u]] = Owner[curproc]
                                   => obj.prio[u] <= obj.prio[t]
        /\ Good(y) /\ y.tstate = [obj.tstate EXCEPT ![t] = "Run"]
        /\ y.prio = obj.prio /\ y.pstate = obj.pstate /\ y.bt = obj.bt
    BY <2>1 DEF TakenNext
  <2>3. t # MAIN /\ t \in Threads /\ t # cur
    BY <1>3, <2>2, ThreadFacts
  <2>4. MAIN \in AllThreads /\ y.tstate[MAIN] = "Run"
    BY <1>3, <2>2, <2>3, ThreadFacts
  <2>5. /\ Good(z) /\ z.proc = [obj.proc EXCEPT ![MAIN] = curproc]
        /\ z.tstate = y.tstate /\ z.prio = y.prio /\ z.pstate = y.pstate /\ z.bt = y.bt
    <3>1. \A p \in Procs : (MAIN \in ReadySet(y) => Owner[p] = Owner[y.proc[MAIN]]) =>
              LET x == SetProc(y, MAIN, p)
              IN  /\ Good(x) /\ x.proc = [y.proc EXCEPT ![MAIN] = p]
                  /\ x.tstate = y.tstate /\ x.prio = y.prio /\ x.pstate = y.pstate /\ x.bt = y.bt
      BY ONLY <2>2, <2>4, FieldsGood
    <3>2. MAIN \notin ReadySet(y)
      BY <2>4 DEF ReadySet
    <3>3. QED
      BY <1>1, <1>3, <2>1, <3>1, <3>2
  <2>6. z.proc[MAIN] = curproc /\ z.tstate[MAIN] = "Run"
    BY <1>3, <2>4, <2>5
  <2>7. Readied(z, obj', MAIN)
    BY <1>2, <1>3, <1>5, <2>4, <2>5, <2>6, SwitchReadyGood
  <2>8. /\ Good(obj') /\ obj'.tstate = [z.tstate EXCEPT ![MAIN] = "Ready"]
        /\ obj'.prio = z.prio /\ obj'.proc = z.proc /\ obj'.bt = z.bt
        /\ obj'.pstate = [z.pstate EXCEPT ![curproc] = "Running"]
    BY <2>6, <2>7 DEF Readied
  <2>9. /\ cur' = t /\ phase' = "user" /\ locked' = FALSE
        /\ frame' = IF t \in Threads /\ frame[t].at \in Resting THEN [frame EXCEPT ![t] = Idle] ELSE frame
    BY <1>2, <1>5, <2>3 DEF Resume
  <2>10. Frames' /\ (\A v \in Threads \ {t} : frame'[v] = frame[v]) /\ (t \in Threads => Resumed(frame[t], frame'[t]))
    BY <2>2, <2>9, ResumeFrames DEF KI, Frames
  <2>11. IdleProcs'
    BY <1>3, <2>2, <2>5, <2>8, FieldTypes DEF IdleProcs
  <2>12. \A u \in AllThreads \ {MAIN, t} : Kept(u)
    BY <1>3, <2>2, <2>5, <2>8 DEF Kept
  <2>13. /\ obj'.tstate[t] = "Run" /\ obj'.prio = obj.prio /\ obj'.proc[t] = obj.proc[t]
         /\ obj'.tstate[MAIN] = "Ready" /\ obj'.proc[MAIN] = curproc
    BY <1>3, <2>2, <2>3, <2>4, <2>5, <2>6, <2>8
  <2>14. First(t)
    BY <2>2, <2>3, <2>10, <2>13 DEF First, Resumed
  <2>15. Dispatched(t)
    BY <1>2, <2>3, <2>9, <2>10, <2>12, <2>13, <2>14 DEF Dispatched
  <2>16. Effect
    BY <2>2, <2>15 DEF Effect
  <2>17. \A u \in Threads : Still(u)
    BY <2>2, <2>10, <2>12, ThreadFacts DEF Still, Kept
  <2>18. Lists'
    BY <1>2, <2>17, WaitingKept, DelayedKept DEF Lists
  <2>19. Rest'
    BY <1>2, <2>2, <2>9 DEF KI, Rest, UserPhases
  <2>20. QED
    BY <2>8, <2>10, <2>11, <2>16, <2>18, <2>19, StepKI
<1>6. QED
  BY <1>4, <1>5

-----------------------------------------------------------------------------
(* The invariant holds in every state.                                     *)

(* The objects before the thread of pMain is made ready.                   *)
Blank ==
  [mem |-> [next |-> [x \in Node |-> NULL], prev |-> [x \in Node |-> NULL],
            head |-> [q \in AnyQ |-> NULL], tail |-> [q \in AnyQ |-> NULL]],
   count |-> [p \in Procs |-> 0],
   tstate |-> [t \in AllThreads |-> IF t \in {MAIN, Start} THEN "Run" ELSE "None"],
   prio |-> [t \in AllThreads |-> 0],
   proc |-> [t \in AllThreads |-> IF t = Start THEN Root ELSE NULL],
   time |-> [t \in AllThreads |-> 0], start |-> [t \in AllThreads |-> 0],
   pstate |-> [p \in Procs |-> IF p = Root THEN "Running"
                               ELSE IF Owner[p] = p THEN "Waiting" ELSE "None"],
   bt |-> [p \in Procs |-> NULL],
   bad |-> FALSE]

LEMMA BlankGood == Good(Blank)
<1>1. /\ Blank.mem = [next |-> [x \in Node |-> NULL], prev |-> [x \in Node |-> NULL],
                      head |-> [q \in AnyQ |-> NULL], tail |-> [q \in AnyQ |-> NULL]]
      /\ Blank.tstate = [t \in AllThreads |-> IF t \in {MAIN, Start} THEN "Run" ELSE "None"]
      /\ Blank.count = [p \in Procs |-> 0]
  BY DEF Blank
<1>2. MemOK(Blank.mem)
  BY <1>1, NodeFacts DEF MemOK, ThreadPtr, ProcPtr
<1>3. 0 \in Prios /\ 0 \in Times /\ Root \in Procs
  BY ProcAssumption, KernelAssumption DEF Prios, Times
<1>4. ObjOK(Blank)
  BY <1>2, <1>3 DEF ObjOK, Blank, ProcPtr
<1>5. ReadySet(Blank) = {}
  BY <1>1 DEF ReadySet
<1>6. Homed(Blank) /\ \A o : OnOwner(Blank, o) = {}
  BY <1>5 DEF Homed, OnOwner
<1>7. Counted(Blank)
  BY <1>1, <1>6, FS_EmptySet DEF Counted
<1>8. Clean(Blank)
  BY <1>1, NodeFacts DEF Clean, Linkable
<1>9. Tickets(Blank, [t \in AllThreads |-> 0], 1)
  <2>1. \A q \in ReadyQueues : Members(Blank, q) = {} /\ Blank.mem.head[q] = NULL /\ Blank.mem.tail[q] = NULL
    BY <1>1, <1>5, NodeFacts DEF Members
  <2>2. QED
    BY <1>5, <2>1 DEF Tickets, Distinct, Line
<1>10. QED
  BY <1>4, <1>6, <1>7, <1>8, <1>9 DEF Good

LEMMA InitKI ==
  ASSUME Init
  PROVE  KI
<1>1. /\ obj = AddReady(Blank, Root, Start)
      /\ waiters = [t \in Threads |-> <<>>] /\ valid = [t \in Threads |-> TRUE]
      /\ cur = NULL /\ curproc = Root /\ locked = FALSE /\ phase = "sched"
      /\ now = 0 /\ delayq = <<>> /\ busyq = <<>> /\ shutdown = FALSE
      /\ frame = [t \in Threads |-> Idle]
  BY DEF Init, Blank, Node, AnyQ
<1>2. /\ Root \in Procs /\ Start \in Threads /\ Start \in AllThreads /\ Start # MAIN
      /\ MAIN \in AllThreads /\ MAIN \notin Threads
  BY KernelAssumption, ThreadFacts
<1>3. /\ Blank.tstate = [t \in AllThreads |-> IF t \in {MAIN, Start} THEN "Run" ELSE "None"]
      /\ Blank.prio = [t \in AllThreads |-> 0]
      /\ Blank.proc = [t \in AllThreads |-> IF t = Start THEN Root ELSE NULL]
      /\ Blank.bt = [p \in Procs |-> NULL]
      /\ Blank.pstate = [p \in Procs |-> IF p = Root THEN "Running"
                                         ELSE IF Owner[p] = p THEN "Waiting" ELSE "None"]
  BY DEF Blank
<1>4. Blank.proc[Start] \in Procs /\ Owner[Blank.proc[Start]] = Owner[Root] /\ Blank.tstate[Start] = "Run"
  BY <1>2, <1>3
<1>5. /\ Good(obj) /\ obj.tstate = [Blank.tstate EXCEPT ![Start] = "Ready"]
      /\ obj.prio = Blank.prio /\ obj.proc = Blank.proc
      /\ obj.pstate = Blank.pstate /\ obj.bt = Blank.bt
  <2>1. LET z == AddReady(Blank, Root, Start)
        IN  /\ Good(z) /\ SameProcs(Blank.mem, z.mem)
            /\ z.tstate = IF Blank.tstate[Start] \in {"Run", "Busy"}
                          THEN [Blank.tstate EXCEPT ![Start] = "Ready"] ELSE Blank.tstate
            /\ z.prio = Blank.prio /\ z.proc = Blank.proc /\ z.time = Blank.time /\ z.start = Blank.start
            /\ z.pstate = Blank.pstate /\ z.bt = Blank.bt /\ z.bad = Blank.bad
    BY ONLY <1>2, <1>4, BlankGood, AddReadyGood
  <2>2. QED
    BY <1>1, <1>4, <2>1
<1>6. Rest
  <2>1. 0 \in Times /\ Root \in ProcPtr
    BY <1>2, ProcAssumption DEF Times, ProcPtr
  <2>2. <<>> \in Seq(Threads) /\ waiters \in [Threads -> Seq(Threads)]
    BY <1>1
  <2>3. valid \in [Threads -> BOOLEAN]
    BY <1>1
  <2>4. QED
    BY <1>1, <2>1, <2>2, <2>3 DEF Rest, MainPhases
<1>7. Frames
  BY <1>1, IdleFrame DEF Frames
<1>8. IdleProcs
  BY <1>3, <1>5 DEF IdleProcs
<1>9. Turns
  <2>1. \A t \in AllThreads : obj.tstate[t] = IF t = Start THEN "Ready" ELSE IF t = MAIN THEN "Run" ELSE "None"
    BY <1>2, <1>3, <1>5
  <2>2. obj.proc[Start] = Root /\ obj.prio[MAIN] = 0
    BY <1>2, <1>3, <1>5
  <2>3. Untimed
    BY <1>2, <2>1, <2>2, ThreadFacts DEF Untimed
  <2>4. UserTurn /\ Reaping
    BY <1>1 DEF UserTurn, Reaping, UserPhases
  <2>5. MainTurn
    BY <1>1, <1>2, <2>1 DEF MainTurn
  <2>6. QED
    BY <2>3, <2>4, <2>5 DEF Turns
<1>10. Lists
  BY <1>1 DEF Lists, Waiting, Delayed
<1>11. QED
  BY <1>5, <1>6, <1>7, <1>8, <1>9, <1>10 DEF KI

(* At the start nobody runs.                                               *)
LEMMA InitStates ==
  ASSUME Init, NEW t \in Threads
  PROVE  obj.tstate[t] \in {"None", "Ready"}
<1>1. obj = AddReady(Blank, Root, Start)
  BY DEF Init, Blank, Node, AnyQ
<1>2. /\ Start \in AllThreads /\ t \in AllThreads /\ t # MAIN
      /\ Blank.tstate = [u \in AllThreads |-> IF u \in {MAIN, Start} THEN "Run" ELSE "None"]
  BY KernelAssumption, ThreadFacts DEF Blank
<1>3. /\ Root \in Procs /\ Blank.proc[Start] \in Procs /\ Owner[Blank.proc[Start]] = Owner[Root]
  BY <1>2, KernelAssumption DEF Blank
<1>4. LET z == AddReady(Blank, Root, Start)
      IN  /\ Good(z) /\ SameProcs(Blank.mem, z.mem)
          /\ z.tstate = IF Blank.tstate[Start] \in {"Run", "Busy"}
                        THEN [Blank.tstate EXCEPT ![Start] = "Ready"] ELSE Blank.tstate
          /\ z.prio = Blank.prio /\ z.proc = Blank.proc /\ z.time = Blank.time /\ z.start = Blank.start
          /\ z.pstate = Blank.pstate /\ z.bt = Blank.bt /\ z.bad = Blank.bad
  BY ONLY <1>2, <1>3, BlankGood, AddReadyGood
<1>5. QED
  BY <1>1, <1>2, <1>4

(* Without the time model nobody is busy.                                  *)
LEMMA NeverBusy ==
  ASSUME KI, ~BusyOkay
  PROVE  /\ \A t \in Threads : ~BusyWake(t)
         /\ \A d \in Busies, u \in Slices : ~Busy(d, u)
         /\ \A u \in Slices : ~BusySleep(u)
         /\ ~BusyLoop /\ ~BusySleepLoop /\ ~Rebusy /\ ~ExpireBusy
<1>1. \A t \in Threads : frame[t].at \notin {"busy", "bsleep"}
  BY DEF KI, Frames, Proper
<1>2. phase = "user" => cur \in Threads
  BY UserFacts DEF UserPhases
<1>3. phase # "rebusy" /\ busyq = <<>>
  BY DEF KI, Rest, UserPhases, MainPhases
<1>4. QED
  BY <1>1, <1>2, <1>3 DEF BusyWake, Busy, BusySleep, BusyLoop, BusySleepLoop, Rebusy, ExpireBusy, BusyDue

LEMMA NextKI ==
  ASSUME KI, ~BusyOkay, "readyrace" \notin Ops, Next
  PROVE  KI' /\ Effect
<1>1. CASE ThreadCalls
  <2>1. ASSUME NEW t \in Threads, NEW pr \in UserPrios, Spawn(t, pr) \/ SpawnOnCreate(t, pr)
        PROVE  KI' /\ Effect
    BY <2>1, SpawnKI, SpawnOnCreateKI
  <2>2. ASSUME NEW p \in Procs, SpawnOn(p) \/ MakeShared(p) PROVE KI' /\ Effect
    BY <2>2, SpawnOnKI, MakeSharedKI
  <2>3. CASE InsertStep
    BY <2>3, InsertKI
  <2>4. ASSUME NEW t \in Threads, Wait(t) \/ Wake(t) \/ AddReadyCall(t) \/ Kill(t) \/ BusyWake(t)
        PROVE  KI' /\ Effect
    BY <2>4, WaitKI, WakeKI, KillKI, NeverBusy
  <2>5. CASE Yield \/ Sleep \/ Terminate \/ Lock \/ Unlock \/ Exit \/ BusyRefused \/ BadPriority
    BY <2>5, YieldKI, SleepKI, LockKI, LeaveKI
  <2>6. ASSUME NEW u \in Prios, SetPriority(u) PROVE KI' /\ Effect
    BY <2>6, SetPriorityKI
  <2>7. ASSUME NEW d \in Delays, Delay(d) PROVE KI' /\ Effect
    BY <2>7, DelayKI
  <2>8. ASSUME NEW d \in Busies, NEW u \in Slices, Busy(d, u) PROVE KI' /\ Effect
    BY <2>8, NeverBusy
  <2>9. ASSUME NEW u \in Slices, BusySleep(u) PROVE KI' /\ Effect
    BY <2>9, NeverBusy
  <2>10. CASE BusyLoop \/ BusySleepLoop
    BY <2>10, NeverBusy
  <2>11. QED
    BY <1>1, <2>1, <2>2, <2>3, <2>4, <2>5, <2>6, <2>7, <2>8, <2>9, <2>10 DEF ThreadCalls
<1>2. CASE Preempt
  BY <1>2, YieldKI
<1>3. CASE KernelStep
  BY <1>3, ReapKI, SwitchTermKI, NeverBusy, SchedulerExitKI, UpdateProcKI, DispatchKI, GetNewProcKI,
     AdvanceTimeKI, ExpireDelayKI, PickProcKI DEF KernelStep
<1>4. QED
  BY <1>1, <1>2, <1>3 DEF Next

LEMMA StutterKI ==
  ASSUME KI, UNCHANGED vars
  PROVE  KI'
<1>1. Good(obj') /\ Rest' /\ Frames' /\ IdleProcs'
  BY DEF KI, vars, Rest, Frames, IdleProcs
<1>2. PreemptOkay' = PreemptOkay
  BY DEF PreemptOkay
<1>3. Turns'
  BY <1>2 DEF KI, vars, Turns, Untimed, UserTurn, MainTurn, Reaping
<1>4. Lists'
  BY DEF KI, vars, Lists, Waiting, Delayed, Blocked
<1>5. QED
  BY <1>1, <1>3, <1>4 DEF KI

LEMMA KernelInv == ASSUME ~BusyOkay, "readyrace" \notin Ops PROVE Spec => []KI
<1>1. Init => KI
  BY InitKI
<1>2. KI /\ [Next]_vars => KI'
  BY NextKI, StutterKI
<1>3. QED
  BY <1>1, <1>2, PTL DEF Spec

-----------------------------------------------------------------------------
(* Theorems.  All but KernelIsLocked suppose that the time model is off:   *)
(* with it, pBusy lets the scheduler run on a user thread's stack.         *)

(* The phases in which a null pointer has been dereferenced.               *)
NullFaults == {"null_thread", "null_proc"}

(* The variables have their types, and no call dereferences a null thread  *)
(* or processor: of the ways the code can crash only the switch of         *)
(* set_priority() to the stack it runs on is left.                         *)
THEOREM KernelTypes ==
  ASSUME ~BusyOkay, "readyrace" \notin Ops
  PROVE  Spec => [](TypeOK /\ phase \notin NullFaults)
<1>1. ASSUME KI PROVE TypeOK /\ phase \notin NullFaults
  <2>1. /\ Good(obj) /\ Rest /\ Frames
    BY <1>1 DEF KI
  <2>2. obj.count \in [Procs -> Nat]
    <3>1. obj.count \in [Procs -> Int] /\ Counted(obj)
      BY <2>1 DEF Good, ObjOK
    <3>2. ASSUME NEW o \in Procs PROVE obj.count[o] \in Nat
      <4>1. OnOwner(obj, o) \subseteq AllThreads
        BY DEF OnOwner, ReadySet
      <4>2. IsFiniteSet(AllThreads)
        BY Distinctness
      <4>3. IsFiniteSet(OnOwner(obj, o))
        BY <4>1, <4>2, FS_Subset
      <4>4. QED
        BY <3>1, <4>3, FS_CardinalityType DEF Counted
    <3>3. QED
      BY <3>1, <3>2
  <2>3. /\ obj.tstate \in [AllThreads -> {"None", "Run", "Ready", "Busy", "Done"}]
        /\ obj.pstate \in [Procs -> {"None", "Waiting", "Running", "Busy"}]
        /\ obj.prio \in [AllThreads -> Prios] /\ obj.proc \in [AllThreads -> Procs \cup {NULL}]
        /\ obj.bt \in [Procs -> Threads \cup {NULL}]
        /\ obj.time \in [AllThreads -> 0..(TimeMod - 1)]
        /\ obj.start \in [AllThreads -> 0..(TimeMod - 1)] /\ obj.bad \in BOOLEAN
    BY <2>1, FieldTypes DEF Times, ProcPtr
  <2>4. /\ waiters \in [Threads -> Seq(Threads)] /\ valid \in [Threads -> BOOLEAN]
        /\ cur \in AllThreads \cup {NULL} /\ curproc \in Procs \cup {NULL}
        /\ locked \in BOOLEAN /\ shutdown \in BOOLEAN
        /\ now \in 0..(TimeMod - 1) /\ delayq \in Seq(Threads) /\ busyq \in Seq(Procs)
        /\ phase \in {"user", "sched", "reap", "newproc", "time", "expire", "rebusy", "exit"} \cup Faults
        /\ phase \notin NullFaults
    BY <2>1 DEF Rest, ProcPtr, Times, UserPhases, MainPhases, Faults, NullFaults
  <2>5. frame \in [Threads ->
          [at : {"user", "create", "busy", "bsleep"} \cup Resting \cup Inserting,
           tgt : Threads \cup Procs \cup {NULL}, rem : 0..(TimeMod - 1), uts : Nat, due : Nat,
           ins : [q : ReadyQueues \cup {ProcQ}, tail : AllThreads \cup Procs \cup {NULL},
                  ret : {"user", "create"}]]]
    BY <2>1 DEF Frames, FrameType, InsertType, Times
  <2>6. QED
    BY <2>2, <2>3, <2>4, <2>5 DEF TypeOK
<1>2. QED
  BY <1>1, KernelInv, PTL

(* A thread is in a ready queue exactly when it is Ready, in the one of    *)
(* its processor and priority, and _count is right (Proc.C), provided that *)
(* no alarm interrupts a pAddReady (MCReadyRace.cfg shows what happens     *)
(* otherwise).  An alarm that interrupts an add_proc does no harm here.    *)
THEOREM ReadyQueued ==
  ASSUME ~BusyOkay, "readyrace" \notin Ops
  PROVE  Spec => []ReadyIffQueued
<1>1. KI => ReadyIffQueued
  BY QueuesHold DEF KI
<1>2. QED
  BY <1>1, KernelInv, PTL

(* preempt(): "There is always a thread on the ready queue, since there's  *)
(* always at least the main thread".                                       *)
THEOREM MainIsReady ==
  ASSUME ~BusyOkay, "readyrace" \notin Ops
  PROVE  Spec => []MainAlwaysReady
<1>1. ASSUME KI, phase = "user" PROVE MAIN \in Contents(obj.mem, ReadyQ(curproc, 0))
  <2>1. /\ obj.tstate[MAIN] = "Ready" /\ obj.proc[MAIN] \in Procs /\ curproc \in Procs
        /\ Owner[obj.proc[MAIN]] = Owner[curproc] /\ obj.prio[MAIN] = 0 /\ MAIN \in AllThreads
    BY <1>1, UserFacts, ThreadFacts DEF UserPhases, KI, Turns, Untimed
  <2>2. 0 \in Prios
    BY ProcAssumption DEF Prios
  <2>3. ReadyQ(curproc, 0) = ReadyQ(obj.proc[MAIN], obj.prio[MAIN]) /\ ReadyQ(curproc, 0) \in ReadyQueues
    BY <2>1, <2>2 DEF ReadyQ, ReadyQueues
  <2>4. Contents(obj.mem, ReadyQ(curproc, 0)) = Members(obj, ReadyQ(curproc, 0))
    BY <1>1, <2>3, QueuesHold DEF KI
  <2>5. QED
    BY <2>1, <2>3, <2>4 DEF Members, ReadySet
<1>2. KI => MainAlwaysReady
  BY <1>1 DEF MainAlwaysReady
<1>3. QED
  BY <1>2, KernelInv, PTL

(* In preemptive mode, which excludes the time model, the alarm never      *)
(* interrupts the scheduler, nor a thread that makes its waiters ready.    *)
THEOREM KernelIsLocked == ASSUME "readyrace" \notin Ops PROVE Spec => []KernelLocked
<1>1. ASSUME KI PROVE KernelLocked
  <2>1. SUFFICES ASSUME PreemptOkay, phase \notin {"user", "exit"} \cup Faults, cur # NULL PROVE locked
    BY DEF KernelLocked
  <2>2. phase = "reap" \/ phase \in MainPhases
    BY <1>1, <2>1 DEF KI, Rest, UserPhases, Faults
  <2>3. QED
    BY <1>1, <2>1, <2>2 DEF KI, Turns, Reaping, MainTurn
<1>2. CASE BusyOkay
  <2>1. KernelLocked
    BY <1>2 DEF KernelLocked, PreemptOkay
  <2>2. QED
    BY <2>1, PTL
<1>3. CASE ~BusyOkay
  BY <1>1, <1>3, KernelInv, PTL
<1>4. QED
  BY <1>2, <1>3

(* Whoever takes over, by a yield, a block, an end, a change of priority,  *)
(* an alarm or the scheduler's choice, is a highest of those ready.        *)
THEOREM HighestRuns ==
  ASSUME ~BusyOkay, "readyrace" \notin Ops
  PROVE  Spec => PriorityRespected
<1> DEFINE Rule == cur' # cur /\ cur' \in Threads =>
                     \A u \in Threads \ {cur} :
                        obj'.tstate[u] = "Ready" /\ Owner[obj'.proc[u]] = Owner[curproc']
                          => obj'.prio[u] <= obj'.prio[cur']
<1>1. ASSUME KI, Next PROVE Rule
  <2>1. Effect
    BY <1>1, NextKI
  <2>2. SUFFICES ASSUME cur' # cur, cur' \in Threads, NEW u \in Threads \ {cur},
                        obj'.tstate[u] = "Ready", Owner[obj'.proc[u]] = Owner[curproc']
                 PROVE  obj'.prio[u] <= obj'.prio[cur']
    OBVIOUS
  <2>3. PICK t \in AllThreads : GaveWay(t) \/ Dispatched(t)
    BY <2>1, <2>2, ThreadFacts DEF Effect, Called, Stuck, Left, Scheduled
  <2>4. First(t) /\ cur' = t /\ curproc' = curproc
    BY <2>3 DEF GaveWay, Dispatched
  <2>5. u # t /\ u # MAIN /\ u \in AllThreads
    BY <2>2, <2>4, ThreadFacts DEF First
  <2>6. Kept(u)
    BY <2>2, <2>3, <2>5 DEF GaveWay, Dispatched
  <2>7. QED
    BY <2>2, <2>4, <2>5, <2>6 DEF First, Kept
<1>2. ASSUME UNCHANGED vars PROVE Rule
  BY <1>2 DEF vars
<1> HIDE DEF Rule
<1>3. KI /\ [Next]_vars => [Rule]_vars
  BY <1>1
<1>4. Spec => [][Rule]_vars
  BY <1>3, KernelInv, PTL DEF Spec
<1>5. QED
  BY <1>4 DEF PriorityRespected, Rule

-----------------------------------------------------------------------------
(* Where the threads are, when none is killed.                             *)

(* Thread t is in the list that its blocking call has put it into, and a   *)
(* thread that was waiting and is ready again has outlived the other.      *)
Placed(t) ==
  /\ obj.tstate[t] = "None" => frame[t].at \notin Resting
  /\ obj.tstate[t] = "Run" => t = cur \/ frame[t].at \in Resting
  /\ obj.tstate[t] = "Run" /\ frame[t].at = "delay" => t \in Elems(delayq)
  /\ Alive(t) /\ frame[t].at = "wait" =>
       /\ frame[t].tgt \in Threads
       /\ IF obj.tstate[t] = "Run"
          THEN t \in Elems(waiters[frame[t].tgt]) /\ Alive(frame[t].tgt)
          ELSE obj.tstate[frame[t].tgt] = "Done" \/ (phase = "reap" /\ cur = frame[t].tgt)

LEMMA HeldNext ==
  ASSUME KI, ~BusyOkay, "readyrace" \notin Ops, Next
  PROVE  Held
<1>1. CASE ThreadCalls
  <2>1. ASSUME NEW t \in Threads, NEW pr \in UserPrios, Spawn(t, pr) \/ SpawnOnCreate(t, pr)
        PROVE  Held
    BY <2>1, HeldSame DEF Spawn, SpawnOnCreate, timeVars
  <2>2. ASSUME NEW p \in Procs, SpawnOn(p) \/ MakeShared(p) PROVE Held
    BY <2>2, HeldSame DEF SpawnOn, MakeShared, timeVars
  <2>3. CASE InsertStep
    BY <2>3, HeldSame
       DEF InsertStep, TestReady, SetReady, CountReady, TestProc, SetRunning, TestLinks, ClearNext,
           LoadTail, LinkItem, LinkBack, MoveTail, Inside, timeVars
  <2>4. ASSUME NEW t \in Threads, Wait(t) \/ Wake(t) \/ AddReadyCall(t) \/ Kill(t) \/ BusyWake(t)
        PROVE  Held
    BY <2>4, WaitKI, NeverBusy, HeldSame DEF Wake, AddReadyCall, Kill, timeVars
  <2>5. CASE Yield \/ Sleep \/ Terminate \/ Lock \/ Unlock \/ Exit \/ BusyRefused \/ BadPriority
    BY <2>5, HeldSame DEF Yield, Sleep, Terminate, Lock, Unlock, Exit, BusyRefused, BadPriority, Leave, timeVars
  <2>6. ASSUME NEW u \in Prios, SetPriority(u) PROVE Held
    BY <2>6, HeldSame DEF SetPriority, timeVars
  <2>7. ASSUME NEW d \in Delays, Delay(d) PROVE Held
    BY <2>7, DelayKI
  <2>8. ASSUME NEW d \in Busies, NEW u \in Slices, Busy(d, u) PROVE Held
    BY <2>8, NeverBusy
  <2>9. ASSUME NEW u \in Slices, BusySleep(u) PROVE Held
    BY <2>9, NeverBusy
  <2>10. CASE BusyLoop \/ BusySleepLoop
    BY <2>10, NeverBusy
  <2>11. QED
    BY <1>1, <2>1, <2>2, <2>3, <2>4, <2>5, <2>6, <2>7, <2>8, <2>9, <2>10 DEF ThreadCalls
<1>2. CASE Preempt
  BY <1>2, HeldSame DEF Preempt, timeVars
<1>3. CASE KernelStep
  <2>1. CASE Reap \/ ExpireDelay
    BY <2>1, ReapKI, ExpireDelayKI
  <2>2. CASE SwitchTerm \/ SchedulerExit \/ UpdateProc \/ Dispatch
    BY <2>2, HeldSame DEF SwitchTerm, SchedulerExit, UpdateProc, Dispatch, Quiet, timeVars
  <2>3. CASE GetNewProc \/ AdvanceTime \/ PickProc
    BY <2>3, HeldSame DEF GetNewProc, AdvanceTime, PickProc, Quiet, timeVars
  <2>4. QED
    BY <1>3, <2>1, <2>2, <2>3, NeverBusy DEF KernelStep
<1>4. QED
  BY <1>1, <1>2, <1>3 DEF Next

(* A thread that is done stays so, and a thread ends only when it is the   *)
(* running one and nobody waits for it any more.                           *)
Fates ==
  /\ \A u \in Threads : obj.tstate[u] = "Done" => obj'.tstate[u] = "Done"
  /\ \A u \in Threads : Alive(u) /\ obj'.tstate[u] \in {"None", "Done"} => u = cur /\ waiters[u] = <<>>
  /\ phase = "reap" => obj'.tstate[cur] = "Done" \/ (phase' = "reap" /\ cur' = cur)

LEMMA EffectFates ==
  ASSUME KI, Effect, "kill" \notin Ops
  PROVE  Fates
<1>1. \A u \in AllThreads : Kept(u) \/ Created(u) \/ Woken(u) \/ Killed(u) =>
        /\ obj.tstate[u] = "Done" => obj'.tstate[u] = "Done"
        /\ Alive(u) => obj'.tstate[u] \notin {"None", "Done"}
  BY DEF Kept, Created, Woken, Killed, Alive
<1>2. CASE Called
  BY <1>1, <1>2, ThreadFacts, UserFacts DEF Called, Fates, UserPhases
<1>3. CASE Stuck \/ Left
  BY <1>1, <1>3, ThreadFacts, UserFacts DEF Stuck, Left, Fates, UserPhases
<1>4. CASE Scheduled
  BY <1>1, <1>4, ThreadFacts DEF Scheduled, Fates, MainPhases
<1>5. ASSUME NEW t \in AllThreads, GaveWay(t) PROVE Fates
  BY <1>1, <1>5, ThreadFacts, UserFacts DEF GaveWay, First, Fates, UserPhases
<1>6. ASSUME NEW t \in AllThreads, Dispatched(t) PROVE Fates
  BY <1>1, <1>6, ThreadFacts DEF Dispatched, First, Fates
<1>7. QED
  BY <1>2, <1>3, <1>4, <1>5, <1>6 DEF Effect

(* A thread that a step leaves alone.                                      *)
LEMMA PlacedKept ==
  ASSUME KI, Fates, Held, NEW t \in Threads, t # cur, Placed(t), Kept(t), frame'[t] = frame[t]
  PROVE  Placed(t)'
<1>1. PICK u : u = frame[t].tgt
  OBVIOUS
<1>2. ASSUME Alive(t), frame[t].at = "wait", obj.tstate[t] = "Run"
      PROVE  u \in Threads /\ t \in Elems(waiters'[u]) /\ obj'.tstate[u] \notin {"None", "Done"}
  <2>1. u \in Threads /\ t \in Elems(waiters[u]) /\ Alive(u)
    BY <1>1, <1>2 DEF Placed
  <2>2. waiters[u] # <<>>
    BY <2>1 DEF Elems
  <2>3. QED
    BY <1>2, <2>1, <2>2 DEF Held, Fates, Kept
<1>3. ASSUME Alive(t), frame[t].at = "wait", obj.tstate[t] # "Run"
      PROVE  u \in Threads /\ (obj'.tstate[u] = "Done" \/ (phase' = "reap" /\ cur' = u))
  <2>1. u \in Threads /\ (obj.tstate[u] = "Done" \/ (phase = "reap" /\ cur = u))
    BY <1>1, <1>3 DEF Placed
  <2>2. QED
    BY <2>1 DEF Fates
<1>4. obj.tstate[t] = "Run" /\ frame[t].at = "delay" => t \in Elems(delayq')
  BY DEF Placed, Held, Kept
<1>5. QED
  BY <1>1, <1>2, <1>3, <1>4 DEF Placed, Kept, Alive

LEMMA PlacedNext ==
  ASSUME KI, KI', Effect, Fates, Held, \A t \in Threads : Placed(t), "kill" \notin Ops
  PROVE  \A t \in Threads : Placed(t)'
<1> SUFFICES ASSUME NEW t \in Threads PROVE Placed(t)'
  OBVIOUS
<1>0. Placed(t) /\ t \in AllThreads /\ t # MAIN
  BY ThreadFacts
<1>1. ASSUME t # cur, Kept(t), frame'[t] = frame[t] PROVE Placed(t)'
  BY <1>0, <1>1, PlacedKept
<1>2. ASSUME t # cur, Created(t), frame'[t] = frame[t] PROVE Placed(t)'
  BY <1>0, <1>2 DEF Placed, Created, Resting
<1>3. ASSUME t # cur, Woken(t), frame'[t] = frame[t],
             phase = "reap" => phase' = "reap" /\ cur' = cur
      PROVE  Placed(t)'
  BY <1>0, <1>3 DEF Placed, Woken, Alive
<1>4. ASSUME frame'[t].at \notin Resting, obj'.tstate[t] = "Run" => t = cur' PROVE Placed(t)'
  BY <1>4 DEF Placed, Resting
<1>5. CASE Called
  <2>1. CASE t = cur
    BY <1>4, <1>5, <2>1 DEF Called
  <2>2. CASE t # cur
    BY <1>0, <1>1, <1>2, <1>3, <1>5, <2>2 DEF Called, Killed
  <2>3. QED
    BY <2>1, <2>2
<1>6. CASE Stuck \/ Left
  <2>1. CASE t = cur
    BY <1>4, <1>6, <2>1, UserFacts DEF Stuck, Left, UserPhases
  <2>2. CASE t # cur
    BY <1>0, <1>1, <1>6, <2>2 DEF Stuck, Left
  <2>3. QED
    BY <2>1, <2>2
<1>7. CASE Scheduled
  <2>1. t # cur /\ frame'[t] = frame[t] /\ phase # "reap"
    BY <1>0, <1>7, ThreadFacts DEF Scheduled, MainPhases, KI, Turns, MainTurn
  <2>2. QED
    BY <1>0, <1>1, <1>3, <1>7, <2>1 DEF Scheduled
<1>8. ASSUME NEW v \in AllThreads, GaveWay(v) PROVE Placed(t)'
  <2>1. CASE t = cur
    <3>1. PICK g : g = frame'[cur]
      OBVIOUS
    <3>2. CASE obj'.tstate[cur] = "Run"
      <4>1. g.at \in Resting /\ Parked(g)
        BY <1>8, <3>1, <3>2 DEF GaveWay
      <4>2. g.at = "delay" => t \in Elems(delayq')
        BY <2>1, <4>1 DEF Parked
      <4>3. g.at = "wait" => /\ g.tgt \in Threads /\ t \in Elems(waiters'[g.tgt])
                             /\ obj'.tstate[g.tgt] \notin {"None", "Done"}
        BY <2>1, <4>1 DEF Parked, Fates
      <4>4. QED
        BY <2>1, <3>1, <3>2, <4>1, <4>2, <4>3 DEF Placed, Alive
    <3>3. CASE obj'.tstate[cur] # "Run"
      BY <1>4, <1>8, <2>1, <3>3 DEF GaveWay
    <3>4. QED
      BY <3>2, <3>3
  <2>2. CASE t = v
    BY <1>4, <1>8, <2>2 DEF GaveWay, First
  <2>3. CASE t \notin {cur, v}
    BY <1>0, <1>1, <1>8, <2>3 DEF GaveWay
  <2>4. QED
    BY <2>1, <2>2, <2>3
<1>9. ASSUME NEW v \in AllThreads, Dispatched(v) PROVE Placed(t)'
  <2>1. t # cur
    BY <1>0, <1>9, ThreadFacts DEF Dispatched, MainPhases, KI, Turns, MainTurn
  <2>2. CASE t = v
    BY <1>4, <1>9, <2>2 DEF Dispatched, First
  <2>3. CASE t # v
    BY <1>0, <1>1, <1>9, <2>1, <2>3 DEF Dispatched
  <2>4. QED
    BY <2>2, <2>3
<1>10. QED
  BY <1>5, <1>6, <1>7, <1>8, <1>9 DEF Effect

(* Every live thread is in exactly one place from which it can come back:  *)
(* running, in a ready queue, in the queue of delayed threads, among the   *)
(* waiters of a live thread, or asleep.  Nobody may be killed: pKill of a  *)
(* thread that others wait for leaves them blocked for good.               *)
THEOREM NobodyIsLost ==
  ASSUME ~BusyOkay, "kill" \notin Ops, "readyrace" \notin Ops
  PROVE  Spec => []ThreadsAccounted
<1> DEFINE Places == \A t \in Threads : Placed(t)
<1>1. Init => Places
  <2>1. ASSUME Init, NEW t \in Threads PROVE Placed(t)
    <3>1. frame[t].at = "user" /\ obj.tstate[t] # "Run"
      BY <2>1, InitStates, IdleFrame DEF Init
    <3>2. QED
      BY <3>1 DEF Placed, Resting
  <2>2. QED
    BY <2>1
<1>2. ASSUME KI, Next, Places PROVE Places'
  <2>1. KI' /\ Effect /\ Held
    BY <1>2, NextKI, HeldNext
  <2>2. Fates
    BY <1>2, <2>1, EffectFates
  <2>3. QED
    BY <1>2, <2>1, <2>2, PlacedNext
<1>3. ASSUME Places, UNCHANGED vars PROVE Places'
  BY <1>3 DEF vars, Placed, Alive
<1>4. ASSUME KI, Places PROVE ThreadsAccounted
  <2>1. ASSUME NEW t \in Threads, Alive(t) PROVE Accounted(t)
    <3>1. Placed(t) /\ obj.tstate[t] # "Busy" /\ obj.tstate[t] # "Done"
      BY <1>4, <2>1, ThreadFacts DEF Alive, KI, Turns, Untimed
    <3>2. t \in Elems(delayq) => obj.tstate[t] = "Run"
      BY <1>4, <3>1 DEF KI, Lists, Delayed, Blocked, Elems
    <3>3. QED
      BY <2>1, <3>1, <3>2 DEF Accounted, Placed, Alive
  <2>2. QED
    BY <2>1 DEF ThreadsAccounted
<1> HIDE DEF Places
<1>5. KI /\ Places /\ [Next]_vars => Places'
  BY <1>2, <1>3
<1>6. KI /\ Places => ThreadsAccounted
  BY <1>4
<1>7. QED
  BY <1>1, <1>5, <1>6, KernelInv, PTL DEF Spec

-----------------------------------------------------------------------------
(* The refinement of Sched.                                                *)

(* What Sched is shown of a thread, now and in the next state.             *)
LEMMA ViewNow ==
  ASSUME KI, NEW t \in Threads
  PROVE  /\ obj.tstate[t] = "None" => SchedState(t) = "none"
         /\ obj.tstate[t] = "Ready" => SchedState(t) = "ready"
         /\ obj.tstate[t] = "Done" => SchedState(t) = "done"
         /\ obj.tstate[t] = "Run" /\ UserRuns(t) => SchedState(t) = "run"
         /\ obj.tstate[t] = "Run" /\ ~UserRuns(t) =>
              SchedState(t) = IF frame[t].at = "delay" THEN "delay" ELSE "sleep"
<1>1. obj.tstate[t] # "Busy" /\ (UserRuns(t) => obj.tstate[t] = "Run")
  BY ThreadFacts DEF KI, Turns, Untimed, UserTurn, UserPhases, UserRuns
<1>2. QED
  BY <1>1 DEF SchedState

LEMMA ViewNext ==
  ASSUME KI', NEW t \in Threads
  PROVE  /\ obj'.tstate[t] = "None" => SchedState(t)' = "none"
         /\ obj'.tstate[t] = "Ready" => SchedState(t)' = "ready"
         /\ obj'.tstate[t] = "Done" => SchedState(t)' = "done"
         /\ obj'.tstate[t] = "Run" /\ UserRuns(t)' => SchedState(t)' = "run"
         /\ obj'.tstate[t] = "Run" /\ ~UserRuns(t)' =>
              SchedState(t)' = IF frame'[t].at = "delay" THEN "delay" ELSE "sleep"
<1>1. obj'.tstate[t] # "Busy" /\ (UserRuns(t)' => obj'.tstate[t] = "Run")
  BY ThreadFacts DEF KI, Turns, Untimed, UserTurn, UserPhases, UserRuns
<1>2. QED
  BY <1>1 DEF SchedState

(* A thread that runs neither before nor after a step.                     *)
LEMMA ViewStirs ==
  ASSUME KI, KI', NEW t \in Threads, ~UserRuns(t), ~UserRuns(t)', frame'[t] = frame[t]
  PROVE  /\ Kept(t) => SchedState(t)' = SchedState(t)
         /\ Created(t) => SchedState(t) = "none" /\ SchedState(t)' = "ready"
         /\ Woken(t) => SchedState(t) \in {"sleep", "delay"} /\ SchedState(t)' = "ready"
         /\ Killed(t) => SchedState(t) # "none" /\ SchedState(t)' = "done"
<1>1. /\ obj.tstate[t] \in {"None", "Run", "Ready", "Done"}
      /\ obj'.tstate[t] \in {"None", "Run", "Ready", "Done"}
  BY FieldTypes, ThreadFacts DEF KI, Turns, Untimed
<1>2. Kept(t) => SchedState(t)' = SchedState(t)
  BY <1>1, ViewNow, ViewNext DEF Kept
<1>3. Created(t) => SchedState(t) = "none" /\ SchedState(t)' = "ready"
  BY <1>1, ViewNow, ViewNext DEF Created
<1>4. Woken(t) => SchedState(t) \in {"sleep", "delay"} /\ SchedState(t)' = "ready"
  BY <1>1, ViewNow, ViewNext DEF Woken
<1>5. Killed(t) => SchedState(t) # "none" /\ SchedState(t)' = "done"
  BY <1>1, ViewNow, ViewNext DEF Killed
<1>6. QED
  BY <1>2, <1>3, <1>4, <1>5

(* The view of Sched is made of these.                                     *)
LEMMA WholeView ==
  /\ DOMAIN SchedStates = Threads /\ DOMAIN SchedStates' = Threads
  /\ \A t \in Threads : SchedStates[t] = SchedState(t) /\ SchedStates'[t] = SchedState(t)'
  /\ SchedCur = IF UserRuns(cur) THEN cur ELSE NULL
  /\ SchedCur' = IF UserRuns(cur)' THEN cur' ELSE NULL
  BY DEF SchedStates, SchedCur

(* The running thread makes a call: Call of Sched.                         *)
LEMMA CalledView ==
  ASSUME KI, KI', Called
  PROVE  Abstract!Next
<1>0. PICK c \in Threads : c = cur
  BY UserFacts DEF Called
<1>1. /\ c # NULL /\ cur' = c /\ UserRuns(c) /\ UserRuns(c)' /\ obj'.tstate[c] = "Run"
  BY <1>0, ThreadFacts DEF Called, UserRuns, UserPhases
<1>2. SchedState(c)' = "run"
  BY <1>1, ViewNext
<1>3. ASSUME NEW t \in Threads \ {c}
      PROVE  \/ SchedState(t)' = SchedState(t)
             \/ SchedState(t) \in {"none", "sleep", "delay"} /\ SchedState(t)' = "ready"
             \/ SchedState(t) # "none" /\ SchedState(t)' = "done"
  <2>1. ~UserRuns(t) /\ ~UserRuns(t)' /\ frame'[t] = frame[t] /\ t \in AllThreads
    BY <1>0, <1>1, ThreadFacts DEF UserRuns, Called
  <2>2. Kept(t) \/ Created(t) \/ Woken(t) \/ Killed(t)
    BY <1>0, <2>1 DEF Called
  <2>3. QED
    BY <2>1, <2>2, ViewStirs
<1>4. SchedCur = c /\ SchedCur' = c
  BY <1>0, <1>1, WholeView DEF UserRuns
<1>5. QED
  BY <1>1, <1>2, <1>3, <1>4, WholeView DEF Abstract!Next, Abstract!Call, Abstract!Stirs, Abstract!Blocked

(* It gives way to t: GiveUp of Sched.                                     *)
LEMMA GaveWayView ==
  ASSUME KI, KI', NEW t \in AllThreads, GaveWay(t)
  PROVE  Abstract!Next
<1>0. PICK c \in Threads : c = cur
  BY UserFacts DEF GaveWay
<1>1. /\ c # NULL /\ UserRuns(c) /\ cur' = t /\ t # c /\ NULL \notin AllThreads /\ ~UserRuns(c)'
  BY <1>0, ThreadFacts DEF GaveWay, First, UserRuns, UserPhases
<1>2. SchedState(c)' \in {"ready", "done", "sleep", "delay"}
  BY <1>0, <1>1, ViewNext DEF GaveWay
<1>c. SchedCur = c
  BY <1>0, <1>1, WholeView DEF UserRuns
<1>3. ASSUME NEW u \in Threads \ {c, t}
      PROVE  SchedState(u)' = SchedState(u)
  <2>1. ~UserRuns(u) /\ ~UserRuns(u)' /\ frame'[u] = frame[u] /\ u \in AllThreads /\ Kept(u)
    BY <1>0, <1>1, ThreadFacts DEF UserRuns, GaveWay
  <2>2. QED
    BY <2>1, ViewStirs
<1>4. CASE t = MAIN
  <2>1. SchedCur' = NULL
    BY <1>1, <1>4, WholeView DEF GaveWay, UserRuns
  <2>2. \A u \in Threads \ {c} : SchedState(u)' = SchedState(u)
    BY <1>3, <1>4, ThreadFacts
  <2>3. QED
    BY <1>1, <1>2, <1>c, <2>1, <2>2, WholeView DEF Abstract!Next, Abstract!GiveUp, Abstract!Stirs, Abstract!Blocked
<1>5. CASE t # MAIN
  <2>1. /\ t \in Threads /\ UserRuns(t)' /\ ~UserRuns(t) /\ locked' = FALSE
        /\ obj.tstate[t] = "Ready" /\ obj'.tstate[t] = "Run"
    BY <1>0, <1>1, <1>5, ThreadFacts DEF GaveWay, First, UserRuns
  <2>c. SchedCur' = t
    BY <1>1, <2>1, WholeView DEF UserRuns
  <2>2. SchedState(t) = "ready" /\ SchedState(t)' = "run"
    BY <2>1, ViewNow, ViewNext
  <2>3. QED
    BY <1>1, <1>2, <1>c, <1>3, <2>1, <2>2, <2>c, WholeView
       DEF Abstract!Next, Abstract!GiveUp, Abstract!Stirs, Abstract!Blocked, Abstract!TakesOver
<1>6. QED
  BY <1>4, <1>5

(* It asks for shutdown, or dies: GiveUp of Sched, and nobody takes over.  *)
LEMMA LeftView ==
  ASSUME KI, KI', Left \/ Stuck
  PROVE  Abstract!Next
<1>0. PICK c \in Threads : c = cur
  BY UserFacts DEF Left, Stuck, UserPhases
<1>1. c # NULL /\ UserRuns(c) /\ phase' \notin {"user", "reap"}
  BY <1>0, ThreadFacts DEF Left, Stuck, UserRuns
<1>2. SchedState(c)' \in {"ready", "sleep", "delay"}
  BY <1>0, <1>1, ViewNext DEF Left, Stuck, UserRuns
<1>3. ASSUME NEW u \in Threads \ {c}
      PROVE  SchedState(u)' = SchedState(u)
  <2>1. ~UserRuns(u) /\ ~UserRuns(u)' /\ frame'[u] = frame[u] /\ u \in AllThreads /\ Kept(u)
    BY <1>0, <1>1, ThreadFacts DEF UserRuns, Left, Stuck
  <2>2. QED
    BY <2>1, ViewStirs
<1>4. SchedCur = c /\ SchedCur' = NULL
  BY <1>0, <1>1, WholeView DEF UserRuns
<1>5. QED
  BY <1>1, <1>2, <1>3, <1>4, WholeView DEF Abstract!Next, Abstract!GiveUp, Abstract!Stirs, Abstract!Blocked

(* The scheduler lets t run, or moves on: Idle of Sched.                   *)
LEMMA IdleView ==
  ASSUME KI, KI', (\E t \in AllThreads : Dispatched(t)) \/ Scheduled
  PROVE  Abstract!Next
<1>1. phase \in MainPhases /\ phase \notin {"user", "reap"} /\ \A u : ~UserRuns(u)
  BY DEF Dispatched, Scheduled, MainPhases, UserRuns
<1>2. ASSUME NEW t \in AllThreads, Dispatched(t) PROVE Abstract!Next
  <2>1. /\ t \in Threads /\ cur' = t /\ UserRuns(t)' /\ ~locked' /\ t # NULL
        /\ obj.tstate[t] = "Ready" /\ obj'.tstate[t] = "Run"
    BY <1>2, ThreadFacts DEF Dispatched, First, UserRuns
  <2>2. SchedState(t) = "ready" /\ SchedState(t)' = "run"
    BY <2>1, ViewNow, ViewNext
  <2>3. ASSUME NEW u \in Threads \ {t} PROVE SchedState(u)' = SchedState(u)
    <3>1. ~UserRuns(u) /\ ~UserRuns(u)' /\ frame'[u] = frame[u] /\ u \in AllThreads /\ Kept(u)
      BY <1>1, <1>2, <2>1, ThreadFacts DEF UserRuns, Dispatched
    <3>2. QED
      BY <3>1, ViewStirs
  <2>4. QED
    BY <1>1, <2>1, <2>2, <2>3, WholeView DEF Abstract!Next, Abstract!Idle, Abstract!Stirs, Abstract!TakesOver
<1>3. ASSUME Scheduled PROVE Abstract!Next
  <2>1. \A u : ~UserRuns(u)'
    BY <1>3 DEF Scheduled, MainPhases, UserRuns
  <2>2. ASSUME NEW u \in Threads
        PROVE  \/ SchedState(u)' = SchedState(u)
               \/ SchedState(u) \in {"sleep", "delay"} /\ SchedState(u)' = "ready"
    <3>1. /\ ~UserRuns(u) /\ ~UserRuns(u)' /\ frame'[u] = frame[u] /\ u \in AllThreads
          /\ Kept(u) \/ Woken(u)
      BY <1>1, <1>3, <2>1, ThreadFacts DEF Scheduled
    <3>2. QED
      BY <3>1, ViewStirs
  <2>3. ~UserRuns(cur) /\ ~UserRuns(cur)'
    BY <1>1, <2>1 DEF UserRuns
  <2>4. QED
    BY <2>2, <2>3, WholeView DEF Abstract!Next, Abstract!Idle, Abstract!Stirs, Abstract!Blocked
<1>4. QED
  BY <1>2, <1>3

LEMMA InitView ==
  ASSUME Init
  PROVE  Abstract!Init
<1>1. KI /\ phase = "sched" /\ locked = FALSE
  BY InitKI DEF Init
<1>2. \A t \in Threads : obj.tstate[t] \in {"None", "Ready"}
  BY InitStates
<1>3. \A t \in Threads : SchedState(t) \in {"none", "ready"}
  BY <1>1, <1>2, ViewNow
<1>4. ~UserRuns(cur)
  BY <1>1 DEF UserRuns
<1>5. QED
  BY <1>1, <1>3, <1>4 DEF SchedStates, SchedCur, Abstract!Init

(* Every step of the scheduler is one that Sched promises: one user thread *)
(* at a time, taken from the ready ones and started unlocked, and a        *)
(* blocked thread moves only when it is woken or its time has come.        *)
THEOREM KernelImplementsSched ==
  ASSUME ~BusyOkay, "readyrace" \notin Ops
  PROVE  Spec => ImplementsSched
<1>1. Init => Abstract!Init
  BY InitView
<1>2. ASSUME KI, Next PROVE Abstract!Next
  <2>1. KI' /\ Effect
    BY <1>2, NextKI
  <2>2. QED
    BY <1>2, <2>1, CalledView, GaveWayView, LeftView, IdleView DEF Effect
<1>3. ASSUME UNCHANGED vars PROVE UNCHANGED <<SchedStates, SchedCur, locked>>
  BY <1>3 DEF vars, SchedStates, SchedCur, SchedState, UserRuns
<1>4. KI /\ [Next]_vars => [Abstract!Next]_<<SchedStates, SchedCur, locked>>
  BY <1>2, <1>3
<1>5. QED
  BY <1>1, <1>4, KernelInv, PTL DEF Spec, ImplementsSched, Abstract!Spec

-----------------------------------------------------------------------------
(* The queue of processors.                                                *)

(* What an operation on the objects does to the queue of processors:       *)
(* nothing, or p joins it unless its state says that it is scheduled.      *)
QueueKept(s, z) ==
  z.bad = s.bad /\ \A M : ProcsQueued(s.mem, M) => ProcsQueued(z.mem, M)
QueueGrown(s, z, p) ==
  \A M : ProcsQueued(s.mem, M) /\ p \notin M => ProcsQueued(z.mem, M \cup {p}) /\ z.bad = s.bad
ProcsKept(s, z) == z.pstate = s.pstate /\ QueueKept(s, z)
Rescheduled(s, z, p) ==
  /\ z.pstate = [s.pstate EXCEPT ![p] = "Running"]
  /\ IF s.pstate[p] = "Running" THEN QueueKept(s, z) ELSE QueueGrown(s, z, p)

LEMMA KeptSame ==
  ASSUME NEW s, NEW z, SameProcs(s.mem, z.mem) \/ z.mem = s.mem, z.bad = s.bad
  PROVE  QueueKept(s, z)
  BY ProcsSame DEF QueueKept

LEMMA KeptTrans ==
  ASSUME NEW s, NEW y, NEW z, ProcsKept(s, y), ProcsKept(y, z)
  PROVE  ProcsKept(s, z)
  BY DEF ProcsKept, QueueKept

LEMMA KeptThen ==
  ASSUME NEW s, NEW y, NEW z, NEW p, ProcsKept(s, y), Rescheduled(y, z, p)
  PROVE  Rescheduled(s, z, p)
  BY DEF ProcsKept, QueueKept, Rescheduled, QueueGrown

LEMMA SetProcKept ==
  ASSUME NEW s, Good(s), NEW t, NEW p
  PROVE  ProcsKept(s, SetProc(s, t, p))
<1>1. PICK z : z = SetProc(s, t, p)
  OBVIOUS
<1>2. z.mem = s.mem /\ z.bad = s.bad /\ z.pstate = s.pstate
  BY <1>1 DEF SetProc, Good, ObjOK
<1>3. QED
  BY <1>1, <1>2, KeptSame DEF ProcsKept

LEMMA TakeNextKept ==
  ASSUME NEW s, Good(s), NEW p \in Procs, NEW t, t = NextReady(s, p), t # NULL
  PROVE  ProcsKept(s, GetReady(s, p)) /\ ProcsKept(s, SetProc(GetReady(s, p), t, p))
<1> DEFINE y == GetReady(s, p)
<1>2. Good(y) /\ SameProcs(s.mem, y.mem) /\ y.pstate = s.pstate /\ y.bad = s.bad
  <2>1. LET z == GetReady(s, p)
        IN  /\ Good(z) /\ SameProcs(s.mem, z.mem)
            /\ z.tstate = [s.tstate EXCEPT ![t] = "Run"]
            /\ z.prio = s.prio /\ z.proc = s.proc /\ z.time = s.time /\ z.start = s.start
            /\ z.pstate = s.pstate /\ z.bt = s.bt /\ z.bad = s.bad
    BY GetReadyGood
  <2>2. QED
    BY <2>1
<1> HIDE DEF y
<1>3. ProcsKept(s, y)
  BY <1>2, KeptSame DEF ProcsKept
<1>4. ProcsKept(y, SetProc(y, t, p))
  BY <1>2, SetProcKept
<1>5. QED
  BY <1>3, <1>4, KeptTrans DEF y

LEMMA AddReadyKept ==
  ASSUME NEW s, Good(s), NEW p \in Procs, NEW t \in AllThreads,
         s.proc[t] \in Procs, Owner[s.proc[t]] = Owner[p]
  PROVE  ProcsKept(s, AddReady(s, p, t))
<1>1. PICK y : y = AddReady(s, p, t)
  OBVIOUS
<1>2. SameProcs(s.mem, y.mem) /\ y.pstate = s.pstate /\ y.bad = s.bad
  BY <1>1, AddReadyGood
<1>3. QED
  BY <1>1, <1>2, KeptSame DEF ProcsKept

LEMMA EnqueueGrown ==
  ASSUME NEW s, Good(s), NEW p \in Procs
  PROVE  QueueGrown(s, Enqueue(s, ProcQ, p), p)
<1>1. PICK z : z = Enqueue(s, ProcQ, p)
  OBVIOUS
<1>2. /\ z.mem = Add(s.mem, ProcQ, p) /\ z.bad = (s.bad \/ ~Linkable(s.mem, p))
      /\ MemOK(s.mem) /\ s.bad \in BOOLEAN
  BY <1>1 DEF Enqueue, Good, ObjOK
<1>3. ASSUME NEW M, ProcsQueued(s.mem, M), p \notin M
      PROVE  ProcsQueued(z.mem, M \cup {p}) /\ z.bad = s.bad
  <2>1. Linkable(s.mem, p) /\ ProcsQueued(Add(s.mem, ProcQ, p), M \cup {p})
    BY <1>2, <1>3, QueueProc
  <2>2. QED
    BY <1>2, <2>1
<1>4. QED
  BY <1>1, <1>3 DEF QueueGrown

LEMMA AddProcQueue ==
  ASSUME NEW s, Good(s), NEW p \in Procs
  PROVE  Rescheduled(s, AddProc(s, p), p)
<1>1. PICK z : z = AddProc(s, p)
  OBVIOUS
<1>2. z.pstate = [s.pstate EXCEPT ![p] = "Running"]
  BY <1>1, AddProcGood
<1>3. CASE s.pstate[p] = "Running"
  <2>1. z = s
    BY <1>1, <1>3 DEF AddProc
  <2>2. QED
    BY <1>1, <1>2, <1>3, <2>1, KeptSame DEF Rescheduled
<1>4. CASE s.pstate[p] # "Running"
  <2>1. PICK y : y = [s EXCEPT !.pstate[p] = "Running"]
    OBVIOUS
  <2>2. y.mem = s.mem /\ y.bad = s.bad
    BY <2>1 DEF Good, ObjOK
  <2>3. "Running" \in {"Waiting", "Running", "Busy"}
    OBVIOUS
  <2>4. Good(y)
    BY <2>1, <2>3, ProcStateGood
  <2>5. z = Enqueue(y, ProcQ, p)
    BY <1>1, <1>4, <2>1 DEF AddProc
  <2>6. QueueGrown(y, z, p)
    BY <2>4, <2>5, EnqueueGrown
  <2>7. QueueGrown(s, z, p)
    BY <2>2, <2>6 DEF QueueGrown
  <2>8. QED
    BY <1>1, <1>2, <1>4, <2>7 DEF Rescheduled
<1>5. QED
  BY <1>3, <1>4

LEMMA SwitchReadyQueue ==
  ASSUME NEW s, Good(s), NEW t \in AllThreads, s.proc[t] \in Procs
  PROVE  Rescheduled(s, SwitchReady(s, t), s.proc[t])
<1>1. PICK p, y : p = s.proc[t] /\ y = AddReady(s, p, t)
  OBVIOUS
<1>2. p \in Procs /\ Owner[s.proc[t]] = Owner[p]
  BY <1>1
<1>3. Good(y)
  BY <1>1, <1>2, AddReadyGood
<1>4. ProcsKept(s, y)
  BY <1>1, <1>2, AddReadyKept
<1>5. Rescheduled(y, AddProc(y, p), p)
  BY <1>2, <1>3, AddProcQueue
<1>6. QED
  BY <1>1, <1>4, <1>5, KeptThen DEF SwitchReady

LEMMA CreateKept ==
  ASSUME NEW s, Good(s), NEW t \in AllThreads, s.tstate[t] = "None", NEW p \in Procs, NEW i \in Prios
  PROVE  ProcsKept(s, AddReady([s EXCEPT !.tstate[t] = "Run", !.proc[t] = p, !.prio[t] = i], p, t))
<1>1. PICK y : y = [s EXCEPT !.tstate[t] = "Run", !.proc[t] = p, !.prio[t] = i]
  OBVIOUS
<1>2. y.mem = s.mem /\ y.bad = s.bad /\ y.pstate = s.pstate
  BY <1>1 DEF Good, ObjOK
<1>3. Good(y) /\ y.proc = [s.proc EXCEPT ![t] = p]
  <2>1. \A r \in Procs, j \in Prios : s.tstate[t] = "None" =>
          LET w == [s EXCEPT !.tstate[t] = "Run", !.proc[t] = r, !.prio[t] = j]
          IN  /\ Good(w) /\ w.tstate = [s.tstate EXCEPT ![t] = "Run"]
              /\ w.proc = [s.proc EXCEPT ![t] = r] /\ w.prio = [s.prio EXCEPT ![t] = j]
              /\ w.pstate = s.pstate /\ w.bt = s.bt
    BY ONLY Good(s), t \in AllThreads, FieldsGood
  <2>2. QED
    BY <1>1, <2>1
<1>4. y.proc[t] = p
  BY <1>3, FieldTypes
<1>5. ProcsKept(y, AddReady(y, p, t))
  BY <1>3, <1>4, AddReadyKept
<1>6. ProcsKept(s, y)
  BY <1>2, KeptSame DEF ProcsKept
<1>7. QED
  BY <1>1, <1>5, <1>6, KeptTrans

-----------------------------------------------------------------------------
(* The invariant of the queue of processors, for programs that do not kill *)
(* threads, wake threads that are done or share ready queues.              *)

(* A thread within a pSpawn on a processor.                                *)
InSpawn == Inserting \cup {"create"}
Spawning(t) == frame[t].at \in InSpawn

(* The processors that are in the queue.                                   *)
Queued == {p \in Procs : obj.pstate[p] = "Running" /\ p # curproc}
QueueOK == ~obj.bad /\ ProcsQueued(obj.mem, Queued)

(* Every processor has queues of its own, and threads are on processors    *)
(* that exist.                                                             *)
Unshared ==
  /\ \A p \in Procs : obj.pstate[p] # "None" => Owner[p] = p
  /\ \A t \in AllThreads : obj.proc[t] \in Procs => obj.pstate[obj.proc[t]] # "None"

(* A thread within a pSpawn on a processor has done with add_proc: the     *)
(* processor it spawns on is scheduled.  It runs, or the program has been  *)
(* aborted and it is ready on the current processor.                       *)
Spawner(t) ==
  /\ frame[t].at = "create" /\ obj.pstate[frame[t].tgt] = "Running"
  /\ \/ obj.tstate[t] = "Run" /\ t = cur /\ phase = "user"
     \/ obj.tstate[t] = "Ready" /\ obj.proc[t] = curproc
Spawners == \A t \in Threads : Spawning(t) => Spawner(t)

(* The processor of a ready thread is scheduled.                           *)
ReadyScheduled == \A t \in AllThreads : obj.tstate[t] = "Ready" => obj.pstate[obj.proc[t]] = "Running"

(* A queued processor has a ready thread, or is about to get one.          *)
Wanted(p) ==
  \/ \E t \in AllThreads : obj.tstate[t] = "Ready" /\ obj.proc[t] = p
  \/ \E t \in Threads : frame[t].at = "create" /\ frame[t].tgt = p
QueuedWanted == \A p \in Queued : Wanted(p)

(* Where the scheduler is in its loop tells which processor is current.    *)
ProcTurn ==
  /\ phase \in {"user", "reap", "sched", "self_switch"} => obj.pstate[curproc] = "Running"
  /\ phase = "newproc" => curproc \in Procs /\ obj.pstate[curproc] # "Running"
  /\ phase \in {"time", "expire"} => curproc = NULL
  /\ phase = "time" => Queued = {}
  /\ phase = "exit" /\ ~shutdown => curproc = NULL /\ Queued = {} /\ delayq = <<>>

(* A thread in a list has not ended.                                       *)
ListedAlive == \A t \in Threads : InList(t) => obj.tstate[t] # "Done"

QI == QueueOK /\ Unshared /\ Spawners /\ ReadyScheduled /\ QueuedWanted /\ ProcTurn /\ ListedAlive

LEMMA TurnFacts ==
  ASSUME KI, QI, phase \in UserPhases \cup {"sched"}
  PROVE  /\ curproc \in Procs /\ obj.pstate[curproc] = "Running" /\ Owner[curproc] = curproc
         /\ \A u \in AllThreads : obj.proc[u] \in Procs /\ Owner[obj.proc[u]] = Owner[curproc]
                                    => obj.proc[u] = curproc
         /\ phase \in UserPhases => obj.proc[cur] = curproc
<1>1. curproc \in Procs
  BY UserFacts DEF KI, Turns, MainTurn, MainPhases
<1>2. obj.pstate[curproc] = "Running"
  BY DEF QI, ProcTurn, UserPhases
<1>3. Owner[curproc] = curproc
  BY <1>1, <1>2 DEF QI, Unshared
<1>4. \A u \in AllThreads : obj.proc[u] \in Procs => Owner[obj.proc[u]] = obj.proc[u]
  BY DEF QI, Unshared
<1>5. \A u \in AllThreads : obj.proc[u] \in Procs /\ Owner[obj.proc[u]] = Owner[curproc]
                              => obj.proc[u] = curproc
  BY <1>3, <1>4
<1>6. QED
  BY <1>1, <1>2, <1>3, <1>5, UserFacts

(* What a step does to a thread, seen from the processors: nothing, it     *)
(* becomes ready on a scheduled processor, or it leaves the ready queues   *)
(* of the current one.                                                     *)
Settled(u) ==
  \/ obj'.tstate[u] = obj.tstate[u] /\ obj'.proc[u] = obj.proc[u]
  \/ obj.tstate[u] # "Ready" /\ obj'.tstate[u] = "Ready" /\ obj'.pstate[obj'.proc[u]] = "Running"
  \/ /\ obj.tstate[u] = "Ready" => obj.proc[u] = curproc
     /\ obj'.tstate[u] # "Ready" /\ obj'.proc[u] \in {obj.proc[u], curproc}

(* A step in which no processor stops being scheduled, and the processors  *)
(* of the threads that are woken are scheduled.                            *)
Keeping ==
  /\ \A q \in Procs : obj.pstate[q] = "Running" => obj'.pstate[q] = "Running"
  /\ \A u \in AllThreads : Woken(u) => obj'.pstate[obj.proc[u]] = "Running"

(* A turn of a user thread, or of the scheduler that ends with one.        *)
Turn == phase \in UserPhases \/ (phase = "sched" /\ ~shutdown /\ phase' = "user")

LEMMA SettledTurn ==
  ASSUME KI, QI, Effect, Turn, Keeping, "kill" \notin Ops
  PROVE  \A u \in AllThreads : Settled(u)
<1>1. /\ curproc \in Procs /\ obj.pstate[curproc] = "Running" /\ obj'.pstate[curproc] = "Running"
      /\ \A u \in AllThreads : obj.proc[u] \in Procs /\ Owner[obj.proc[u]] = Owner[curproc]
                                 => obj.proc[u] = curproc
      /\ phase \in UserPhases => obj.proc[cur] = curproc
  BY TurnFacts DEF Turn, Keeping
<1>2. ASSUME NEW u \in AllThreads, Kept(u) \/ Woken(u) PROVE Settled(u)
  BY <1>2 DEF Kept, Woken, Settled, Keeping
<1>3. phase \in UserPhases => cur \in Threads /\ obj.tstate[cur] = "Run"
  BY UserFacts
<1>4. ASSUME NEW u \in AllThreads, Created(u), phase \in UserPhases PROVE Settled(u)
  <2>1. frame[cur].at = "create" => obj.pstate[frame[cur].tgt] = "Running"
    BY <1>3, <1>4 DEF QI, Spawners, Spawner, Spawning, InSpawn
  <2>2. obj.pstate[obj'.proc[u]] = "Running" /\ obj'.proc[u] \in Procs
    BY <1>1, <1>4, <2>1 DEF Created
  <2>3. QED
    BY <1>4, <2>2 DEF Created, Settled, Keeping
<1>5. ASSUME NEW t \in AllThreads, First(t) PROVE Settled(t)
  <2>1. obj.tstate[t] = "Ready" /\ obj.proc[t] \in Procs /\ Owner[obj.proc[t]] = Owner[curproc]
    BY <1>5, FieldTypes DEF First, KI
  <2>2. QED
    BY <1>1, <1>5, <2>1 DEF First, Settled
<1>6. CASE Called
  <2>1. phase \in UserPhases /\ Settled(cur)
    BY <1>3, <1>6 DEF Called, Settled
  <2>2. QED
    BY <1>2, <1>4, <1>6, <2>1 DEF Called, Killed
<1>7. CASE Stuck
  <2>1. Settled(cur)
    BY <1>3, <1>7 DEF Stuck, Settled, UserPhases
  <2>2. QED
    BY <1>2, <1>7, <2>1 DEF Stuck
<1>8. CASE Left
  <2>1. Settled(cur)
    BY <1>1, <1>3, <1>8 DEF Left, Settled, UserPhases
  <2>2. QED
    BY <1>2, <1>8, <2>1 DEF Left
<1>9. ASSUME NEW t \in AllThreads, GaveWay(t) PROVE \A u \in AllThreads : Settled(u)
  <2>1. Settled(cur)
    BY <1>1, <1>3, <1>9 DEF GaveWay, Settled
  <2>2. Settled(t)
    BY <1>5, <1>9 DEF GaveWay
  <2>3. QED
    BY <1>2, <1>9, <2>1, <2>2 DEF GaveWay
<1>10. ASSUME NEW t \in AllThreads, Dispatched(t) PROVE \A u \in AllThreads : Settled(u)
  <2>1. phase = "sched" /\ ~shutdown /\ phase \in MainPhases
    BY <1>10 DEF Dispatched, Turn, UserPhases, MainPhases
  <2>2. Settled(MAIN)
    BY <1>1, <1>10, <2>1, MainFacts DEF Dispatched, Settled
  <2>3. Settled(t)
    BY <1>5, <1>10 DEF Dispatched
  <2>4. QED
    BY <1>2, <1>10, <2>2, <2>3 DEF Dispatched
<1>11. ~Scheduled
  BY DEF Turn, Scheduled, UserPhases, MainPhases
<1>12. QED
  BY <1>6, <1>7, <1>8, <1>9, <1>10, <1>11 DEF Effect

LEMMA UnsharedNext ==
  ASSUME KI, QI, \A u \in AllThreads : Settled(u), curproc \in Procs => obj.pstate[curproc] # "None",
         \A q \in Procs : obj'.pstate[q] # "None" <=> obj.pstate[q] # "None"
  PROVE  Unshared'
  BY DEF QI, Unshared, Settled

LEMMA ReadyNext ==
  ASSUME KI, QI, \A u \in AllThreads : Settled(u), Keeping
  PROVE  ReadyScheduled'
<1>1. ASSUME NEW u \in AllThreads, obj'.tstate[u] = "Ready" PROVE obj'.pstate[obj'.proc[u]] = "Running"
  <2>1. CASE obj.tstate[u] = "Ready" /\ obj'.proc[u] = obj.proc[u]
    <3>1. obj.proc[u] \in Procs /\ obj.pstate[obj.proc[u]] = "Running"
      BY <2>1, FieldTypes DEF KI, QI, ReadyScheduled
    <3>2. QED
      BY <2>1, <3>1 DEF Keeping
  <2>2. QED
    BY <1>1, <2>1 DEF Settled
<1>2. QED
  BY <1>1 DEF ReadyScheduled

(* A pSpawn that goes on knows its processor; one that ends has created    *)
(* a thread.                                                               *)
CreatesKept ==
  \A t \in Threads : frame[t].at = "create" =>
    \/ frame'[t].at = "create" /\ frame'[t].tgt = frame[t].tgt
    \/ \E v \in AllThreads : obj'.tstate[v] = "Ready" /\ obj'.proc[v] = frame[t].tgt

LEMMA WantedNext ==
  ASSUME QI, \A u \in AllThreads : Settled(u), CreatesKept, NEW q \in Queued
  PROVE  Wanted(q)'
<1>1. Wanted(q) /\ q # curproc
  BY DEF QI, QueuedWanted, Queued
<1>2. ASSUME NEW v \in AllThreads, obj.tstate[v] = "Ready", obj.proc[v] = q
      PROVE  Wanted(q)'
  <2>1. obj'.tstate[v] = "Ready" /\ obj'.proc[v] = q
    BY <1>1, <1>2 DEF Settled
  <2>2. QED
    BY <2>1 DEF Wanted
<1>3. ASSUME NEW t \in Threads, frame[t].at = "create", frame[t].tgt = q
      PROVE  Wanted(q)'
  BY <1>3 DEF CreatesKept, Wanted
<1>4. QED
  BY <1>1, <1>2, <1>3 DEF Wanted

LEMMA QueueNext ==
  ASSUME KI, QI, NEW p \in Procs, Rescheduled(obj, obj', p), curproc' = curproc,
         obj.pstate[p] = "Running" \/ p # curproc
  PROVE  /\ QueueOK'
         /\ Queued' = IF obj.pstate[p] = "Running" THEN Queued ELSE Queued \cup {p}
<1>1. /\ obj.pstate \in [Procs -> {"None", "Waiting", "Running", "Busy"}]
      /\ obj'.pstate = [obj.pstate EXCEPT ![p] = "Running"]
      /\ ~obj.bad /\ ProcsQueued(obj.mem, Queued)
  BY FieldTypes DEF KI, QI, QueueOK, Rescheduled
<1>4. Queued' = IF obj.pstate[p] = "Running" THEN Queued ELSE Queued \cup {p}
  <2>1. \A q \in Procs : obj'.pstate[q] = IF q = p THEN "Running" ELSE obj.pstate[q]
    BY <1>1
  <2>2. ASSUME NEW q \in Procs
        PROVE  q \in Queued' <=> (q \in Queued \/ (q = p /\ obj.pstate[p] # "Running"))
    BY <2>1 DEF Queued
  <2>3. QED
    BY <2>2 DEF Queued
<1>5. p \notin Queued \/ obj.pstate[p] = "Running"
  BY DEF Queued
<1> HIDE DEF Queued
<1>6. CASE obj.pstate[p] = "Running"
  BY <1>1, <1>4, <1>6 DEF Rescheduled, QueueKept, QueueOK
<1>7. CASE obj.pstate[p] # "Running"
  <2>1. ProcsQueued(obj'.mem, Queued \cup {p}) /\ obj'.bad = obj.bad
    BY <1>1, <1>5, <1>7 DEF Rescheduled, QueueGrown
  <2>2. QED
    BY <1>1, <1>4, <1>7, <2>1 DEF QueueOK
<1>8. QED
  BY <1>6, <1>7

LEMMA ListedNext ==
  ASSUME KI, QI, Fates, Held, phase \in UserPhases \cup MainPhases
  PROVE  ListedAlive'
<1> SUFFICES ASSUME NEW t \in Threads, InList(t)', obj'.tstate[t] = "Done" PROVE FALSE
  BY DEF ListedAlive
<1>1. InList(t) \/ (t = cur /\ obj'.tstate[t] = "Run")
  BY DEF Held, Joined
<1>2. InList(t) /\ obj.tstate[t] # "Done"
  BY <1>1 DEF QI, ListedAlive
<1>3. /\ waiters \in [Threads -> Seq(Threads)] /\ delayq \in Seq(Threads) /\ Waiting /\ Delayed
  BY DEF KI, Rest, Lists
<1>4. obj.tstate[t] = "Run" /\ frame[t].at \in Resting
  <2>1. ASSUME t \in Elems(delayq) PROVE Blocked(t, "delay")
    BY <1>3, <2>1 DEF Elems, Delayed
  <2>2. ASSUME NEW u \in Threads, t \in Elems(waiters[u]) PROVE Blocked(t, "wait")
    BY <1>3, <2>2 DEF Elems, Waiting
  <2>3. QED
    BY <1>2, <2>1, <2>2 DEF InList, Blocked, Resting
<1>5. t = cur /\ Alive(t)
  BY <1>4 DEF Fates, Alive
<1>6. phase \in UserPhases
  BY <1>5, ThreadFacts DEF KI, Turns, MainTurn
<1>7. QED
  BY <1>4, <1>5, <1>6, UserFacts

(* The threads within a pSpawn are the same, at the same place.            *)
SpawnersSame ==
  \A t \in Threads : Spawning(t) \/ Spawning(t)' =>
    frame'[t].at = frame[t].at /\ frame'[t].tgt = frame[t].tgt

Apart(f, g) == f.at \notin InSpawn /\ g.at \notin InSpawn

(* A call leaves the caller's stack alone, and does not end a thread that  *)
(* is within a pSpawn.                                                     *)
Simple == Called => frame' = frame /\ (phase' = phase \/ frame[cur].at = "user")

LEMMA SameSpawners ==
  ASSUME SpawnersSame
  PROVE  CreatesKept
  BY DEF SpawnersSame, CreatesKept, Spawning, InSpawn

LEMMA SpawnersTurn ==
  ASSUME KI, QI, Effect, Turn, Simple
  PROVE  SpawnersSame
<1>1. ASSUME NEW t \in Threads, frame'[t] = frame[t] \/ Apart(frame[t], frame'[t])
      PROVE  Spawning(t) \/ Spawning(t)' => frame'[t].at = frame[t].at /\ frame'[t].tgt = frame[t].tgt
  BY <1>1 DEF Spawning, Apart
<1>2. ASSUME NEW t \in Threads, Resumed(frame[t], frame'[t])
      PROVE  frame'[t] = frame[t] \/ Apart(frame[t], frame'[t])
  BY <1>2 DEF Resumed, Apart, Idle, Resting, InSpawn, Inserting, InAddReady, InAddProc, InQueueAdd
<1>3. CASE Called \/ Stuck \/ Left
  <2>1. frame' = frame
    BY <1>3 DEF Simple, Stuck, Left
  <2>2. QED
    BY <2>1 DEF SpawnersSame, Spawning
<1>4. ASSUME NEW v \in AllThreads, GaveWay(v) PROVE SpawnersSame
  <2>1. frame'[cur] = frame[cur] \/ Apart(frame[cur], frame'[cur])
    <3>1. CASE obj'.tstate[cur] = "Run"
      <4>1. frame'[cur].at \in Resting /\ frame[cur].at = "user"
        BY <1>4, <3>1 DEF GaveWay
      <4>2. PICK a, b : a = frame[cur].at /\ b = frame'[cur].at
        OBVIOUS
      <4>3. a \notin InSpawn /\ b \notin InSpawn
        BY <4>1, <4>2 DEF Resting, InSpawn, Inserting, InAddReady, InAddProc, InQueueAdd
      <4>4. QED
        BY <4>2, <4>3 DEF Apart
    <3>2. CASE obj'.tstate[cur] # "Run"
      BY <1>4, <3>2 DEF GaveWay
    <3>3. QED
      BY <3>1, <3>2
  <2>2. v \in Threads => frame'[v] = frame[v] \/ Apart(frame[v], frame'[v])
    BY <1>2, <1>4 DEF GaveWay, First
  <2>3. QED
    BY <1>1, <1>4, <2>1, <2>2 DEF GaveWay, SpawnersSame
<1>5. ASSUME NEW v \in AllThreads, Dispatched(v) PROVE SpawnersSame
  <2>1. v \in Threads => frame'[v] = frame[v] \/ Apart(frame[v], frame'[v])
    BY <1>2, <1>5 DEF Dispatched, First
  <2>2. QED
    BY <1>1, <1>5, <2>1 DEF Dispatched, SpawnersSame
<1>6. ~Scheduled
  BY DEF Turn, Scheduled, UserPhases, MainPhases
<1>7. QED
  BY <1>3, <1>4, <1>5, <1>6 DEF Effect

LEMMA SpawnersStay ==
  ASSUME KI, QI, Effect, Turn, Simple, Keeping, SpawnersSame, "kill" \notin Ops
  PROVE  Spawners' /\ curproc' = curproc
<1>1. curproc' = curproc
  BY DEF Effect, Turn, Called, Stuck, Left, Scheduled, GaveWay, Dispatched, UserPhases, MainPhases
<1>2. ASSUME NEW t \in Threads, Spawning(t)' PROVE Spawner(t)'
  <2>1. /\ Spawning(t) /\ frame'[t].at = frame[t].at /\ frame'[t].tgt = frame[t].tgt /\ Spawner(t)
        /\ t \in AllThreads /\ t # MAIN /\ frame[t].at \notin Resting /\ frame[t].at # "user"
    <3>1. Spawning(t) /\ frame'[t].at = frame[t].at /\ frame'[t].tgt = frame[t].tgt
      BY <1>2 DEF SpawnersSame, Spawning
    <3>2. Spawner(t) /\ frame[t].at = "create"
      BY <3>1 DEF QI, Spawners, Spawner
    <3>3. QED
      BY <3>1, <3>2, ThreadFacts DEF Resting
  <2>2. frame'[t].at = "create" /\ obj'.pstate[frame'[t].tgt] = "Running"
    <3>1. frame[t].tgt \in Procs
      BY <2>1 DEF KI, Frames, Proper, Spawner
    <3>2. QED
      BY <2>1, <3>1 DEF Spawner, Keeping
  <2>3. CASE t = cur /\ phase \in UserPhases
    <3>1. phase = "user" /\ obj.tstate[t] = "Run" /\ obj.proc[t] = curproc
      BY <2>1, <2>3, UserFacts, TurnFacts DEF Spawner
    <3>2. CASE Called
      <4>1. obj'.tstate[t] = "Run" /\ t = cur' /\ phase' = "user"
        BY <2>1, <2>3, <3>1, <3>2 DEF Called, Simple
      <4>2. QED
        BY <2>2, <4>1 DEF Spawner
    <3>3. CASE Left
      <4>1. obj'.tstate[t] = "Ready" /\ obj'.proc[t] = curproc'
        BY <1>1, <2>3, <3>1, <3>3 DEF Left
      <4>2. QED
        BY <2>2, <4>1 DEF Spawner
    <3>4. ASSUME NEW v \in AllThreads, GaveWay(v) PROVE Spawner(t)'
      <4>1. obj'.tstate[t] = "Ready" /\ obj'.proc[t] = curproc'
        BY <1>1, <2>1, <2>3, <3>1, <3>4 DEF GaveWay
      <4>2. QED
        BY <2>2, <4>1 DEF Spawner
    <3>5. ~Scheduled /\ (\A v \in AllThreads : ~Dispatched(v)) /\ ~Stuck
      BY <2>1, <2>3, <3>1 DEF Scheduled, Dispatched, Stuck, MainPhases
    <3>6. QED
      BY <3>2, <3>3, <3>4, <3>5 DEF Effect
  <2>4. CASE ~(t = cur /\ phase \in UserPhases)
    <3>1. obj.tstate[t] = "Ready" /\ obj.proc[t] = curproc
      BY <2>1, <2>4 DEF Spawner, UserPhases
    <3>2. ASSUME Kept(t) PROVE Spawner(t)'
      BY <1>1, <2>2, <3>1, <3>2 DEF Kept, Spawner
    <3>3. CASE Called
      <4>1. Kept(t)
        BY <2>1, <2>4, <3>1, <3>3 DEF Called, Created, Woken, Killed
      <4>2. QED
        BY <3>2, <4>1
    <3>4. CASE Stuck \/ Left
      <4>1. Kept(t)
        BY <2>1, <2>4, <3>4 DEF Stuck, Left, UserPhases
      <4>2. QED
        BY <3>2, <4>1
    <3>5. ASSUME NEW v \in AllThreads, GaveWay(v) \/ Dispatched(v) PROVE Spawner(t)'
      <4>1. CASE t = v
        <5>1. obj'.tstate[t] = "Run" /\ t = cur' /\ phase' = "user"
          BY <2>1, <3>5, <4>1 DEF GaveWay, Dispatched, First
        <5>2. QED
          BY <2>2, <5>1 DEF Spawner
      <4>2. CASE t # v
        <5>1. Kept(t)
          BY <2>1, <2>4, <3>5, <4>2 DEF GaveWay, Dispatched
        <5>2. QED
          BY <3>2, <5>1
      <4>3. QED
        BY <4>1, <4>2
    <3>6. ~Scheduled
      BY DEF Turn, Scheduled, UserPhases, MainPhases
    <3>7. QED
      BY <3>3, <3>4, <3>5, <3>6 DEF Effect
  <2>5. QED
    BY <2>3, <2>4
<1>3. QED
  BY <1>1, <1>2 DEF Spawners

(* A turn in which at most processor p, on which a thread becomes ready,   *)
(* is newly scheduled.                                                     *)
TurnOn(p) ==
  /\ Turn
  /\ Rescheduled(obj, obj', p) /\ obj.pstate[p] # "None"
  /\ obj.pstate[p] = "Running" \/ \E u \in AllThreads : obj'.tstate[u] = "Ready" /\ obj'.proc[u] = p
  /\ \A u \in AllThreads : Woken(u) => obj'.pstate[obj.proc[u]] = "Running"

LEMMA TurnKeeps ==
  ASSUME KI, QI, NEW p \in Procs, TurnOn(p)
  PROVE  /\ Keeping /\ curproc \in Procs /\ obj.pstate[curproc] = "Running"
         /\ \A q \in Procs : obj'.pstate[q] = IF q = p THEN "Running" ELSE obj.pstate[q]
         /\ phase \in UserPhases \cup {"sched"}
<1>1. /\ obj.pstate \in [Procs -> {"None", "Waiting", "Running", "Busy"}]
      /\ \A q \in Procs : obj'.pstate[q] = IF q = p THEN "Running" ELSE obj.pstate[q]
  BY FieldTypes DEF KI, TurnOn, Rescheduled
<1>2. Keeping
  BY <1>1 DEF TurnOn, Keeping
<1>3. phase \in UserPhases \cup {"sched"}
  BY DEF TurnOn, Turn
<1>4. QED
  BY <1>1, <1>2, <1>3, TurnFacts

LEMMA SteadyQI ==
  ASSUME KI, QI, Effect, Held, "kill" \notin Ops, NEW p \in Procs, TurnOn(p),
         Spawners', curproc' = curproc, CreatesKept
  PROVE  QI'
<1>1. /\ \A q \in Procs : obj'.pstate[q] = IF q = p THEN "Running" ELSE obj.pstate[q]
      /\ Turn /\ Keeping /\ curproc \in Procs /\ obj.pstate[curproc] = "Running"
      /\ phase \in UserPhases \cup {"sched"}
  BY TurnKeeps DEF TurnOn
<1>2. \A u \in AllThreads : Settled(u)
  BY <1>1, SettledTurn
<1>3. /\ QueueOK' /\ Queued' = IF obj.pstate[p] = "Running" THEN Queued ELSE Queued \cup {p}
  BY <1>1, QueueNext DEF TurnOn
<1>4. Unshared'
  BY <1>1, <1>2, UnsharedNext DEF TurnOn
<1>5. ReadyScheduled'
  BY <1>1, <1>2, ReadyNext
<1>6. QueuedWanted'
  <2>1. \A q \in Queued : Wanted(q)'
    BY <1>2, WantedNext
  <2>2. obj.pstate[p] # "Running" => Wanted(p)'
    BY DEF TurnOn, Wanted
  <2>3. \A q \in Queued' : Wanted(q)'
    BY <1>3, <2>1, <2>2
  <2>4. QED
    BY <2>3 DEF QueuedWanted
<1>7. ProcTurn'
  <2>1. phase' \in {"user", "reap", "sched", "self_switch"}
    BY <1>1 DEF Turn, Effect, Called, Stuck, Left, Scheduled, GaveWay, Dispatched, UserPhases, MainPhases
  <2>2. obj'.pstate[curproc'] = "Running"
    BY <1>1
  <2>3. QED
    BY <2>1, <2>2 DEF ProcTurn
<1>8. ListedAlive'
  <2>1. phase \in UserPhases \cup MainPhases
    BY <1>1 DEF MainPhases
  <2>2. QED
    BY <2>1, EffectFates, ListedNext
<1>9. QED
  BY <1>3, <1>4, <1>5, <1>6, <1>7, <1>8 DEF QI

LEMMA TurnQI ==
  ASSUME KI, QI, Effect, Held, "kill" \notin Ops, NEW p \in Procs, TurnOn(p), Simple
  PROVE  QI'
<1>1. Turn /\ Keeping
  BY TurnKeeps DEF TurnOn
<1>2. SpawnersSame
  BY <1>1, SpawnersTurn
<1>3. Spawners' /\ curproc' = curproc
  BY <1>1, <1>2, SpawnersStay
<1>4. CreatesKept
  BY <1>2, SameSpawners
<1>5. QED
  BY <1>3, <1>4, SteadyQI

-----------------------------------------------------------------------------
(* The calls.                                                              *)

(* No thread is made ready but new ones and those that give way.           *)
NoneWoken ==
  \A u \in AllThreads : obj'.tstate[u] = "Ready" => obj.tstate[u] \in {"Ready", "None"} \/ u \in {cur, MAIN}

LEMMA KeptTurn ==
  ASSUME KI, QI, Turn, ProcsKept(obj, obj'), NoneWoken
  PROVE  curproc \in Procs /\ TurnOn(curproc)
<1>1. curproc \in Procs /\ obj.pstate[curproc] = "Running"
  BY TurnFacts DEF Turn
<1>2. obj'.pstate = [obj.pstate EXCEPT ![curproc] = "Running"]
  BY <1>1, FieldTypes DEF KI, ProcsKept
<1>3. \A u \in AllThreads : ~Woken(u)
  <2>1. SUFFICES ASSUME NEW u \in AllThreads, Woken(u) PROVE FALSE
    OBVIOUS
  <2>2. u = cur /\ u \in Threads /\ frame[u].at \in Resting
    BY <2>1, ThreadFacts DEF Woken, NoneWoken
  <2>3. phase \in UserPhases
    BY <2>2, ThreadFacts DEF Turn, KI, Turns, MainTurn, MainPhases
  <2>4. QED
    BY <2>2, <2>3, UserFacts
<1>4. QED
  BY <1>1, <1>2, <1>3 DEF TurnOn, Rescheduled, ProcsKept

LEMMA KeptQI ==
  ASSUME KI, QI, Effect, Held, "kill" \notin Ops, Turn, Simple, ProcsKept(obj, obj'), NoneWoken
  PROVE  QI'
  BY KeptTurn, TurnQI

LEMMA SameKept == ASSUME obj' = obj PROVE ProcsKept(obj, obj') /\ NoneWoken
  BY KeptSame DEF ProcsKept, NoneWoken

(* The calls that touch nothing but the lock.                              *)
LEMMA StillQI ==
  ASSUME KI, QI, Effect, Held, "kill" \notin Ops, phase \in UserPhases, obj' = obj, frame' = frame,
         phase' = phase \/ frame[cur].at = "user"
  PROVE  QI'
  BY SameKept, KeptQI DEF Turn, Simple

(* A thread that is ready or blocked is made ready.                        *)
LEMMA WakeQI ==
  ASSUME KI, QI, Effect, Held, "kill" \notin Ops, phase \in UserPhases, frame' = frame, phase' = phase,
         NEW n \in Threads, obj.tstate[n] \in {"Ready", "Run"}, obj' = SwitchReady(obj, n)
  PROVE  QI'
<1>1. PICK p : p = obj.proc[n]
  OBVIOUS
<1>2. n \in AllThreads /\ p \in Procs /\ Good(obj)
  BY <1>1, UserFacts, ThreadFacts DEF KI
<1>3. Rescheduled(obj, obj', p)
  BY <1>1, <1>2, SwitchReadyQueue
<1>4. Readied(obj, obj', n)
  BY <1>1, <1>2, SwitchReadyGood, UserFacts
<1>5. obj'.pstate[p] = "Running" /\ obj'.proc = obj.proc /\ obj'.tstate[n] = "Ready"
  BY <1>1, <1>2, <1>4, FieldTypes DEF Readied
<1>6. \A u \in AllThreads \ {n} : obj'.tstate[u] = obj.tstate[u]
  BY <1>2, <1>4, FieldTypes DEF Readied
<1>7. obj.pstate[p] # "None"
  BY <1>1, <1>2 DEF QI, Unshared
<1>8. \A u \in AllThreads : Woken(u) => obj'.pstate[obj.proc[u]] = "Running"
  BY <1>1, <1>5, <1>6 DEF Woken
<1>9. TurnOn(p) /\ Simple
  BY <1>1, <1>2, <1>3, <1>5, <1>7, <1>8 DEF TurnOn, Turn, Simple
<1>10. QED
  BY <1>2, <1>9, TurnQI

(* Blocking: the next thread of the current processor takes over.          *)
LEMMA BlockKept ==
  ASSUME KI, QI, phase \in UserPhases, NEW s, Good(s), s.tstate[MAIN] = "Ready", s.proc = obj.proc,
         ProcsKept(obj, s), \A u \in AllThreads \ {cur} : s.tstate[u] = obj.tstate[u],
         NEW lk, NEW fr, ExecBlock(s, lk, fr)
  PROVE  ~Called /\ ProcsKept(obj, obj') /\ NoneWoken
<1>1. PICK t : t = NextReady(s, curproc)
  OBVIOUS
<1>2. t # NULL /\ TakenNext(s, SetProc(GetReady(s, curproc), t, curproc), curproc, t)
  BY <1>1, NextExists
<1>3. PICK y : y = SetProc(GetReady(s, curproc), t, curproc)
  OBVIOUS
<1>4. obj' = y /\ (t = cur => phase' = "self_switch") /\ (t # cur => cur' = t)
  BY <1>1, <1>2, <1>3 DEF ExecBlock, Crash, Resume
<1>5. ~Called
  BY <1>4 DEF Called, UserPhases
<1>6. ProcsKept(s, y)
  BY <1>1, <1>2, <1>3, TakeNextKept, UserFacts
<1>7. ProcsKept(obj, obj')
  BY <1>4, <1>6, KeptTrans
<1>8. t \in AllThreads /\ y.tstate = [s.tstate EXCEPT ![t] = "Run"] /\ s.tstate[t] = "Ready"
  BY <1>2, <1>3 DEF TakenNext
<1>9. \A u \in AllThreads : y.tstate[u] = "Ready" => s.tstate[u] = "Ready"
  BY <1>8
<1>10. NoneWoken
  BY <1>4, <1>9 DEF NoneWoken
<1>11. QED
  BY <1>5, <1>7, <1>10

LEMMA BlockQI ==
  ASSUME KI, QI, Effect, Held, "kill" \notin Ops, phase \in UserPhases,
         NEW s, Good(s), s.tstate[MAIN] = "Ready", s.proc = obj.proc,
         ProcsKept(obj, s), \A u \in AllThreads \ {cur} : s.tstate[u] = obj.tstate[u],
         NEW lk, NEW fr, ExecBlock(s, lk, fr)
  PROVE  QI'
<1>1. ~Called /\ ProcsKept(obj, obj') /\ NoneWoken
  BY BlockKept
<1>2. Turn /\ Simple
  BY <1>1 DEF Turn, Simple
<1>3. QED
  BY <1>1, <1>2, KeptQI

(* The current thread is queued again on its own processor, which is the   *)
(* current one and is scheduled.                                           *)
LEMMA RequeueKept ==
  ASSUME NEW s, Good(s), NEW t \in AllThreads, s.proc[t] \in Procs, s.pstate[s.proc[t]] = "Running",
         s.tstate[t] # "Busy"
  PROVE  /\ ProcsKept(s, SwitchReady(s, t))
         /\ \A u \in AllThreads \ {t} : SwitchReady(s, t).tstate[u] = s.tstate[u]
<1>1. PICK z, p : z = SwitchReady(s, t) /\ p = s.proc[t]
  OBVIOUS
<1>2. Rescheduled(s, z, p)
  BY <1>1, SwitchReadyQueue
<1>3. Readied(s, z, t)
  BY <1>1, SwitchReadyGood
<1>4. s.pstate \in [Procs -> {"None", "Waiting", "Running", "Busy"}]
      /\ s.tstate \in [AllThreads -> {"None", "Run", "Ready", "Busy", "Done"}]
  BY FieldTypes
<1>5. z.pstate = s.pstate /\ QueueKept(s, z)
  BY <1>1, <1>2, <1>4 DEF Rescheduled
<1>6. \A u \in AllThreads \ {t} : z.tstate[u] = s.tstate[u]
  BY <1>3, <1>4 DEF Readied
<1>7. QED
  BY <1>1, <1>5, <1>6 DEF ProcsKept

LEMMA ExecReadyQI ==
  ASSUME KI, QI, Effect, Held, "kill" \notin Ops, phase \in UserPhases, ExecReady
  PROVE  QI'
<1>1. PICK t, y : t = NextReady(obj, curproc) /\ y = SetProc(GetReady(obj, curproc), t, curproc)
  OBVIOUS
<1>2. /\ cur \in AllThreads /\ curproc \in Procs /\ obj.tstate[cur] = "Run" /\ Good(obj)
      /\ obj.tstate[MAIN] = "Ready"
      /\ obj.tstate \in [AllThreads -> {"None", "Run", "Ready", "Busy", "Done"}]
      /\ obj.proc \in [AllThreads -> ProcPtr]
  BY UserFacts, FieldTypes DEF KI
<1>3. /\ obj.proc[cur] = curproc /\ obj.pstate[curproc] = "Running"
  BY TurnFacts
<1>4. t # NULL /\ TakenNext(obj, y, curproc, t) /\ y.proc = [obj.proc EXCEPT ![t] = curproc]
  BY <1>1, <1>2, NextExists
<1>6. ProcsKept(obj, y)
  BY <1>1, <1>2, <1>4, TakeNextKept
<1>7. /\ Good(y) /\ t \in AllThreads /\ obj.tstate[t] = "Ready" /\ y.tstate = [obj.tstate EXCEPT ![t] = "Run"]
      /\ y.pstate = obj.pstate
  BY <1>4 DEF TakenNext
<1>5. obj' = SwitchReady(y, cur) /\ cur' = t
  BY <1>1, <1>2, <1>4, <1>7 DEF ExecReady, Resume
<1>8. t # cur /\ y.proc[cur] = curproc /\ y.tstate[cur] # "Busy" /\ y.pstate[curproc] = "Running"
  BY <1>2, <1>3, <1>4, <1>7
<1>9. /\ ProcsKept(y, obj') /\ \A u \in AllThreads \ {cur} : obj'.tstate[u] = y.tstate[u]
  BY <1>2, <1>5, <1>7, <1>8, RequeueKept
<1>10. ProcsKept(obj, obj')
  BY <1>6, <1>9, KeptTrans
<1>11. NoneWoken
  BY <1>2, <1>7, <1>9 DEF NoneWoken
<1>12. ~Called
  BY <1>5, <1>8 DEF Called
<1>13. QED
  BY <1>10, <1>11, <1>12, KeptQI DEF Turn, Simple

LEMMA LeaveQI ==
  ASSUME KI, QI, Effect, Held, "kill" \notin Ops, phase \in UserPhases, Leave
  PROVE  QI'
<1>1. /\ cur \in AllThreads /\ cur # MAIN /\ obj.proc[cur] \in Procs /\ obj.tstate[cur] # "Busy" /\ Good(obj)
  BY UserFacts DEF KI
<1>2. obj.pstate[obj.proc[cur]] = "Running"
  BY TurnFacts
<1>3. obj' = SwitchReady(obj, cur) /\ cur' = MAIN
  BY DEF Leave, Resume
<1>4. /\ ProcsKept(obj, obj') /\ \A u \in AllThreads \ {cur} : obj'.tstate[u] = obj.tstate[u]
  BY <1>1, <1>2, <1>3, RequeueKept
<1>5. NoneWoken
  BY <1>4 DEF NoneWoken
<1>6. ~Called
  BY <1>1, <1>3 DEF Called
<1>7. QED
  BY <1>4, <1>5, <1>6, KeptQI DEF Turn, Simple

LEMMA SwitchTermQI ==
  ASSUME KI, QI, Effect, Held, "kill" \notin Ops, SwitchTerm
  PROVE  QI'
<1>1. PICK t, y : t = NextReady(obj, curproc) /\ y = GetReady(obj, curproc)
  OBVIOUS
<1>2. phase \in UserPhases
  BY DEF SwitchTerm, UserPhases
<1>3. /\ cur \in AllThreads /\ curproc \in Procs /\ obj.tstate[cur] = "Run" /\ Good(obj)
      /\ obj.tstate[MAIN] = "Ready"
      /\ obj.tstate \in [AllThreads -> {"None", "Run", "Ready", "Busy", "Done"}]
  BY <1>2, UserFacts, FieldTypes DEF KI
<1>4. t # NULL /\ TakenNext(obj, y, curproc, t)
  BY <1>1, <1>2, <1>3, NextExists
<1>5. obj' = [y EXCEPT !.tstate[cur] = "Done"] /\ cur' = t
  BY <1>1, <1>4 DEF SwitchTerm, Resume
<1>6. ProcsKept(obj, y)
  BY <1>1, <1>3, <1>4, TakeNextKept
<1>7. /\ Good(y) /\ t \in AllThreads /\ obj.tstate[t] = "Ready" /\ y.tstate = [obj.tstate EXCEPT ![t] = "Run"]
  BY <1>4 DEF TakenNext
<1>8. /\ obj'.tstate = [y.tstate EXCEPT ![cur] = "Done"] /\ obj'.mem = y.mem /\ obj'.bad = y.bad
      /\ obj'.pstate = y.pstate
  BY <1>5, <1>7 DEF Good, ObjOK
<1>9. ProcsKept(y, obj')
  BY <1>8, KeptSame DEF ProcsKept
<1>10. ProcsKept(obj, obj')
  BY <1>6, <1>9, KeptTrans
<1>11. NoneWoken
  BY <1>3, <1>7, <1>8 DEF NoneWoken
<1>12. ~Called
  BY <1>3, <1>5, <1>7 DEF Called
<1>13. QED
  BY <1>2, <1>10, <1>11, <1>12, KeptQI DEF Turn, Simple

LEMMA CreateFacts ==
  ASSUME KI, phase \in UserPhases, NEW p \in Procs, NEW t \in Threads, NEW pr \in UserPrios, Create(p, t, pr)
  PROVE  ProcsKept(obj, obj') /\ NoneWoken /\ obj'.tstate[t] = "Ready" /\ obj'.proc[t] = p
<1>1. PICK i : i = IF pr < 0 THEN obj.prio[cur] ELSE pr
  OBVIOUS
<1>2. /\ Good(obj) /\ t \in AllThreads /\ obj.tstate[t] = "None" /\ cur \in AllThreads
      /\ obj.tstate \in [AllThreads -> {"None", "Run", "Ready", "Busy", "Done"}]
      /\ obj.prio \in [AllThreads -> Prios] /\ obj.proc \in [AllThreads -> ProcPtr]
  BY UserFacts, ThreadFacts, FieldTypes DEF KI, Create
<1>3. i \in Prios
  BY <1>1, <1>2, UserPriosOK
<1>4. obj' = AddReady([obj EXCEPT !.tstate[t] = "Run", !.proc[t] = p, !.prio[t] = i], p, t)
  BY <1>1 DEF Create
<1>5. ProcsKept(obj, obj')
  BY <1>2, <1>3, <1>4, CreateKept
<1>6. Made(obj, obj', t, p, i)
  BY <1>2, <1>3, <1>4, CreateGood
<1>7. obj'.tstate = [obj.tstate EXCEPT ![t] = "Ready"] /\ obj'.proc = [obj.proc EXCEPT ![t] = p]
  BY <1>6 DEF Made
<1>8. NoneWoken
  BY <1>2, <1>7 DEF NoneWoken
<1>9. QED
  BY <1>2, <1>5, <1>7, <1>8

LEMMA SpawnQI ==
  ASSUME KI, QI, Effect, Held, "kill" \notin Ops, NEW t \in Threads, NEW pr \in UserPrios, Spawn(t, pr)
  PROVE  QI'
<1>1. phase \in UserPhases /\ Create(curproc, t, pr) /\ frame' = frame /\ phase' = phase
  BY DEF Spawn, Calls, UserPhases
<1>2. ProcsKept(obj, obj') /\ NoneWoken
  BY <1>1, CreateFacts, UserFacts
<1>3. QED
  BY <1>1, <1>2, KeptQI DEF Turn, Simple

(* In a call, the other threads within a pSpawn stay where they are.       *)
LEMMA OtherSpawners ==
  ASSUME KI, QI, Effect, phase = "user", phase' = "user", cur' = cur, Keeping, "kill" \notin Ops,
         NEW t \in Threads \ {cur}, Spawning(t), frame'[t] = frame[t]
  PROVE  Spawner(t)'
<1>1. Called
  BY ThreadFacts, UserFacts
     DEF Effect, Called, Stuck, Left, Scheduled, GaveWay, Dispatched, First, UserPhases, MainPhases
<1>2. Spawner(t) /\ frame[t].tgt \in Procs
  BY DEF QI, Spawners, Spawner, KI, Frames, Proper
<1>3. obj.tstate[t] = "Ready" /\ obj.proc[t] = curproc /\ t \in AllThreads
  BY <1>2, ThreadFacts DEF Spawner
<1>4. Kept(t) /\ curproc' = curproc
  BY <1>1, <1>3 DEF Called, Created, Woken, Killed
<1>5. QED
  BY <1>2, <1>3, <1>4 DEF Spawner, Keeping, Kept

LEMMA SpawnOnCreateQI ==
  ASSUME KI, QI, Effect, Held, "kill" \notin Ops, NEW t \in Threads, NEW pr \in UserPrios, SpawnOnCreate(t, pr)
  PROVE  QI'
<1>1. PICK p : p = frame[cur].tgt
  OBVIOUS
<1>2. /\ phase = "user" /\ phase \in UserPhases /\ frame[cur].at = "create" /\ Create(p, t, pr)
      /\ frame' = [frame EXCEPT ![cur] = Idle] /\ cur' = cur /\ curproc' = curproc /\ phase' = "user"
  BY <1>1 DEF SpawnOnCreate, UserPhases
<1>3. cur \in Threads /\ frame \in [Threads -> FrameType] /\ p \in Procs
  BY <1>1, <1>2, UserFacts DEF KI, Frames, Proper
<1>4. ProcsKept(obj, obj') /\ NoneWoken /\ obj'.tstate[t] = "Ready" /\ obj'.proc[t] = p
  BY <1>2, <1>3, CreateFacts
<1>5. curproc \in Procs /\ TurnOn(curproc) /\ Keeping
  BY <1>2, <1>4, KeptTurn, TurnKeeps DEF Turn
<1>6. /\ \A u \in Threads \ {cur} : frame'[u] = frame[u]
      /\ frame'[cur].at = "user"
  BY <1>2, <1>3 DEF Idle
<1>7. Spawners'
  <2>1. ASSUME NEW u \in Threads, Spawning(u)' PROVE Spawner(u)'
    <3>1. u # cur /\ Spawning(u) /\ frame'[u] = frame[u]
      BY <1>6, <2>1 DEF Spawning, InSpawn, Inserting, InAddReady, InAddProc, InQueueAdd
    <3>2. QED
      BY <1>2, <1>5, <3>1, OtherSpawners
  <2>2. QED
    BY <2>1 DEF Spawners
<1>8. CreatesKept
  BY <1>1, <1>4, <1>6, ThreadFacts DEF CreatesKept
<1>9. QED
  BY <1>2, <1>5, <1>7, <1>8, SteadyQI

(* add_proc() in a pSpawn: no thread moves.                                *)
SpawnStep ==
  /\ phase = "user" /\ phase' = "user" /\ cur' = cur /\ curproc' = curproc
  /\ obj'.tstate = obj.tstate /\ obj'.proc = obj.proc
  /\ \A q \in Procs : obj.pstate[q] = "Running" => obj'.pstate[q] = "Running"
  /\ \A q \in Procs : obj'.pstate[q] # "None" <=> obj.pstate[q] # "None"
  /\ \A u \in Threads \ {cur} : frame'[u] = frame[u]
  /\ frame'[cur].at = "create" /\ frame'[cur].tgt \in Procs
  /\ obj'.pstate[frame'[cur].tgt] = "Running"
  /\ frame[cur].at # "create"

LEMMA SpawnStepQI ==
  ASSUME KI, QI, Effect, Held, "kill" \notin Ops, SpawnStep
  PROVE  /\ Unshared' /\ ReadyScheduled' /\ ProcTurn' /\ ListedAlive' /\ Spawners'
         /\ \A q \in Queued : Wanted(q)'
         /\ cur \in Threads /\ curproc \in Procs /\ obj.pstate[curproc] = "Running"
<1>1. /\ phase \in UserPhases /\ phase \in UserPhases \cup {"sched"}
  BY DEF SpawnStep, UserPhases
<1>2. /\ cur \in Threads /\ obj.tstate[cur] = "Run"
      /\ curproc \in Procs /\ obj.pstate[curproc] = "Running"
  BY <1>1, UserFacts, TurnFacts
<1>3. Keeping /\ \A u \in AllThreads : Settled(u)
  BY DEF SpawnStep, Keeping, Woken, Settled
<1>4. Unshared'
  BY <1>2, <1>3, UnsharedNext DEF SpawnStep
<1>5. ReadyScheduled'
  BY <1>3, ReadyNext
<1>6. ProcTurn'
  BY <1>2 DEF SpawnStep, ProcTurn
<1>7. ListedAlive'
  BY <1>1, EffectFates, ListedNext
<1>8. Spawners'
  <2>1. ASSUME NEW u \in Threads, Spawning(u)' PROVE Spawner(u)'
    <3>1. CASE u = cur
      BY <1>2, <3>1 DEF SpawnStep, Spawner
    <3>2. CASE u # cur
      <4>1. Spawning(u) /\ frame'[u] = frame[u]
        BY <2>1, <3>2 DEF Spawning, SpawnStep
      <4>2. QED
        BY <1>3, <3>2, <4>1, OtherSpawners DEF SpawnStep
    <3>3. QED
      BY <3>1, <3>2
  <2>2. QED
    BY <2>1 DEF Spawners
<1>9. CreatesKept
  BY DEF SpawnStep, CreatesKept
<1>10. \A q \in Queued : Wanted(q)'
  BY <1>3, <1>9, WantedNext
<1>11. QED
  BY <1>2, <1>4, <1>5, <1>6, <1>7, <1>8, <1>10

LEMMA SpawnOnQI ==
  ASSUME KI, QI, Effect, Held, "kill" \notin Ops, "procrace" \notin Ops, NEW p \in Procs, SpawnOn(p)
  PROVE  QI'
<1> DEFINE g == Returned("create", p)
<1>1. /\ phase = "user" /\ phase \in UserPhases /\ frame[cur].at = "user" /\ obj.pstate[p] # "None"
      /\ phase' = "user" /\ cur' = cur /\ curproc' = curproc
      /\ obj' = AddProc(obj, p) /\ frame' = [frame EXCEPT ![cur] = g]
  BY DEF SpawnOn, AddProcCall, MayMake, Calls, UserPhases, clusterVars
<1>2. /\ cur \in Threads /\ frame \in [Threads -> FrameType] /\ Good(obj)
      /\ obj.pstate \in [Procs -> {"None", "Waiting", "Running", "Busy"}]
  BY <1>1, UserFacts, FieldTypes DEF KI, Frames
<1>3. g.at = "create" /\ g.tgt = p
  BY DEF Returned, Idle
<1> HIDE DEF g
<1>4. /\ \A u \in Threads \ {cur} : frame'[u] = frame[u]
      /\ frame'[cur].at = "create" /\ frame'[cur].tgt = p
  BY <1>1, <1>2, <1>3
<1>5. Rescheduled(obj, obj', p)
  BY <1>1, <1>2, AddProcQueue
<1>6. obj'.tstate = obj.tstate /\ obj'.proc = obj.proc
  BY <1>1, <1>2, AddProcGood
<1>7. \A q \in Procs : obj'.pstate[q] = IF q = p THEN "Running" ELSE obj.pstate[q]
  BY <1>2, <1>5 DEF Rescheduled
<1>8. SpawnStep
  BY <1>1, <1>4, <1>6, <1>7 DEF SpawnStep
<1>9. /\ Unshared' /\ ReadyScheduled' /\ ProcTurn' /\ ListedAlive' /\ Spawners'
      /\ \A q \in Queued : Wanted(q)'
      /\ curproc \in Procs /\ obj.pstate[curproc] = "Running"
  BY <1>8, SpawnStepQI
<1>10. QueueOK' /\ Queued' = IF obj.pstate[p] = "Running" THEN Queued ELSE Queued \cup {p}
  BY <1>1, <1>5, <1>9, QueueNext
<1>11. Wanted(p)'
  BY <1>2, <1>4 DEF Wanted
<1> HIDE DEF Queued
<1>12. QueuedWanted'
  <2>1. \A q \in Queued' : Wanted(q)'
    BY <1>9, <1>10, <1>11
  <2>2. QED
    BY <2>1 DEF QueuedWanted
<1>13. QED
  BY <1>9, <1>10, <1>12 DEF QI

-----------------------------------------------------------------------------
(* The scheduler loop.                                                     *)

LEMMA EmptyFacts ==
  ASSUME NEW s, Good(s), NEW p \in Procs
  PROVE  Empty(s, p) <=> \A t \in AllThreads : ~(s.tstate[t] = "Ready" /\ Owner[s.proc[t]] = Owner[p])
<1>1. PICK S : S = OnOwner(s, Owner[p])
  OBVIOUS
<1>2. Owner[p] \in Procs
  BY ProcAssumption
<1>3. s.count[Owner[p]] = Cardinality(S)
  BY <1>1, <1>2 DEF Good, Counted
<1>4. IsFiniteSet(S)
  BY <1>1, Distinctness, FS_Subset DEF OnOwner, ReadySet
<1>5. Cardinality(S) = 0 <=> S = {}
  BY <1>4, FS_EmptySet
<1>6. S = {} <=> \A t \in AllThreads : ~(s.tstate[t] = "Ready" /\ Owner[s.proc[t]] = Owner[p])
  BY <1>1 DEF OnOwner, ReadySet
<1>7. QED
  BY <1>3, <1>5, <1>6 DEF Empty

LEMMA DispatchQI ==
  ASSUME KI, QI, Effect, Held, "kill" \notin Ops, Dispatch
  PROVE  QI'
<1>1. PICK t, y, z : t = NextReady(obj, curproc) /\ y = GetReady(obj, curproc) /\ z = SetProc(y, MAIN, curproc)
  OBVIOUS
<1>2. /\ phase = "sched" /\ phase \in MainPhases /\ ~shutdown /\ ~Empty(obj, curproc)
      /\ t # NULL => obj' = SwitchReady(z, MAIN) /\ Resume(t, locked, frame)
  BY <1>1 DEF Dispatch, MainPhases
<1>3. /\ Good(obj) /\ curproc \in Procs /\ obj.tstate[MAIN] = "Run"
      /\ obj.tstate \in [AllThreads -> {"None", "Run", "Ready", "Busy", "Done"}]
      /\ obj.pstate[curproc] = "Running"
  BY <1>2, MainFacts, FieldTypes, TurnFacts
<1>4. t # NULL
  <2>1. PICK u \in AllThreads : obj.tstate[u] = "Ready" /\ Owner[obj.proc[u]] = Owner[curproc]
    BY <1>2, <1>3, EmptyFacts
  <2>2. OnOwner(obj, Owner[curproc]) # {}
    BY <2>1 DEF OnOwner, ReadySet
  <2>3. QED
    BY <1>1, <1>3, <2>2, NextReadyFacts
<1>5. TakenNext(obj, y, curproc, t) /\ ProcsKept(obj, y) /\ y.proc = obj.proc
  <2>1. /\ TakenNext(obj, GetReady(obj, curproc), curproc, t) /\ GetReady(obj, curproc).proc = obj.proc
        /\ LET x == SetProc(GetReady(obj, curproc), t, curproc)
           IN  TakenNext(obj, x, curproc, t) /\ x.proc = [obj.proc EXCEPT ![t] = curproc]
    BY ONLY <1>1, <1>3, <1>4, TakeNext
  <2>2. ProcsKept(obj, GetReady(obj, curproc))
    BY ONLY <1>1, <1>3, <1>4, TakeNextKept
  <2>3. QED
    BY ONLY <1>1, <2>1, <2>2
<1>6. /\ Good(y) /\ t \in AllThreads /\ obj.tstate[t] = "Ready" /\ y.tstate = [obj.tstate EXCEPT ![t] = "Run"]
      /\ y.pstate = obj.pstate
  BY <1>5 DEF TakenNext
<1>7. t # MAIN /\ MAIN \in AllThreads /\ y.tstate[MAIN] = "Run"
  BY <1>3, <1>6, ThreadFacts
<1>8. ProcsKept(y, z)
  BY <1>1, <1>6, SetProcKept
<1>9. /\ Good(z) /\ z.proc = [y.proc EXCEPT ![MAIN] = curproc] /\ z.tstate = y.tstate /\ z.pstate = y.pstate
  <2>1. MAIN \notin ReadySet(y)
    BY <1>7 DEF ReadySet
  <2>2. \A p \in Procs : (MAIN \in ReadySet(y) => Owner[p] = Owner[y.proc[MAIN]]) =>
            LET w == SetProc(y, MAIN, p)
            IN  /\ Good(w) /\ w.proc = [y.proc EXCEPT ![MAIN] = p]
                /\ w.tstate = y.tstate /\ w.prio = y.prio /\ w.pstate = y.pstate /\ w.bt = y.bt
    BY ONLY <1>6, <1>7, FieldsGood
  <2>3. QED
    BY <1>1, <1>3, <2>1, <2>2
<1>10. z.proc[MAIN] = curproc /\ z.pstate[curproc] = "Running" /\ z.tstate[MAIN] # "Busy"
  <2>1. y.proc \in [AllThreads -> ProcPtr]
    BY ONLY <1>6, FieldTypes
  <2>2. QED
    BY <1>3, <1>6, <1>7, <1>9, <2>1
<1>11. ProcsKept(z, obj') /\ \A u \in AllThreads \ {MAIN} : obj'.tstate[u] = z.tstate[u]
  <2>1. Good(z) /\ MAIN \in AllThreads /\ z.proc[MAIN] \in Procs /\ z.pstate[z.proc[MAIN]] = "Running"
        /\ z.tstate[MAIN] # "Busy"
    BY <1>3, <1>7, <1>9, <1>10
  <2>2. /\ ProcsKept(z, SwitchReady(z, MAIN))
        /\ \A u \in AllThreads \ {MAIN} : SwitchReady(z, MAIN).tstate[u] = z.tstate[u]
    BY ONLY <2>1, RequeueKept
  <2>3. QED
    BY <1>2, <1>4, <2>2
<1>12. ProcsKept(obj, obj')
  BY <1>5, <1>8, <1>11, KeptTrans
<1>13. NoneWoken
  BY <1>3, <1>6, <1>9, <1>11 DEF NoneWoken
<1>14. Turn /\ Simple
  BY <1>2, <1>4, <1>7 DEF Turn, Simple, Resume, Called, UserPhases
<1>15. QED
  BY <1>12, <1>13, <1>14, KeptQI

(* Between two turns nobody is within a pSpawn.                            *)
LEMMA NoSpawners ==
  ASSUME KI, QI, phase \in {"newproc", "time", "expire"}
  PROVE  /\ \A t \in Threads : ~Spawning(t)
         /\ \A p \in Queued : ~Empty(obj, p) /\ p \in Procs
         /\ Good(obj) /\ MemOK(obj.mem)
         /\ cur \notin Threads /\ ~shutdown /\ phase \in MainPhases
<1>1. /\ phase \in MainPhases /\ Good(obj) /\ MemOK(obj.mem) /\ cur \notin Threads /\ ~shutdown
  BY MainFacts DEF MainPhases
<1>2. \A t \in Threads : ~Spawning(t)
  <2>1. SUFFICES ASSUME NEW t \in Threads, Spawning(t) PROVE FALSE
    OBVIOUS
  <2>2. obj.tstate[t] = "Ready" /\ obj.proc[t] = curproc /\ t \in AllThreads
    BY <2>1, ThreadFacts DEF QI, Spawners, Spawner
  <2>3. obj.pstate[curproc] = "Running" /\ curproc \in Procs
    BY <1>1, <2>2, FieldTypes DEF QI, ReadyScheduled
  <2>4. QED
    BY <2>3, ProcAssumption DEF QI, ProcTurn
<1>4. ASSUME NEW p \in Queued PROVE ~Empty(obj, p) /\ p \in Procs
  <2>1. p \in Procs /\ Wanted(p)
    BY DEF QI, QueuedWanted, Queued
  <2>2. PICK t \in AllThreads : obj.tstate[t] = "Ready" /\ obj.proc[t] = p
    BY <1>2, <2>1 DEF Wanted, Spawning, InSpawn
  <2>3. QED
    BY <1>1, <2>1, <2>2, EmptyFacts
<1>5. QED
  BY <1>1, <1>2, <1>4

(* A step of the scheduler that moves no thread.                           *)
Unmoved ==
  /\ phase \in MainPhases /\ frame' = frame
  /\ obj'.tstate = obj.tstate /\ obj'.proc = obj.proc
  /\ \A q \in Procs : obj'.pstate[q] # "None" <=> obj.pstate[q] # "None"
  /\ \A t \in AllThreads : obj.tstate[t] = "Ready" => obj'.pstate[obj.proc[t]] = "Running"

LEMMA UnmovedQI ==
  ASSUME KI, QI, Effect, Held, "kill" \notin Ops, Unmoved
  PROVE  /\ Unshared' /\ ReadyScheduled' /\ ListedAlive'
         /\ \A p : Wanted(p) => Wanted(p)'
         /\ (\A t \in Threads : ~Spawning(t)) => Spawners'
<1>1. Unshared' /\ ReadyScheduled'
  BY DEF QI, Unshared, ReadyScheduled, Unmoved
<1>2. ListedAlive'
  BY EffectFates, ListedNext DEF Unmoved
<1>3. \A p : Wanted(p) => Wanted(p)'
  BY DEF Unmoved, Wanted
<1>4. (\A t \in Threads : ~Spawning(t)) => Spawners'
  BY DEF Unmoved, Spawners, Spawning
<1>5. QED
  BY <1>1, <1>2, <1>3, <1>4

LEMMA SchedulerExitQI ==
  ASSUME KI, QI, Effect, Held, "kill" \notin Ops, SchedulerExit
  PROVE  QI'
<1>1. /\ phase = "sched" /\ shutdown /\ phase' = "exit" /\ shutdown' = shutdown
      /\ obj' = obj /\ curproc' = curproc /\ frame' = frame
  BY DEF SchedulerExit, Quiet
<1>2. Unmoved
  BY <1>1 DEF Unmoved, MainPhases, QI, ReadyScheduled
<1>3. /\ Unshared' /\ ReadyScheduled' /\ ListedAlive' /\ (\A p : Wanted(p) => Wanted(p)')
  BY <1>2, UnmovedQI
<1>4. Spawners'
  BY <1>1 DEF QI, Spawners, Spawner, Spawning
<1>5. Queued' = Queued
  BY <1>1, <1>3 DEF Queued
<1> HIDE DEF Queued
<1>6. QueueOK' /\ QueuedWanted'
  BY <1>1, <1>3, <1>5 DEF QI, QueueOK, QueuedWanted
<1>7. ProcTurn'
  BY <1>1 DEF ProcTurn
<1>8. QED
  BY <1>3, <1>4, <1>6, <1>7 DEF QI

LEMMA UpdateProcQI ==
  ASSUME KI, QI, Effect, Held, "kill" \notin Ops, UpdateProc
  PROVE  QI'
<1>1. /\ phase = "sched" /\ phase \in UserPhases \cup {"sched"} /\ phase \in MainPhases
      /\ Empty(obj, curproc) /\ phase' = "newproc"
      /\ obj' = [obj EXCEPT !.pstate[curproc] = "Waiting"] /\ curproc' = curproc /\ frame' = frame
  BY DEF UpdateProc, Quiet, MainPhases
<1>2. /\ curproc \in Procs /\ obj.pstate[curproc] = "Running" /\ Good(obj)
      /\ obj.pstate \in [Procs -> {"None", "Waiting", "Running", "Busy"}]
  BY <1>1, TurnFacts, FieldTypes DEF KI
<1>3. \A t \in AllThreads : obj.tstate[t] = "Ready" => obj.proc[t] \in Procs /\ obj.proc[t] # curproc
  BY <1>1, <1>2, EmptyFacts, FieldTypes
<1>4. /\ obj'.tstate = obj.tstate /\ obj'.proc = obj.proc /\ obj'.mem = obj.mem /\ obj'.bad = obj.bad
      /\ obj'.pstate = [obj.pstate EXCEPT ![curproc] = "Waiting"]
  BY <1>1, <1>2 DEF Good, ObjOK
<1>5. \A q \in Procs : obj'.pstate[q] = IF q = curproc THEN "Waiting" ELSE obj.pstate[q]
  BY <1>2, <1>4
<1>6. Unmoved
  <2>1. \A q \in Procs : obj'.pstate[q] # "None" <=> obj.pstate[q] # "None"
    BY <1>2, <1>5
  <2>2. \A t \in AllThreads : obj.tstate[t] = "Ready" => obj'.pstate[obj.proc[t]] = "Running"
    BY <1>3, <1>5 DEF QI, ReadyScheduled
  <2>3. QED
    BY <1>1, <1>4, <2>1, <2>2 DEF Unmoved
<1>7. \A t \in Threads : ~Spawning(t)
  BY <1>1, <1>3, ThreadFacts DEF QI, Spawners, Spawner
<1>8. /\ Unshared' /\ ReadyScheduled' /\ ListedAlive' /\ (\A p : Wanted(p) => Wanted(p)')
      /\ Spawners'
  BY <1>6, <1>7, UnmovedQI
<1>9. Queued' = Queued
  BY <1>1, <1>5, <1>8 DEF Queued
<1> HIDE DEF Queued
<1>10. QueueOK' /\ QueuedWanted'
  BY <1>4, <1>8, <1>9 DEF QI, QueueOK, QueuedWanted
<1>11. ProcTurn'
  BY <1>1, <1>2, <1>5 DEF ProcTurn
<1>12. QED
  BY <1>8, <1>10, <1>11 DEF QI

(* The first processor of the queue becomes current, or the queue is empty *)
(* and there is none.                                                      *)
Picked ==
  LET h == obj.mem.head[ProcQ]
  IN  /\ phase \in {"newproc", "expire"} /\ frame' = frame /\ curproc' = h
      /\ obj'.tstate = obj.tstate /\ obj'.proc = obj.proc /\ obj'.pstate = obj.pstate /\ obj'.bad = obj.bad
      /\ IF h = NULL THEN obj'.mem = obj.mem /\ phase' = "time"
         ELSE obj'.mem = Get(obj.mem, ProcQ) /\ phase' = "sched"

LEMMA PickedQI ==
  ASSUME KI, QI, Effect, Held, "kill" \notin Ops, Picked
  PROVE  QI'
<1>1. PICK h : h = obj.mem.head[ProcQ]
  OBVIOUS
<1>2. /\ phase \in {"newproc", "expire"} /\ phase \in {"newproc", "time", "expire"}
      /\ frame' = frame /\ curproc' = h
      /\ obj'.tstate = obj.tstate /\ obj'.proc = obj.proc /\ obj'.pstate = obj.pstate /\ obj'.bad = obj.bad
      /\ h = NULL => obj'.mem = obj.mem /\ phase' = "time"
      /\ h # NULL => obj'.mem = Get(obj.mem, ProcQ) /\ phase' = "sched"
  BY <1>1 DEF Picked
<1>3. /\ \A t \in Threads : ~Spawning(t)
      /\ MemOK(obj.mem) /\ phase \in MainPhases
  BY <1>2, NoSpawners
<1>4. Unmoved
  BY <1>2, <1>3 DEF Unmoved, QI, ReadyScheduled
<1>5. /\ Unshared' /\ ReadyScheduled' /\ ListedAlive' /\ (\A p : Wanted(p) => Wanted(p)')
      /\ Spawners'
  BY <1>3, <1>4, UnmovedQI
<1>6. Queued = {p \in Procs : obj.pstate[p] = "Running"}
  BY <1>2, <1>3, ProcAssumption DEF Queued, QI, ProcTurn
<1>7. Queued' = {p \in Procs : obj.pstate[p] = "Running" /\ p # h}
  BY <1>2, <1>3, <1>5 DEF Queued
<1>8. ~obj.bad /\ ProcsQueued(obj.mem, Queued)
  BY DEF QI, QueueOK
<1>9. h = NULL <=> Queued = {}
  BY <1>1, <1>3, <1>8, ProcsContents
<1>10. CASE h = NULL
  <2>1. Queued' = Queued /\ Queued = {}
    BY <1>6, <1>7, <1>9, <1>10, ProcAssumption
  <2> HIDE DEF Queued
  <2>2. QueueOK' /\ QueuedWanted'
    BY <1>2, <1>8, <1>10, <2>1 DEF QueueOK, QueuedWanted
  <2>3. ProcTurn'
    BY <1>2, <1>10, <2>1 DEF ProcTurn
  <2>4. QED
    BY <1>5, <2>2, <2>3 DEF QI
<1>11. CASE h # NULL
  <2>1. Queued # {}
    BY <1>9, <1>11
  <2>2. h \in Queued /\ ProcsQueued(Get(obj.mem, ProcQ), Queued \ {h})
    BY <1>1, <1>3, <1>8, <2>1, UnqueueProc
  <2>3. Queued' = Queued \ {h} /\ obj.pstate[h] = "Running"
    BY <1>6, <1>7, <2>2
  <2> HIDE DEF Queued
  <2>4. QueueOK'
    BY <1>2, <1>8, <1>11, <2>2, <2>3 DEF QueueOK
  <2>5. QueuedWanted'
    BY <1>5, <2>3 DEF QueuedWanted, QI
  <2>6. ProcTurn'
    BY <1>2, <1>11, <2>3 DEF ProcTurn
  <2>7. QED
    BY <1>5, <2>4, <2>5, <2>6 DEF QI
<1>12. QED
  BY <1>10, <1>11

LEMMA GetNewProcQI ==
  ASSUME KI, QI, Effect, Held, "kill" \notin Ops, GetNewProc
  PROVE  QI'
<1>1. PICK h : h = obj.mem.head[ProcQ]
  OBVIOUS
<1>2. /\ phase = "newproc" /\ curproc' = FirstNonEmpty(obj) /\ obj' = GetNonEmpty(obj) /\ frame' = frame
      /\ phase' = IF curproc' = NULL THEN "time" ELSE Found
  BY DEF GetNewProc, Quiet
<1>3. /\ (\A p \in Queued : ~Empty(obj, p)) /\ Good(obj) /\ MemOK(obj.mem) /\ cur \notin Threads
  BY <1>2, NoSpawners
<1>4. ProcsQueued(obj.mem, Queued)
  BY DEF QI, QueueOK
<1>5. FirstNonEmpty(obj) = h
  BY <1>1, <1>3, <1>4, FirstIsHead
<1>6. h = NULL <=> Queued = {}
  BY <1>1, <1>3, <1>4, ProcsContents
<1>7. CASE h = NULL
  <2>1. obj' = obj /\ curproc' = NULL /\ phase' = "time"
    BY <1>2, <1>5, <1>7 DEF GetNonEmpty
  <2>2. Picked
    BY <1>1, <1>2, <1>7, <2>1 DEF Picked
  <2>3. QED
    BY <2>2, PickedQI
<1>8. CASE h # NULL
  <2>1. PICK a : a = Get(obj.mem, ProcQ)
    OBVIOUS
  <2>2. Remove(obj.mem, ProcQ, h) = a
    BY <1>1, <1>3, <1>4, <1>6, <1>8, <2>1, UnqueueProc
  <2>3. obj' = [obj EXCEPT !.mem = a] /\ phase' = "sched" /\ curproc' = h
    BY <1>2, <1>3, <1>5, <1>8, <2>2 DEF GetNonEmpty, Found
  <2>4. /\ obj'.mem = a /\ obj'.tstate = obj.tstate /\ obj'.proc = obj.proc /\ obj'.pstate = obj.pstate
        /\ obj'.bad = obj.bad
    BY <1>3, <2>3 DEF Good, ObjOK
  <2>5. Picked
    BY <1>1, <1>2, <1>8, <2>1, <2>3, <2>4 DEF Picked
  <2>6. QED
    BY <2>5, PickedQI
<1>9. QED
  BY <1>7, <1>8

LEMMA PickProcQI ==
  ASSUME KI, QI, Effect, Held, "kill" \notin Ops, PickProc
  PROVE  QI'
<1>1. PICK h, a, s : h = obj.mem.head[ProcQ] /\ a = Get(obj.mem, ProcQ) /\ s = [obj EXCEPT !.mem = a]
  OBVIOUS
<1>2. /\ phase = "expire" /\ frame' = frame
      /\ IF h # NULL /\ ~Empty(obj, h)
         THEN obj' = s /\ curproc' = h /\ phase' = Found
         ELSE /\ obj' = IF h = NULL THEN s ELSE [s EXCEPT !.pstate[h] = "Waiting"]
              /\ curproc' = NULL /\ phase' = "time"
  BY <1>1 DEF PickProc, Quiet
<1>3. /\ (\A p \in Queued : ~Empty(obj, p)) /\ Good(obj) /\ MemOK(obj.mem) /\ cur \notin Threads
  BY <1>2, NoSpawners
<1>4. ProcsQueued(obj.mem, Queued)
  BY DEF QI, QueueOK
<1>5. h = NULL <=> Queued = {}
  BY <1>1, <1>3, <1>4, ProcsContents
<1>6. h # NULL => h \in Queued
  BY <1>1, <1>3, <1>4, <1>5, UnqueueProc
<1>7. /\ s.mem = a /\ s.tstate = obj.tstate /\ s.proc = obj.proc /\ s.pstate = obj.pstate
      /\ s.bad = obj.bad
  BY <1>1, <1>3 DEF Good, ObjOK
<1>8. obj' = s /\ curproc' = h /\ phase' = IF h = NULL THEN "time" ELSE "sched"
  BY <1>2, <1>3, <1>6 DEF Found
<1>9. h = NULL => a = obj.mem
  BY <1>1 DEF Get
<1>10. Picked
  BY <1>1, <1>2, <1>7, <1>8, <1>9 DEF Picked
<1>11. QED
  BY <1>10, PickedQI

LEMMA AdvanceTimeQI ==
  ASSUME KI, QI, Effect, Held, "kill" \notin Ops, AdvanceTime
  PROVE  QI'
<1>1. /\ phase = "time" /\ phase \in {"newproc", "time", "expire"} /\ obj' = obj /\ curproc' = curproc
      /\ frame' = frame /\ delayq' = delayq
      /\ IF TopEnds = {} THEN phase' = NoneLeft ELSE phase' = "expire"
  BY DEF AdvanceTime, Quiet
<1>2. /\ \A t \in Threads : ~Spawning(t)
      /\ phase \in MainPhases /\ cur \notin Threads
  BY <1>1, NoSpawners
<1>3. curproc = NULL /\ Queued = {}
  BY <1>1 DEF QI, ProcTurn
<1>4. Unmoved
  BY <1>1, <1>2 DEF Unmoved, QI, ReadyScheduled
<1>5. /\ Unshared' /\ ReadyScheduled' /\ ListedAlive' /\ (\A p : Wanted(p) => Wanted(p)')
      /\ Spawners'
  BY <1>2, <1>4, UnmovedQI
<1>6. Queued' = Queued
  BY <1>1, <1>5 DEF Queued
<1>7. TopEnds = {} => delayq = <<>>
  BY DEF TopEnds
<1>8. phase' \in {"exit", "expire"} /\ (phase' = "exit" => delayq = <<>>)
  BY <1>1, <1>2, <1>7 DEF NoneLeft
<1> HIDE DEF Queued
<1>9. QueueOK' /\ QueuedWanted'
  BY <1>1, <1>3, <1>6 DEF QI, QueueOK, QueuedWanted
<1>10. ProcTurn'
  BY <1>1, <1>3, <1>6, <1>8 DEF ProcTurn
<1>11. QED
  BY <1>5, <1>9, <1>10 DEF QI

LEMMA ExpireDelayQI ==
  ASSUME KI, QI, Effect, Held, "kill" \notin Ops, ExpireDelay
  PROVE  QI'
<1>1. PICK n, p : n = HeapTop(delayq) /\ p = obj.proc[n]
  OBVIOUS
<1>2. /\ phase = "expire" /\ phase \in MainPhases /\ delayq # <<>> /\ phase' = phase
      /\ phase \in {"newproc", "time", "expire"}
      /\ obj' = AddThreadToProc(obj, n, now) /\ curproc' = curproc /\ frame' = frame
  BY <1>1 DEF ExpireDelay, DelayDue, Quiet, clusterVars, MainPhases
<1>3. /\ Good(obj) /\ IdleProcs /\ delayq \in Seq(Threads) /\ Delayed
      /\ obj.tstate \in [AllThreads -> {"None", "Run", "Ready", "Busy", "Done"}]
      /\ obj.pstate \in [Procs -> {"None", "Waiting", "Running", "Busy"}]
  BY <1>2, MainFacts, FieldTypes DEF KI, Lists
<1>4. n \in Threads /\ n = delayq[1] /\ 1 \in 1..Len(delayq) /\ Len(delayq) \in Nat
  BY <1>1, <1>2, <1>3 DEF HeapTop
<1>5. obj.tstate[n] = "Run" /\ n \in AllThreads
  <2>1. Blocked(n, "delay") /\ n \in Elems(delayq)
    BY <1>3, <1>4 DEF Delayed, Elems
  <2>2. QED
    BY <1>4, <2>1, ThreadFacts DEF QI, ListedAlive, InList, Blocked
<1>6. p \in Procs /\ obj.pstate[p] # "Busy" /\ obj.pstate[p] # "None"
  BY <1>1, <1>3, <1>4, <1>5 DEF KI, Turns, Untimed, IdleProcs, QI, Unshared
<1>7. obj' = SwitchReady(obj, n)
  BY <1>1, <1>2, <1>6 DEF AddThreadToProc, SwitchReady
<1>8. Rescheduled(obj, obj', p)
  BY <1>1, <1>3, <1>5, <1>6, <1>7, SwitchReadyQueue
<1>9. Readied(obj, obj', n)
  BY <1>1, <1>3, <1>5, <1>6, <1>7, SwitchReadyGood
<1>10. /\ obj'.proc = obj.proc /\ obj'.tstate[n] = "Ready"
       /\ \A u \in AllThreads \ {n} : obj'.tstate[u] = obj.tstate[u]
  BY <1>3, <1>5, <1>9 DEF Readied
<1>11. \A q \in Procs : obj'.pstate[q] = IF q = p THEN "Running" ELSE obj.pstate[q]
  BY <1>3, <1>6, <1>8 DEF Rescheduled
<1>12. Keeping /\ \A u \in AllThreads : Settled(u)
  BY <1>1, <1>5, <1>6, <1>10, <1>11 DEF Keeping, Settled, Woken
<1>13. (\A t \in Threads : ~Spawning(t)) /\ curproc = NULL /\ curproc \notin Procs
  BY <1>2, NoSpawners, ProcAssumption DEF QI, ProcTurn
<1>14. Spawners' /\ CreatesKept
  BY <1>2, <1>13 DEF Spawners, Spawning, CreatesKept
<1>15. QueueOK' /\ Queued' = IF obj.pstate[p] = "Running" THEN Queued ELSE Queued \cup {p}
  BY <1>2, <1>6, <1>8, <1>13, <1>14, QueueNext
<1>16. Unshared'
  BY <1>6, <1>11, <1>12, <1>13, UnsharedNext
<1>17. ReadyScheduled'
  BY <1>12, ReadyNext
<1> HIDE DEF Queued
<1>18. QueuedWanted'
  <2>1. \A q \in Queued : Wanted(q)'
    BY <1>12, <1>14, WantedNext
  <2>2. Wanted(p)'
    BY <1>1, <1>5, <1>10 DEF Wanted
  <2>3. \A q \in Queued' : Wanted(q)'
    BY <1>15, <2>1, <2>2
  <2>4. QED
    BY <2>3 DEF QueuedWanted
<1>19. ProcTurn'
  BY <1>2, <1>13 DEF ProcTurn
<1>20. ListedAlive'
  BY <1>2, EffectFates, ListedNext
<1>21. QED
  BY <1>14, <1>15, <1>16, <1>17, <1>18, <1>19, <1>20 DEF QI

-----------------------------------------------------------------------------
(* The other calls.                                                        *)

LEMMA ReapQI ==
  ASSUME KI, QI, Effect, Held, "kill" \notin Ops, Reap
  PROVE  QI'
<1>1. PICK w, n : w = waiters[cur] /\ n = w[Len(w)]
  OBVIOUS
<1>2. /\ phase = "reap" /\ phase \in UserPhases /\ w # <<>> /\ obj' = SwitchReady(obj, n)
      /\ phase' = phase /\ frame' = frame
  BY <1>1 DEF Reap, SwitchReady, UserPhases, clusterVars
<1>3. cur \in Threads /\ Waiting /\ waiters \in [Threads -> Seq(Threads)]
  BY <1>2, UserFacts DEF KI, Lists, Rest
<1>4. w \in Seq(Threads) /\ Len(w) \in 1..Len(w) /\ n \in Threads
  BY <1>1, <1>2, <1>3
<1>5. Blocked(n, "wait") /\ n \in Elems(waiters[cur])
  BY <1>1, <1>3, <1>4 DEF Waiting, Elems
<1>6. obj.tstate[n] = "Run"
  BY <1>3, <1>4, <1>5 DEF QI, ListedAlive, InList, Blocked
<1>7. QED
  BY <1>2, <1>4, <1>6, WakeQI

LEMMA WokenQI ==
  ASSUME KI, QI, Effect, Held, "kill" \notin Ops, "wakedone" \notin Ops, "readyrace" \notin Ops,
         NEW t \in Threads, Wake(t) \/ AddReadyCall(t)
  PROVE  QI'
<1>1. /\ phase \in UserPhases /\ phase' = phase /\ frame' = frame /\ obj.tstate[t] \in {"Ready", "Run"}
  BY DEF Wake, AddReadyCall, MayMake, Calls, MayWake, UserPhases, clusterVars
<1>2. obj.proc[t] \in Procs /\ obj.pstate[obj.proc[t]] # "Busy"
  BY <1>1, UserFacts
<1>3. obj' = SwitchReady(obj, t)
  <2>1. CASE Wake(t)
    BY <1>2, <2>1 DEF Wake, AddThreadToProc, SwitchReady
  <2>2. CASE AddReadyCall(t)
    BY <2>2 DEF AddReadyCall, MayMake, SwitchReady
  <2>3. QED
    BY <2>1, <2>2
<1>4. QED
  BY <1>1, <1>3, WakeQI

(* A thread blocks and nothing else about it changes that matters here.    *)
LEMMA SleepQI ==
  ASSUME KI, QI, Effect, Held, "kill" \notin Ops, phase \in UserPhases,
         NEW lk, NEW fr, ExecBlock(obj, lk, fr)
  PROVE  QI'
<1>1. Good(obj) /\ obj.tstate[MAIN] = "Ready" /\ ProcsKept(obj, obj)
  BY UserFacts, KeptSame DEF KI, ProcsKept
<1>2. QED
  BY <1>1, BlockQI

LEMMA WaitQI ==
  ASSUME KI, QI, Effect, Held, "kill" \notin Ops, NEW t \in Threads, Wait(t)
  PROVE  QI'
<1>1. phase \in UserPhases
  BY DEF Wait, Calls, UserPhases
<1>2. CASE obj.tstate[t] = "Done"
  <2>1. obj' = obj /\ frame' = frame /\ phase' = phase
    BY <1>2 DEF Wait
  <2>2. QED
    BY <1>1, <2>1, StillQI
<1>3. CASE obj.tstate[t] # "Done"
  BY <1>1, <1>3, SleepQI DEF Wait
<1>4. QED
  BY <1>2, <1>3

LEMMA DelayQI ==
  ASSUME KI, QI, Effect, Held, "kill" \notin Ops, NEW d \in Delays, Delay(d)
  PROVE  QI'
<1>1. PICK s, fr : /\ s = Timed(obj, cur, d)
                   /\ fr = [frame EXCEPT ![cur].at = "delay", ![cur].due = now + d]
  OBVIOUS
<1>2. phase \in UserPhases /\ now + d <= MaxTime /\ ExecBlock(s, TRUE, fr)
  BY <1>1 DEF Delay, Calls, UserPhases
<1>3. cur \in AllThreads /\ Good(obj) /\ now \in Times /\ obj.tstate[MAIN] = "Ready"
  BY <1>2, UserFacts DEF KI, Rest
<1>4. d \in Times
  BY <1>2, <1>3, KernelAssumption, ProcAssumption DEF Times
<1>5. Good(s) /\ s.tstate = obj.tstate /\ s.proc = obj.proc /\ s.pstate = obj.pstate
  <2>1. \A a, b \in Times :
          LET z == [obj EXCEPT !.time[cur] = a, !.start[cur] = b]
          IN  /\ Good(z) /\ z.tstate = obj.tstate
              /\ z.prio = obj.prio /\ z.proc = obj.proc /\ z.pstate = obj.pstate /\ z.bt = obj.bt
    BY ONLY <1>3, FieldsGood
  <2>2. QED
    BY <1>1, <1>3, <1>4, <2>1 DEF Timed
<1>6. s.mem = obj.mem /\ s.bad = obj.bad
  BY <1>1, <1>3 DEF Timed, Good, ObjOK
<1>7. ProcsKept(obj, s) /\ s.tstate[MAIN] = "Ready"
  BY <1>3, <1>5, <1>6, KeptSame DEF ProcsKept
<1>8. QED
  BY <1>2, <1>5, <1>7, BlockQI

LEMMA SetPriorityQI ==
  ASSUME KI, QI, Effect, Held, "kill" \notin Ops, NEW u \in Prios, SetPriority(u)
  PROVE  QI'
<1>1. PICK pr, s, w : pr = ConvertPriority(u) /\ s = [obj EXCEPT !.prio[cur] = pr]
                       /\ w = AddReady(s, curproc, cur)
  OBVIOUS
<1>2. /\ phase \in UserPhases
      /\ \/ ExecBlock(w, TRUE, frame)
         \/ obj' = s /\ UNCHANGED <<cur, phase, frame>>
  BY <1>1 DEF SetPriority, Calls, UserPhases
<1>3. pr \in Prios
  BY <1>1, ProcAssumption DEF ConvertPriority, Prios
<1>4. /\ cur \in AllThreads /\ cur # MAIN /\ curproc \in Procs /\ obj.tstate[cur] = "Run"
      /\ obj.proc[cur] \in Procs /\ Owner[obj.proc[cur]] = Owner[curproc]
      /\ obj.tstate[MAIN] = "Ready" /\ Good(obj)
      /\ obj.tstate \in [AllThreads -> {"None", "Run", "Ready", "Busy", "Done"}]
  BY <1>2, UserFacts, FieldTypes DEF KI
<1>5. Good(s) /\ s.tstate = obj.tstate /\ s.proc = obj.proc /\ s.pstate = obj.pstate
  <2>1. cur \notin ReadySet(obj)
    BY <1>4 DEF ReadySet
  <2>2. \A i \in Prios : cur \notin ReadySet(obj) =>
          LET z == [obj EXCEPT !.prio[cur] = i]
          IN  /\ Good(z) /\ z.prio = [obj.prio EXCEPT ![cur] = i]
              /\ z.tstate = obj.tstate /\ z.proc = obj.proc /\ z.pstate = obj.pstate /\ z.bt = obj.bt
    BY ONLY <1>4, FieldsGood
  <2>3. QED
    BY <1>1, <1>3, <2>1, <2>2
<1>6. s.mem = obj.mem /\ s.bad = obj.bad
  BY <1>1, <1>4 DEF Good, ObjOK
<1>7. ProcsKept(obj, s)
  BY <1>5, <1>6, KeptSame DEF ProcsKept
<1>8. CASE obj' = s /\ UNCHANGED <<cur, phase, frame>>
  <2>1. NoneWoken
    BY <1>5, <1>8 DEF NoneWoken
  <2>2. QED
    BY <1>2, <1>7, <1>8, <2>1, KeptQI DEF Turn, Simple
<1>9. CASE ExecBlock(w, TRUE, frame)
  <2>1. /\ s.proc[cur] \in Procs /\ Owner[s.proc[cur]] = Owner[curproc] /\ s.tstate[cur] = "Run"
    BY <1>4, <1>5
  <2>2. Good(w) /\ w.tstate = [obj.tstate EXCEPT ![cur] = "Ready"] /\ w.proc = obj.proc
    <3>1. LET z == AddReady(s, curproc, cur)
          IN  /\ Good(z) /\ SameProcs(s.mem, z.mem)
              /\ z.tstate = IF s.tstate[cur] \in {"Run", "Busy"} THEN [s.tstate EXCEPT ![cur] = "Ready"]
                            ELSE s.tstate
              /\ z.prio = s.prio /\ z.proc = s.proc /\ z.time = s.time /\ z.start = s.start
              /\ z.pstate = s.pstate /\ z.bt = s.bt /\ z.bad = s.bad
      BY ONLY <1>4, <1>5, <2>1, AddReadyGood
    <3>2. QED
      BY <1>1, <1>5, <2>1, <3>1
  <2>3. ProcsKept(s, w)
    BY ONLY <1>1, <1>4, <1>5, <2>1, AddReadyKept
  <2>4. ProcsKept(obj, w)
    BY ONLY <1>7, <2>3, KeptTrans
  <2>5. w.tstate[MAIN] = "Ready" /\ \A v \in AllThreads \ {cur} : w.tstate[v] = obj.tstate[v]
    BY <1>4, <2>2, ThreadFacts
  <2>6. QED
    BY <1>2, <1>9, <2>2, <2>4, <2>5, BlockQI
<1>10. QED
  BY <1>2, <1>8, <1>9

-----------------------------------------------------------------------------
(* The whole.                                                              *)

LEMMA InitQI ==
  ASSUME Init
  PROVE  QI
<1>1. /\ obj = AddReady(Blank, Root, Start)
      /\ waiters = [t \in Threads |-> <<>>] /\ delayq = <<>>
      /\ curproc = Root /\ phase = "sched" /\ frame = [t \in Threads |-> Idle]
  BY DEF Init, Blank, Node, AnyQ
<1>2. /\ Root \in Procs /\ Owner[Root] = Root /\ Start \in AllThreads /\ NULL \notin Procs
  BY KernelAssumption, ThreadFacts, ProcAssumption
<1>3. /\ Blank.tstate = [t \in AllThreads |-> IF t \in {MAIN, Start} THEN "Run" ELSE "None"]
      /\ Blank.proc = [t \in AllThreads |-> IF t = Start THEN Root ELSE NULL]
      /\ Blank.pstate = [p \in Procs |-> IF p = Root THEN "Running"
                                         ELSE IF Owner[p] = p THEN "Waiting" ELSE "None"]
      /\ Blank.mem = [next |-> [x \in Node |-> NULL], prev |-> [x \in Node |-> NULL],
                      head |-> [q \in AnyQ |-> NULL], tail |-> [q \in AnyQ |-> NULL]]
      /\ Blank.bad = FALSE
  BY DEF Blank
<1>4. Blank.proc[Start] \in Procs /\ Owner[Blank.proc[Start]] = Owner[Root]
  BY <1>2, <1>3
<1>5. /\ obj.tstate \in {Blank.tstate, [Blank.tstate EXCEPT ![Start] = "Ready"]}
      /\ obj.proc = Blank.proc
  <2>1. LET z == AddReady(Blank, Root, Start)
        IN  /\ Good(z) /\ SameProcs(Blank.mem, z.mem)
            /\ z.tstate = IF Blank.tstate[Start] \in {"Run", "Busy"}
                          THEN [Blank.tstate EXCEPT ![Start] = "Ready"] ELSE Blank.tstate
            /\ z.prio = Blank.prio /\ z.proc = Blank.proc /\ z.time = Blank.time /\ z.start = Blank.start
            /\ z.pstate = Blank.pstate /\ z.bt = Blank.bt /\ z.bad = Blank.bad
    BY ONLY <1>2, <1>4, BlankGood, AddReadyGood
  <2>2. QED
    BY <1>1, <2>1
<1>6. ProcsKept(Blank, obj)
  BY ONLY <1>1, <1>2, <1>4, BlankGood, AddReadyKept
<1>7. obj.pstate = Blank.pstate /\ obj.bad = FALSE
  BY <1>3, <1>6 DEF ProcsKept, QueueKept
<1>8. /\ \A p \in Procs : obj.pstate[p] = "Running" <=> p = Root
      /\ \A p \in Procs : obj.pstate[p] # "None" => Owner[p] = p
      /\ \A t \in AllThreads : obj.proc[t] = IF t = Start THEN Root ELSE NULL
      /\ \A t \in AllThreads : obj.tstate[t] \in {"Run", "None"} \/ (obj.tstate[t] = "Ready" /\ t = Start)
  BY <1>2, <1>3, <1>5, <1>7
<1>9. \A t \in Threads : frame[t].at = "user"
  BY <1>1 DEF Idle
<1>10. Queued = {}
  BY <1>1, <1>8 DEF Queued
<1>11. ProcsQueued(Blank.mem, {})
  <2>1. PICK m : m = Blank.mem
    OBVIOUS
  <2>2. m.head[ProcQ] = NULL /\ m.tail[ProcQ] = NULL /\ \A p \in Procs : Linkable(m, p)
    BY <1>3, <2>1, NodeFacts DEF Linkable
  <2>3. ProcLine(m, {}, [p \in Procs |-> 0], 1)
    BY <2>2 DEF ProcLine, Fresh, Line, Distinct
  <2>4. QED
    BY <2>1, <2>2, <2>3 DEF ProcsQueued
<1>12. QueueOK
  BY <1>6, <1>7, <1>10, <1>11 DEF QueueOK, ProcsKept, QueueKept
<1>13. Unshared /\ ReadyScheduled
  BY <1>2, <1>8 DEF Unshared, ReadyScheduled
<1>14. Spawners
  BY <1>9 DEF Spawners, Spawning, InSpawn, Inserting, InAddReady, InAddProc, InQueueAdd
<1>15. QueuedWanted
  BY <1>10 DEF QueuedWanted
<1>16. ProcTurn
  BY <1>1, <1>2, <1>8 DEF ProcTurn
<1>17. ListedAlive
  BY <1>1 DEF ListedAlive, InList, Elems
<1>18. QED
  BY <1>12, <1>13, <1>14, <1>15, <1>16, <1>17 DEF QI

(* The programs the theorems on the queue of processors are about.  A kill *)
(* or the wake of a thread that is done may leave a processor without      *)
(* threads in the queue, and so may a processor that shares its ready      *)
(* queues; get_non_empty() then removes from the middle of the queue,      *)
(* which may lose one of the others (MCLostProc.cfg).  And a call that     *)
(* changes the queues without locking must not be interrupted by the alarm *)
(* (MCProcRace.cfg, MCReadyRace.cfg).                                      *)
Tame == ~BusyOkay /\ {"kill", "share", "wakedone", "procrace", "readyrace"} \cap Ops = {}

LEMMA NextQI ==
  ASSUME KI, QI, Tame, Next
  PROVE  QI'
<1>1. /\ ~BusyOkay /\ "kill" \notin Ops /\ "share" \notin Ops /\ "wakedone" \notin Ops
      /\ "procrace" \notin Ops /\ "readyrace" \notin Ops
  BY DEF Tame
<1>2. Effect /\ Held
  BY <1>1, NextKI, HeldNext
<1>3. CASE ThreadCalls
  <2>1. ASSUME NEW t \in Threads, NEW pr \in UserPrios, Spawn(t, pr) \/ SpawnOnCreate(t, pr)
        PROVE  QI'
    BY <1>1, <1>2, <2>1, SpawnQI, SpawnOnCreateQI
  <2>2. ASSUME NEW p \in Procs, SpawnOn(p) \/ MakeShared(p) PROVE QI'
    <3>1. ~MakeShared(p)
      BY <1>1 DEF MakeShared, Calls
    <3>2. QED
      BY <1>1, <1>2, <2>2, <3>1, SpawnOnQI
  <2>3. ~InsertStep
    <3>1. SUFFICES ASSUME InsertStep PROVE FALSE
      OBVIOUS
    <3>2. phase = "user" /\ frame[cur].at \in Inserting
      BY <3>1 DEF InsertStep, TestReady, SetReady, CountReady, TestProc, SetRunning, TestLinks, ClearNext,
                  LoadTail, LinkItem, LinkBack, MoveTail, Inside, Inserting, InAddReady, InAddProc, InQueueAdd
    <3>3. frame[cur].at = "create"
      BY <3>2, UserFacts DEF QI, Spawners, Spawner, Spawning, InSpawn, UserPhases
    <3>4. QED
      BY <3>2, <3>3 DEF Inserting, InAddReady, InAddProc, InQueueAdd
  <2>4. ASSUME NEW t \in Threads, Wait(t) \/ Wake(t) \/ AddReadyCall(t) \/ Kill(t) \/ BusyWake(t)
        PROVE  QI'
    <3>1. ~Kill(t) /\ ~BusyWake(t)
      BY <1>1, NeverBusy DEF Kill, Calls
    <3>2. QED
      BY <1>1, <1>2, <2>4, <3>1, WaitQI, WokenQI
  <2>5. CASE Yield
    BY <1>1, <1>2, <2>5, ExecReadyQI DEF Yield, Calls, UserPhases
  <2>6. CASE Sleep
    BY <1>1, <1>2, <2>6, SleepQI DEF Sleep, Calls, UserPhases
  <2>7. CASE Terminate \/ Lock \/ Unlock
    <3>1. phase \in UserPhases /\ obj' = obj /\ frame' = frame /\ frame[cur].at = "user"
      BY <2>7 DEF Terminate, Lock, Unlock, Calls, UserPhases
    <3>2. QED
      BY <1>1, <1>2, <3>1, StillQI
  <2>8. CASE Exit \/ BusyRefused \/ BadPriority
    BY <1>1, <1>2, <2>8, LeaveQI DEF Exit, BusyRefused, BadPriority, Calls, UserPhases
  <2>9. ASSUME NEW u \in Prios, SetPriority(u) PROVE QI'
    BY <1>1, <1>2, <2>9, SetPriorityQI
  <2>10. ASSUME NEW d \in Delays, Delay(d) PROVE QI'
    BY <1>1, <1>2, <2>10, DelayQI
  <2>11. ASSUME NEW d \in Busies, NEW u \in Slices, Busy(d, u) PROVE QI'
    BY <1>1, <2>11, NeverBusy
  <2>12. ASSUME NEW u \in Slices, BusySleep(u) PROVE QI'
    BY <1>1, <2>12, NeverBusy
  <2>13. CASE BusyLoop \/ BusySleepLoop
    BY <1>1, <2>13, NeverBusy
  <2>14. QED
    BY <1>3, <2>1, <2>2, <2>3, <2>4, <2>5, <2>6, <2>7, <2>8, <2>9, <2>10, <2>11, <2>12, <2>13
       DEF ThreadCalls
<1>4. CASE Preempt
  BY <1>1, <1>2, <1>4, ExecReadyQI DEF Preempt, UserPhases
<1>5. CASE KernelStep
  <2>1. CASE Reap \/ SwitchTerm \/ SchedulerExit \/ UpdateProc
    BY <1>1, <1>2, <2>1, ReapQI, SwitchTermQI, SchedulerExitQI, UpdateProcQI
  <2>2. CASE Dispatch \/ GetNewProc \/ AdvanceTime \/ ExpireDelay \/ PickProc
    BY <1>1, <1>2, <2>2, DispatchQI, GetNewProcQI, AdvanceTimeQI, ExpireDelayQI, PickProcQI
  <2>3. QED
    BY <1>1, <1>5, <2>1, <2>2, NeverBusy DEF KernelStep
<1>6. QED
  BY <1>3, <1>4, <1>5 DEF Next

LEMMA StutterQI ==
  ASSUME QI, UNCHANGED vars
  PROVE  QI'
<1>2. Queued' = Queued
  BY DEF vars, Queued
<1>3. Spawners' /\ Unshared' /\ ReadyScheduled'
  BY DEF QI, vars, Spawners, Spawner, Spawning, Unshared, ReadyScheduled
<1>4. ListedAlive'
  BY DEF QI, vars, ListedAlive, InList
<1>5. \A p : Wanted(p)' <=> Wanted(p)
  BY DEF vars, Wanted
<1> HIDE DEF Queued
<1>6. QueueOK' /\ QueuedWanted' /\ ProcTurn'
  BY <1>2, <1>5 DEF QI, vars, QueueOK, QueuedWanted, ProcTurn
<1>7. QED
  BY <1>3, <1>4, <1>6 DEF QI

LEMMA QueueInv == ASSUME Tame PROVE Spec => [](KI /\ QI)
<1>1. ~BusyOkay /\ "readyrace" \notin Ops
  BY DEF Tame
<1>2. Init => QI
  BY InitQI
<1>3. KI /\ QI /\ [Next]_vars => QI'
  BY NextQI, StutterQI
<1>4. QED
  BY <1>1, <1>2, <1>3, KernelInv, PTL DEF Spec

-----------------------------------------------------------------------------
(* What follows for the processors.                                        *)

LEMMA QueueFacts ==
  ASSUME KI, QI
  PROVE  /\ WellFormed(ProcQ)
         /\ \A p \in Procs : InProcQ(p) <=> p \in Queued
<1>1. ProcsQueued(obj.mem, Queued) /\ MemOK(obj.mem)
  BY DEF QI, QueueOK, KI, Good, ObjOK
<1>2. PICK m, M : m = obj.mem /\ M = Queued
  OBVIOUS
<1>3. /\ Contents(m, ProcQ) = M /\ Acyclic(m, ProcQ)
      /\ m.tail[ProcQ] = IF Length(m, ProcQ) = 0 THEN NULL ELSE Item(m, ProcQ, Length(m, ProcQ) - 1)
  BY ONLY <1>1, <1>2, ProcsContents
<1>4. WellFormed(ProcQ) /\ \A p \in Procs : InProcQ(p) <=> p \in Queued
  BY ONLY <1>2, <1>3 DEF WellFormed, InProcQ
<1>5. QED
  BY <1>4

LEMMA RunningScheduled ==
  ASSUME KI, QI
  PROVE  RunningIffScheduled
  BY QueueFacts DEF RunningIffScheduled, Queued

LEMMA ReadyReached ==
  ASSUME KI, QI
  PROVE  NoStrandedProc
<1>1. ASSUME NEW p \in Procs, Owner[p] = p, ~Empty(obj, p)
      PROVE  \E s \in Procs : Owner[s] = p /\ (s = curproc \/ InProcQ(s) \/ obj.pstate[s] = "Busy")
  <2>1. PICK t \in AllThreads : obj.tstate[t] = "Ready" /\ Owner[obj.proc[t]] = p
    BY <1>1, EmptyFacts DEF KI
  <2>2. obj.proc[t] \in Procs /\ obj.pstate[obj.proc[t]] = "Running"
    BY <2>1, FieldTypes DEF KI, QI, ReadyScheduled
  <2>3. QED
    BY <2>1, <2>2, QueueFacts DEF Queued
<1>2. QED
  BY <1>1 DEF NoStrandedProc

LEMMA IdleAtExit ==
  ASSUME KI, QI
  PROVE  ExitOnlyWhenIdle
<1> SUFFICES ASSUME phase = "exit", ~shutdown
             PROVE  /\ \A t \in Threads : obj.tstate[t] \notin {"Ready", "Busy"}
                    /\ delayq = <<>> /\ busyq = <<>>
  BY DEF ExitOnlyWhenIdle
<1>1. curproc = NULL /\ Queued = {} /\ delayq = <<>> /\ busyq = <<>>
  BY DEF QI, ProcTurn, KI, Rest
<1>2. ASSUME NEW t \in Threads, obj.tstate[t] = "Ready" PROVE FALSE
  <2>1. obj.proc[t] \in Procs /\ obj.pstate[obj.proc[t]] = "Running"
    BY <1>2, ThreadFacts, FieldTypes DEF KI, QI, ReadyScheduled
  <2>2. QED
    BY <1>1, <2>1, ProcAssumption DEF Queued
<1>3. \A t \in Threads : obj.tstate[t] # "Busy"
  BY ThreadFacts DEF KI, Turns, Untimed
<1>4. QED
  BY <1>1, <1>2, <1>3

(* A processor is in state Running exactly when it is current or in        *)
(* _procs, and _procs is a proper queue of them: add_proc(), update_proc() *)
(* and get_new_proc() never disagree, provided no alarm interrupts an      *)
(* add_proc() (Tame).                                                      *)
THEOREM RunningIsScheduled == ASSUME Tame PROVE Spec => []RunningIffScheduled
<1>1. KI /\ QI => RunningIffScheduled
  BY RunningScheduled
<1>2. QED
  BY <1>1, QueueInv, PTL

(* The processor of a ready thread is current or in _procs (Tame).         *)
THEOREM NobodyStranded == ASSUME Tame PROVE Spec => []NoStrandedProc
<1>1. KI /\ QI => NoStrandedProc
  BY ReadyReached
<1>2. QED
  BY <1>1, QueueInv, PTL

(* The scheduler loop ends by itself only when no thread is ready and      *)
(* nothing is delayed.                                                     *)
THEOREM EndsWhenIdle == ASSUME Tame PROVE Spec => []ExitOnlyWhenIdle
<1>1. KI /\ QI => ExitOnlyWhenIdle
  BY IdleAtExit
<1>2. QED
  BY <1>1, QueueInv, PTL

(* No null pointer is dereferenced, no assertion of Queue::add or of       *)
(* add_thread_to_proc fails and no stack is switched to while it is in     *)
(* use, in programs that do not call pSetPriority (set_priority() can      *)
(* switch to the stack it runs on: MCSelfSwitch.cfg).                      *)
THEOREM NothingFails ==
  ASSUME Tame, "setprio" \notin Ops
  PROVE  Spec => []NoFault
<1> DEFINE Unstuck == phase # "self_switch"
<1>1. ~BusyOkay /\ "readyrace" \notin Ops
  BY DEF Tame
<1>2. Init => Unstuck
  BY DEF Init
<1>3. ASSUME KI, Next, Unstuck PROVE Unstuck'
  <2>1. Effect
    BY <1>1, <1>3, NextKI
  <2>2. QED
    BY <2>1 DEF Effect, Called, Stuck, Left, Scheduled, GaveWay, Dispatched, UserPhases, MainPhases
<1>4. Unstuck /\ UNCHANGED vars => Unstuck'
  BY DEF vars
<1>5. ASSUME KI, QI, Unstuck PROVE NoFault
  BY <1>5 DEF NoFault, Faults, KI, Rest, UserPhases, MainPhases, QI, QueueOK
<1> HIDE DEF Unstuck
<1>6. KI /\ Unstuck /\ [Next]_vars => Unstuck'
  BY <1>3, <1>4
<1>7. KI /\ QI /\ Unstuck => NoFault
  BY <1>5
<1>8. QED
  BY <1>2, <1>6, <1>7, QueueInv, PTL DEF Spec
=============================================================================
