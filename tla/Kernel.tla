------------------------------- MODULE Kernel -------------------------------
(***************************************************************************)
(* The Plasma scheduler: src/src/Cluster.C and System.C, with the user     *)
(* interface of Interface.C and Init.C that drives them.                   *)
(*                                                                         *)
(* One thread runs at a time.  A user thread calls the interface at will;  *)
(* each call is an action of the thread that is current.  In preemptive    *)
(* mode the alarm signal may switch threads between any two actions when   *)
(* the cluster is not locked.  The scheduler loop runs on a thread of its  *)
(* own, MAIN, that is in the ready queues like any other.                  *)
(*                                                                         *)
(* Code that runs through to a context switch, and that the alarm cannot   *)
(* interrupt, is one action.  The calls that change shared state without   *)
(* locking (pAddReady, pSpawn on a processor, make_sharedproc) take one    *)
(* action per access when the alarm can strike.  The two loops with        *)
(* data-dependent length (the waiters of a terminating thread, the expired *)
(* entries of the time queues) take one action per iteration; phase says   *)
(* where the running thread is.                                            *)
(***************************************************************************)
EXTENDS Proc, Sequences, PriHeap

CONSTANTS Root,        \* The processor main() creates.
          Start,       \* The thread that runs pMain.
          PreemptOn,   \* ConfigParms::_preempt.
          BusyOkay,    \* ConfigParms::_busyokay, the time model.
          BusyTs,      \* ConfigParms::_simtimeslice.
          Delays,      \* Arguments of pDelay that are explored.
          Busies,      \* First arguments of pBusy that are explored.
          Slices,      \* Second arguments of pBusy and arguments of pBusySleep.
          MaxTime,     \* Bound: no call may reach beyond this time.
          Ops          \* The calls the program under the scheduler makes.

ASSUME KernelAssumption ==
  /\ Root \in Procs /\ Owner[Root] = Root /\ Start \in Threads
  /\ PreemptOn \in BOOLEAN /\ BusyOkay \in BOOLEAN
  /\ BusyTs \in Nat \ {0} /\ MaxTime \in Nat /\ MaxTime < TimeMod
  /\ Delays \subseteq Nat /\ Busies \subseteq Nat /\ Slices \subseteq Nat

VARIABLES
  obj,        \* All Thread and Proc objects (see Proc).
  waiters,    \* waiters[t]: Thread::_waiters.
  valid,      \* valid[t]: Thread::_valid.
  cur,        \* Cluster::_cur.
  curproc,    \* Cluster::_curproc.
  locked,     \* Cluster::_kernel.
  now,        \* System::_time.
  delayq,     \* System::_delay.
  busyq,      \* System::_busy.
  shutdown,   \* System::_wantshutdown.
  phase,      \* Where the running code is.
  frame       \* frame[t]: the live part of t's suspended stack.

clusterVars == <<cur, curproc, locked, phase>>
timeVars == <<now, delayq, busyq>>
vars == <<obj, waiters, valid, cur, curproc, locked, now, delayq, busyq,
          shutdown, phase, frame>>

(* What is left on a thread's stack when it is not running user code:      *)
(* where it is in the kernel (at), the thread it waits for or the object   *)
(* it is about to queue (tgt), the total_time and userts of busy(), as     *)
(* history the time it asked to be resumed at (due), and of an insertion   *)
(* under way (ins) the queue, the tail it has read and where it returns.   *)
NoInsert == [q |-> ProcQ, tail |-> NULL, ret |-> "user"]
Idle == [at |-> "user", tgt |-> NULL, rem |-> 0, uts |-> 0, due |-> 0, ins |-> NoInsert]
Resting == {"sleep", "wait", "delay"}

(* Where a thread can be in an unlocked Proc::add_ready, in an unlocked    *)
(* Cluster::add_proc, and in the Queue::add of either.                     *)
InAddReady == {"r_test", "r_set", "r_count"}
InAddProc == {"p_test", "p_set"}
InQueueAdd == {"q_test", "q_null", "q_load", "q_link", "q_prev", "q_tail"}
Inserting == InAddReady \cup InAddProc \cup InQueueAdd

Faults == {"null_thread", "self_switch", "null_proc"}

(* Cluster::init: no preemption in the time model.                         *)
PreemptOkay == PreemptOn /\ ~BusyOkay

(* convert_priority: the interface counts from the highest priority, the   *)
(* scheduler from the lowest.  (A value out of range aborts: BadPriority.) *)
ConvertPriority(u) == (NPrio - 1) - u
Alive(t) == obj.tstate[t] \notin {"None", "Done"}

-----------------------------------------------------------------------------
(* main(): the root processor is current and running, the thread of pMain  *)
(* is ready on it, and scheduler() has unlocked the cluster.  Processors   *)
(* with their own queues exist from the start; the ones that share a       *)
(* queue are created by make_sharedproc.                                   *)
Init ==
  LET Node == AllThreads \cup Procs
      blank == [mem |-> [next |-> [x \in Node |-> NULL], prev |-> [x \in Node |-> NULL],
                         head |-> [q \in ReadyQueues \cup {ProcQ} |-> NULL],
                         tail |-> [q \in ReadyQueues \cup {ProcQ} |-> NULL]],
                count |-> [p \in Procs |-> 0],
                tstate |-> [t \in AllThreads |-> IF t \in {MAIN, Start} THEN "Run" ELSE "None"],
                prio |-> [t \in AllThreads |-> 0],
                proc |-> [t \in AllThreads |-> IF t = Start THEN Root ELSE NULL],
                time |-> [t \in AllThreads |-> 0], start |-> [t \in AllThreads |-> 0],
                pstate |-> [p \in Procs |-> IF p = Root THEN "Running"
                                            ELSE IF Owner[p] = p THEN "Waiting" ELSE "None"],
                bt |-> [p \in Procs |-> NULL],
                bad |-> FALSE]
  IN  /\ obj = AddReady(blank, Root, Start)
      /\ waiters = [t \in Threads |-> <<>>]
      /\ valid = [t \in Threads |-> TRUE]
      /\ cur = NULL /\ curproc = Root /\ locked = FALSE /\ phase = "sched"
      /\ now = 0 /\ delayq = <<>> /\ busyq = <<>>
      /\ shutdown = FALSE
      /\ frame = [t \in Threads |-> Idle]

-----------------------------------------------------------------------------
(* Context switches.                                                       *)

(* Mutant of Resume: every switch unlocks, the one to MAIN too.            *)
ResumeUnlocked(t, lk, fr) ==
  /\ cur' = t
  /\ phase' = IF t = MAIN THEN "sched" ELSE "user"
  /\ locked' = FALSE
  /\ frame' = IF t \in Threads /\ fr[t].at \in Resting
              THEN [fr EXCEPT ![t] = Idle] ELSE fr

(* Control passes to t, which is MAIN at the top of the scheduler loop or  *)
(* a user thread where it was suspended.  Every switch but the one to the  *)
(* scheduler unlocks the cluster (switch_ready, switch_block, switch_term).*)
(* lk is the lock before the switch, fr the frames with the old thread's.  *)
Resume(t, lk, fr) ==
  /\ cur' = t
  /\ phase' = IF t = MAIN THEN "sched" ELSE "user"
  /\ locked' = (t = MAIN /\ lk)
  /\ frame' = IF t \in Threads /\ fr[t].at \in Resting
              THEN [fr EXCEPT ![t] = Idle] ELSE fr

(* The program dies: a null pointer is dereferenced, or a stack is         *)
(* switched to while it is in use.                                         *)
Crash(f, fr) == phase' = f /\ frame' = fr /\ UNCHANGED <<cur, locked>>

SetProc(s, t, p) == [s EXCEPT !.proc[t] = p]

(* exec_block: switch to the next thread of the current processor, without *)
(* queueing the current one.                                               *)
ExecBlock(s, lk, fr) ==
  LET t == NextReady(s, curproc)
  IN  /\ obj' = IF t = NULL THEN s ELSE SetProc(GetReady(s, curproc), t, curproc)
      /\ CASE t = NULL -> Crash("null_thread", fr)
           [] t = cur  -> Crash("self_switch", fr)
           [] OTHER    -> Resume(t, lk, fr)

(* Mutant of SwitchReady: the old thread is not queued.                    *)
SwitchDrop(s, old) == AddProc(s, s.proc[old])

(* switch_ready: queue the old thread on its own processor.                *)
SwitchReady(s, old) == AddProc(AddReady(s, s.proc[old], old), s.proc[old])

(* exec_ready: switch to the next thread and queue the current one.        *)
ExecReady ==
  LET t == NextReady(obj, curproc)
      s == SetProc(GetReady(obj, curproc), t, curproc)
  IN  CASE t = NULL -> obj' = obj /\ Crash("null_thread", frame)
        [] t = cur  -> obj' = s /\ Crash("self_switch", frame)
        [] OTHER    -> obj' = SwitchReady(s, cur) /\ Resume(t, TRUE, frame)

-----------------------------------------------------------------------------
(* The calls of the interface, each made by the current user thread.       *)

Calls(op) == /\ phase = "user" /\ op \in Ops
             /\ frame[cur].at = "user" /\ ~obj.bad

(* Proc::create: a new thread, ready on p.  A negative priority is that of *)
(* the creating thread.  The cluster is unlocked on return.                *)
Create(p, t, pr) ==
  /\ obj.tstate[t] = "None"
  /\ obj' = AddReady([obj EXCEPT !.tstate[t] = "Run", !.proc[t] = p,
                                 !.prio[t] = IF pr < 0 THEN obj.prio[cur] ELSE pr], p, t)
  /\ locked' = FALSE

UserPrios == {-1} \cup {ConvertPriority(u) : u \in Prios}

Spawn(t, pr) ==
  /\ Calls("spawn")
  /\ Create(curproc, t, pr)
  /\ UNCHANGED <<waiters, valid, cur, curproc, timeVars, shutdown, phase, frame>>

(* Whether the alarm can switch threads in the middle of what the current  *)
(* thread does.  (Programs that make an unlocked call then are told apart.)*)
Interruptible == PreemptOkay /\ ~locked /\ obj.prio[cur] = 0
MayMake(race) == Interruptible => race \in Ops

(* The frame after add_proc(p) has returned.                               *)
Returned(ret, p) == IF ret = "create" THEN [Idle EXCEPT !.at = ret, !.tgt = p] ELSE Idle

(* add_proc from an unlocked call, with the objects as s: in one step if   *)
(* nothing can come between, or access by access.                          *)
AddProcCall(s, p, ret) ==
  IF Interruptible
  THEN /\ obj' = s
       /\ frame' = [frame EXCEPT ![cur] = [Idle EXCEPT !.at = "p_test", !.tgt = p,
                                                      !.ins.ret = ret]]
  ELSE obj' = AddProc(s, p) /\ frame' = [frame EXCEPT ![cur] = Returned(ret, p)]

(* pSpawn on a processor calls add_proc, which does not lock, and then     *)
(* create.  (Programs that only spawn on processors that are not busy are  *)
(* told apart.)                                                            *)
SpawnOn(p) ==
  /\ Calls(IF obj.pstate[p] = "Busy" THEN "spawnbusy" ELSE "spawnon") /\ MayMake("procrace")
  /\ obj.pstate[p] # "None"
  /\ \E t \in Threads : obj.tstate[t] = "None"
  /\ AddProcCall(obj, p, "create")
  /\ UNCHANGED <<waiters, valid, clusterVars, timeVars, shutdown>>

SpawnOnCreate(t, pr) ==
  /\ phase = "user" /\ frame[cur].at = "create" /\ ~obj.bad
  /\ Create(frame[cur].tgt, t, pr)
  /\ frame' = [frame EXCEPT ![cur] = Idle]
  /\ UNCHANGED <<waiters, valid, cur, curproc, timeVars, shutdown, phase>>

(* make_sharedproc: a new processor on the ready queues of Owner[p].       *)
MakeShared(p) ==
  /\ Calls("share") /\ MayMake("procrace") /\ obj.pstate[p] = "None"
  /\ AddProcCall([obj EXCEPT !.pstate[p] = "Waiting"], p, "user")
  /\ UNCHANGED <<waiters, valid, clusterVars, timeVars, shutdown>>

Yield ==
  /\ Calls("yield")
  /\ ExecReady
  /\ UNCHANGED <<waiters, valid, curproc, timeVars, shutdown>>

(* The alarm handler preempt() with ts_okay(): unlocked, lowest priority.  *)
Preempt ==
  /\ phase = "user" /\ PreemptOkay /\ ~obj.bad
  /\ ~locked /\ obj.prio[cur] = 0
  /\ ExecReady
  /\ UNCHANGED <<waiters, valid, curproc, timeVars, shutdown>>

(* Mutant of Wait: a thread that is done is waited for like any other.     *)
WaitUnchecked(t) ==
  /\ Calls("wait") /\ t # cur /\ obj.tstate[t] # "None"
  /\ waiters' = [waiters EXCEPT ![t] = Append(@, cur)]
  /\ ExecBlock(obj, TRUE, [frame EXCEPT ![cur].at = "wait", ![cur].tgt = t])
  /\ UNCHANGED <<valid, curproc, timeVars, shutdown>>

(* wait(): a thread that is done is not waited for.                        *)
Wait(t) ==
  /\ Calls("wait") /\ t # cur /\ obj.tstate[t] # "None"
  /\ IF obj.tstate[t] = "Done"
     THEN locked' = FALSE /\ UNCHANGED <<obj, waiters, cur, phase, frame>>
     ELSE /\ waiters' = [waiters EXCEPT ![t] = Append(@, cur)]
          /\ ExecBlock(obj, TRUE, [frame EXCEPT ![cur].at = "wait", ![cur].tgt = t])
  /\ UNCHANGED <<valid, curproc, timeVars, shutdown>>

Sleep ==
  /\ Calls("sleep")
  /\ ExecBlock(obj, TRUE, [frame EXCEPT ![cur].at = "sleep"])
  /\ UNCHANGED <<waiters, valid, curproc, timeVars, shutdown>>

(* Contract of pWake and pAddReady: the thread is asleep by pSleep, or in  *)
(* a ready queue or done (then nothing is added).  A thread that is        *)
(* running, or blocked in another queue, must not be woken.  (Programs     *)
(* that only wake threads that are not done are told apart: waking a done  *)
(* one may queue a processor that has no thread.)                          *)
MayWake(t) == \/ obj.tstate[t] = "Ready"
              \/ obj.tstate[t] = "Done" /\ "wakedone" \in Ops
              \/ obj.tstate[t] = "Run" /\ frame[t].at = "sleep"

Wake(t) ==
  /\ Calls("wake") /\ MayWake(t)
  /\ obj' = AddThreadToProc(obj, t, now)
  /\ locked' = FALSE
  /\ UNCHANGED <<waiters, valid, cur, curproc, timeVars, shutdown, phase, frame>>

(* Bound: no pAddReady is interrupted after another has put a _count out   *)
(* of its range.                                                           *)
CountsInRange == \A p \in Procs : obj.count[p] \in 0..Cardinality(AllThreads)

(* pAddReady: like wake, without regard to a busy processor and without    *)
(* locking.  schedule.skb assumes that the caller has locked the cluster;  *)
(* a plain get() of a channel has not.                                     *)
AddReadyCall(t) ==
  /\ Calls("addready") /\ MayMake("readyrace") /\ MayWake(t)
  /\ Interruptible => CountsInRange
  /\ IF Interruptible
     THEN /\ frame' = [frame EXCEPT ![cur] = [Idle EXCEPT !.at = "r_test", !.tgt = t]]
          /\ UNCHANGED obj
     ELSE /\ obj' = AddProc(AddReady(obj, obj.proc[t], t), obj.proc[t])
          /\ UNCHANGED frame
  /\ UNCHANGED <<waiters, valid, clusterVars, timeVars, shutdown>>

(* terminate(t) for another thread: out of the ready queue, and destroyed. *)
Kill(t) ==
  /\ Calls("kill") /\ t # cur /\ obj.tstate[t] # "None"
  /\ obj' = IF obj.tstate[t] = "Done" THEN obj
            ELSE [GetReadyThread(obj, obj.proc[t], t) EXCEPT !.tstate[t] = "Done"]
  /\ locked' = FALSE
  /\ UNCHANGED <<waiters, valid, cur, curproc, timeVars, shutdown, phase, frame>>

(* terminate(): the waiters are made ready one by one, ...                 *)
Terminate ==
  /\ Calls("terminate")
  /\ locked' = TRUE /\ phase' = "reap"
  /\ UNCHANGED <<obj, waiters, valid, cur, curproc, timeVars, shutdown, frame>>

Reap ==
  /\ phase = "reap" /\ waiters[cur] # <<>> /\ ~obj.bad
  /\ LET n == waiters[cur][Len(waiters[cur])]
     IN  obj' = AddProc(AddReady(obj, obj.proc[n], n), obj.proc[n])
  /\ waiters' = [waiters EXCEPT ![cur] = SubSeq(@, 1, Len(@) - 1)]
  /\ UNCHANGED <<valid, clusterVars, timeVars, shutdown, frame>>

(* ... and the next thread takes over.  It keeps its own processor.        *)
SwitchTerm ==
  /\ phase = "reap" /\ waiters[cur] = <<>> /\ ~obj.bad
  /\ LET t == NextReady(obj, curproc)
     IN  IF t = NULL THEN obj' = obj /\ Crash("null_thread", frame)
         ELSE /\ obj' = [GetReady(obj, curproc) EXCEPT !.tstate[cur] = "Done"]
              /\ Resume(t, TRUE, frame)
  /\ UNCHANGED <<waiters, valid, curproc, timeVars, shutdown>>

(* set_priority: lowering (or keeping) it gives up the processor, raising  *)
(* it returns with the cluster still locked.                               *)
SetPriority(u) ==
  /\ Calls("setprio")
  /\ LET p == ConvertPriority(u)
         s == [obj EXCEPT !.prio[cur] = p]
     IN  IF p <= obj.prio[cur] THEN ExecBlock(AddReady(s, curproc, cur), TRUE, frame)
         ELSE obj' = s /\ locked' = TRUE /\ UNCHANGED <<cur, phase, frame>>
  /\ UNCHANGED <<waiters, valid, curproc, timeVars, shutdown>>

(* pLock and pUnlock: a flag, not a count.                                 *)
Lock ==
  /\ Calls("lock") /\ ~locked
  /\ locked' = TRUE
  /\ UNCHANGED <<obj, waiters, valid, cur, curproc, timeVars, shutdown, phase, frame>>

Unlock ==
  /\ Calls("lock") /\ locked
  /\ locked' = FALSE
  /\ UNCHANGED <<obj, waiters, valid, cur, curproc, timeVars, shutdown, phase, frame>>

(* pExit and pAbort: ask for shutdown and switch to the scheduler, which   *)
(* is not taken out of its ready queue.                                    *)
Leave ==
  /\ shutdown' = TRUE
  /\ obj' = SwitchReady(obj, cur)
  /\ Resume(MAIN, TRUE, frame)
  /\ UNCHANGED <<waiters, valid, curproc, timeVars>>

Exit == Calls("exit") /\ Leave

(* busy() and busysleep() abort the program outside the time model.        *)
BusyRefused == Calls("busy") /\ ~BusyOkay /\ Leave

(* convert_priority() aborts the program when pSetPriority or pSpawn gets  *)
(* a number that is no priority; pSpawn on a processor has by then called  *)
(* add_proc.                                                               *)
BadPriority ==
  /\ phase = "user" /\ "badprio" \in Ops /\ ~obj.bad
  /\ frame[cur].at \in {"user", "create"}
  /\ Leave

-----------------------------------------------------------------------------
(* The unlocked insertions, one access of shared state at a time.          *)

Inside(pc) ==
  /\ phase = "user" /\ frame[cur].at = pc /\ ~obj.bad
  /\ UNCHANGED <<waiters, valid, clusterVars, timeVars, shutdown>>
GoTo(pc) == frame' = [frame EXCEPT ![cur].at = pc]

(* The object that is inserted, and the insertion.                         *)
Inserted == frame[cur].tgt
Insertion == frame[cur].ins

(* pAddReady goes on with add_proc of the thread's processor.              *)
GoToAddProc == frame' = [frame EXCEPT ![cur] = [Idle EXCEPT !.at = "p_test",
                                                            !.tgt = obj.proc[Inserted]]]

(* Proc::add_ready up to the call of Queue::add.                           *)
TestReady ==
  /\ Inside("r_test")
  /\ IF obj.tstate[Inserted] \in {"Run", "Busy"} THEN GoTo("r_set") ELSE GoToAddProc
  /\ UNCHANGED obj
SetReady ==
  /\ Inside("r_set")
  /\ obj' = [obj EXCEPT !.tstate[Inserted] = "Ready"]
  /\ frame' = [frame EXCEPT ![cur].at = "q_test",
                            ![cur].ins.q = ReadyQ(obj.proc[Inserted], obj.prio[Inserted])]

(* Cluster::add_proc up to the call of Queue::add.                         *)
TestProc ==
  /\ Inside("p_test")
  /\ IF obj.pstate[Inserted] = "Running"
     THEN frame' = [frame EXCEPT ![cur] = Returned(Insertion.ret, Inserted)]
     ELSE GoTo("p_set")
  /\ UNCHANGED obj
SetRunning ==
  /\ Inside("p_set")
  /\ obj' = [obj EXCEPT !.pstate[Inserted] = "Running"]
  /\ GoTo("q_test")

(* Queue::add: the assertion, the item's own link, the test of _tail, ...  *)
TestLinks ==
  /\ Inside("q_test")
  /\ obj' = [obj EXCEPT !.bad = ~Linkable(obj.mem, Inserted)]
  /\ GoTo("q_null")
ClearNext ==
  /\ Inside("q_null")
  /\ obj' = [obj EXCEPT !.mem.next[Inserted] = NULL]
  /\ GoTo("q_load")
LoadTail ==
  /\ Inside("q_load")
  /\ frame' = [frame EXCEPT ![cur].at = "q_link", ![cur].ins.tail = obj.mem.tail[Insertion.q]]
  /\ UNCHANGED obj

(* ... the link to the item, the item's back link (the compiler may read   *)
(* _tail a second time or not), ...                                        *)
LinkItem ==
  /\ Inside("q_link")
  /\ obj' = IF Insertion.tail = NULL THEN [obj EXCEPT !.mem.head[Insertion.q] = Inserted]
            ELSE [obj EXCEPT !.mem.next[Insertion.tail] = Inserted]
  /\ GoTo("q_prev")
LinkBack ==
  /\ Inside("q_prev")
  /\ \E b \in IF Insertion.tail = NULL THEN {NULL}
               ELSE {Insertion.tail, obj.mem.tail[Insertion.q]} :
       obj' = [obj EXCEPT !.mem.prev[Inserted] = b]
  /\ GoTo("q_tail")

(* ... and _tail.  In add_ready, _count follows.                           *)
MoveTail ==
  /\ Inside("q_tail")
  /\ obj' = [obj EXCEPT !.mem.tail[Insertion.q] = Inserted]
  /\ IF Insertion.q = ProcQ
     THEN frame' = [frame EXCEPT ![cur] = Returned(Insertion.ret, Inserted)]
     ELSE GoTo("r_count")
CountReady ==
  /\ Inside("r_count")
  /\ obj' = [obj EXCEPT !.count[Insertion.q[1]] = @ + 1]
  /\ GoToAddProc

InsertStep ==
  \/ TestReady \/ SetReady \/ CountReady \/ TestProc \/ SetRunning
  \/ TestLinks \/ ClearNext \/ LoadTail \/ LinkItem \/ LinkBack \/ MoveTail

-----------------------------------------------------------------------------
(* The time model.                                                         *)

ThreadKeys(s) == [t \in AllThreads |-> ThreadEnd(s, t)]
ProcKeys(s) == [p \in Procs |-> ProcEnd(s, p)]

(* The interval of a delay or busy period.  TimedUnstarted is a mutant:    *)
(* the start time is not recorded.                                         *)
TimedUnstarted(s, t, d) == [s EXCEPT !.time[t] = d]
Timed(s, t, d) == [s EXCEPT !.time[t] = d, !.start[t] = now]

(* delay(): into the queue of delayed threads, and block.                  *)
Delay(d) ==
  /\ Calls("delay") /\ now + d <= MaxTime
  /\ LET s == Timed(obj, cur, d)
     IN  /\ delayq' = HeapPush(delayq, ThreadKeys(s), cur)
         /\ ExecBlock(s, TRUE, [frame EXCEPT ![cur].at = "delay", ![cur].due = now + d])
  /\ UNCHANGED <<waiters, valid, curproc, now, busyq, shutdown>>

(* System::add_busy.                                                       *)
MakeBusy(s, t, d) ==
  AddBusy([Timed(s, t, d) EXCEPT !.pstate[s.proc[t]] = "Busy"], s.proc[t], t)

(* do_busy() up to the search for another processor: whoever kept this     *)
(* processor busy is made ready, the current thread keeps it busy for d    *)
(* (for good when d is 0), and the scheduler thread leaves its ready queue *)
(* to follow.                                                              *)
DoBusy(d, fr) ==
  LET s == MakeBusy(SetProc(ClearBusyThread(obj, curproc), cur, curproc), cur, d)
  IN  /\ obj' = RemoveReady(s, s.proc[MAIN], MAIN)
      /\ busyq' = IF d = 0 THEN busyq ELSE HeapPush(busyq, ProcKeys(s), curproc)
      /\ phase' = "newproc" /\ frame' = fr
      /\ UNCHANGED <<cur, curproc, locked, waiters, now, delayq, shutdown>>

(* One round of busy(): the lowest priority consumes time in slices.       *)
(* (WholeSlices is a mutant: the last slice is not cut short.)             *)
WholeSlices(total, uts) ==
  IF obj.prio[cur] > 0 THEN total ELSE IF uts > 0 THEN uts ELSE BusyTs
RequestedTime(total, uts) ==
  IF obj.prio[cur] > 0 \/ total < BusyTs THEN total
  ELSE IF uts > 0 THEN uts ELSE BusyTs

Busy(d, u) ==
  /\ Calls("busy") /\ BusyOkay /\ d > 0 /\ now + d <= MaxTime
  /\ DoBusy(RequestedTime(d, u),
            [frame EXCEPT ![cur] = [Idle EXCEPT !.at = "busy", !.rem = d, !.uts = u,
                                                !.due = now + d]])
  /\ UNCHANGED valid

(* Back from do_busy() in busy(): "Loop until all time has been used".     *)
BusyLoop ==
  /\ phase = "user" /\ frame[cur].at = "busy" /\ ~obj.bad
  /\ LET left == (frame[cur].rem - obj.time[cur]) % TimeMod
     IN  IF left = 0
         THEN /\ frame' = [frame EXCEPT ![cur] = Idle]
              /\ UNCHANGED <<obj, waiters, clusterVars, timeVars, shutdown>>
         ELSE DoBusy(RequestedTime(left, frame[cur].uts), [frame EXCEPT ![cur].rem = left])
  /\ UNCHANGED valid

(* busysleep(): busy until busywake() sets the thread's flag.              *)
BusySleep(u) ==
  /\ Calls("busysleep") /\ BusyOkay /\ now + u <= MaxTime
  /\ valid' = [valid EXCEPT ![cur] = FALSE]
  /\ DoBusy(u, [frame EXCEPT ![cur].at = "bsleep", ![cur].uts = u])

BusySleepLoop ==
  /\ phase = "user" /\ frame[cur].at = "bsleep" /\ ~obj.bad
  /\ IF valid[cur]
     THEN /\ frame' = [frame EXCEPT ![cur] = Idle]
          /\ UNCHANGED <<obj, waiters, clusterVars, timeVars, shutdown>>
     ELSE now + frame[cur].uts <= MaxTime /\ DoBusy(frame[cur].uts, frame)
  /\ UNCHANGED valid

(* busywake(): the contract is that t is in busysleep().                   *)
BusyWake(t) ==
  /\ Calls("busywake") /\ t # cur /\ Alive(t) /\ frame[t].at = "bsleep"
  /\ valid' = [valid EXCEPT ![t] = TRUE]
  /\ obj' = AddProc(ClearBusyThread(obj, obj.proc[t]), obj.proc[t])
  /\ locked' = FALSE
  /\ UNCHANGED <<waiters, cur, curproc, timeVars, shutdown, phase, frame>>

(* The tail of do_busy(): the scheduler thread joins the new processor,    *)
(* and the current thread gives way unless it is the one to run again.     *)
Rebusy ==
  /\ phase = "rebusy" /\ ~obj.bad
  /\ LET s == AddReady(SetProc(obj, MAIN, curproc), curproc, MAIN)
     IN  IF NextReady(s, curproc) # cur THEN ExecBlock(s, locked, frame)
         ELSE /\ obj' = GetReady(s, curproc) /\ phase' = "user"
              /\ UNCHANGED <<cur, locked, frame>>
  /\ UNCHANGED <<waiters, valid, curproc, timeVars, shutdown>>

-----------------------------------------------------------------------------
(* The scheduler loop.                                                     *)

Quiet == UNCHANGED <<waiters, valid, shutdown, frame>>

(* get_new_proc() is called from the scheduler loop and from do_busy().    *)
Found == IF cur \in Threads THEN "rebusy" ELSE "sched"
NoneLeft == IF cur \in Threads THEN "null_proc" ELSE "exit"

(* Shutdown has been requested.                                            *)
SchedulerExit ==
  /\ phase = "sched" /\ shutdown
  /\ phase' = "exit"
  /\ UNCHANGED <<obj, cur, curproc, locked, timeVars>> /\ Quiet

(* Mutant of UpdateProc: the processor is left in state Running.           *)
UpdateProcRunning ==
  /\ phase = "sched" /\ ~shutdown /\ Empty(obj, curproc) /\ ~obj.bad
  /\ phase' = "newproc"
  /\ UNCHANGED <<obj, cur, curproc, locked, timeVars>> /\ Quiet

(* update_proc(): the current processor has run out of threads.            *)
UpdateProc ==
  /\ phase = "sched" /\ ~shutdown /\ Empty(obj, curproc) /\ ~obj.bad
  /\ obj' = [obj EXCEPT !.pstate[curproc] = "Waiting"]
  /\ phase' = "newproc"
  /\ UNCHANGED <<cur, curproc, locked, timeVars>> /\ Quiet

(* The next thread of the current processor runs; the scheduler thread is  *)
(* queued behind it.                                                       *)
Dispatch ==
  /\ phase = "sched" /\ ~shutdown /\ ~Empty(obj, curproc) /\ ~obj.bad
  /\ LET t == NextReady(obj, curproc)
     IN  IF t = NULL THEN phase' = "exit" /\ UNCHANGED <<obj, cur, locked, frame>>
         ELSE /\ obj' = SwitchReady(SetProc(GetReady(obj, curproc), MAIN, curproc), MAIN)
              /\ Resume(t, locked, frame)
  /\ UNCHANGED <<waiters, valid, curproc, timeVars, shutdown>>

(* get_new_proc(): a processor that has threads, or else time advances.    *)
(* The search never ends if the queue of processors is a cycle of empty    *)
(* ones.                                                                   *)
GetNewProc ==
  /\ phase = "newproc" /\ ~obj.bad
  /\ FirstNonEmpty(obj) # NULL \/ Acyclic(obj.mem, ProcQ)
  /\ curproc' = FirstNonEmpty(obj)
  /\ obj' = GetNonEmpty(obj)
  /\ phase' = IF curproc' = NULL THEN "time" ELSE Found
  /\ UNCHANGED <<cur, locked, timeVars>> /\ Quiet

(* System::update_time: the lesser of the tops of _busy and _delay.        *)
(* (FarthestEnd is a mutant of NearestEnd.)                                *)
TopEnds == (IF delayq = <<>> THEN {} ELSE {ThreadEnd(obj, HeapTop(delayq))})
           \cup (IF busyq = <<>> THEN {} ELSE {ProcEnd(obj, HeapTop(busyq))})
FarthestEnd == CHOOSE e \in TopEnds : \A f \in TopEnds : f <= e
NearestEnd == CHOOSE e \in TopEnds : \A f \in TopEnds : e <= f

AdvanceTime ==
  /\ phase = "time"
  /\ IF TopEnds = {} THEN phase' = NoneLeft /\ UNCHANGED now
     ELSE phase' = "expire" /\ now' = NearestEnd
  /\ UNCHANGED <<obj, cur, curproc, locked, delayq, busyq>> /\ Quiet

(* The loops of Cluster::update_time over what is due now: first the       *)
(* delayed threads, then the busy processors.                              *)
DelayDue == delayq # <<>> /\ ThreadEnd(obj, HeapTop(delayq)) <= now
BusyDue == busyq # <<>> /\ ProcEnd(obj, HeapTop(busyq)) <= now

ExpireDelay ==
  /\ phase = "expire" /\ DelayDue /\ ~obj.bad
  /\ delayq' = HeapPop(delayq, ThreadKeys(obj))
  /\ obj' = AddThreadToProc(obj, HeapTop(delayq), now)
  /\ UNCHANGED <<clusterVars, now, busyq>> /\ Quiet

ExpireBusy ==
  /\ phase = "expire" /\ ~DelayDue /\ BusyDue /\ ~obj.bad
  /\ busyq' = HeapPop(busyq, ProcKeys(obj))
  /\ obj' = AddProc(ClearBusyThread(obj, HeapTop(busyq)), HeapTop(busyq))
  /\ UNCHANGED <<clusterVars, now, delayq>> /\ Quiet

(* The first queued processor becomes current if it has threads; if not,   *)
(* it waits, and time advances again.                                      *)
PickProc ==
  /\ phase = "expire" /\ ~DelayDue /\ ~BusyDue /\ ~obj.bad
  /\ LET p == obj.mem.head[ProcQ]
         s == [obj EXCEPT !.mem = Get(obj.mem, ProcQ)]
     IN  IF p # NULL /\ ~Empty(obj, p)
         THEN obj' = s /\ curproc' = p /\ phase' = Found
         ELSE /\ obj' = IF p = NULL THEN s ELSE [s EXCEPT !.pstate[p] = "Waiting"]
              /\ curproc' = NULL /\ phase' = "time"
  /\ UNCHANGED <<cur, locked, timeVars>> /\ Quiet

-----------------------------------------------------------------------------
ThreadCalls ==
  \/ \E t \in Threads, pr \in UserPrios : Spawn(t, pr) \/ SpawnOnCreate(t, pr)
  \/ \E p \in Procs : SpawnOn(p) \/ MakeShared(p)
  \/ \E t \in Threads : Wait(t) \/ Wake(t) \/ AddReadyCall(t) \/ Kill(t) \/ BusyWake(t)
  \/ Yield \/ Sleep \/ Terminate \/ Lock \/ Unlock \/ Exit \/ BusyRefused \/ BadPriority
  \/ \E u \in Prios : SetPriority(u)
  \/ \E d \in Delays : Delay(d)
  \/ \E d \in Busies, u \in Slices : Busy(d, u)
  \/ \E u \in Slices : BusySleep(u)
  \/ BusyLoop \/ BusySleepLoop
  \/ InsertStep

KernelStep ==
  \/ Reap \/ SwitchTerm \/ Rebusy
  \/ SchedulerExit \/ UpdateProc \/ Dispatch \/ GetNewProc
  \/ AdvanceTime \/ ExpireDelay \/ ExpireBusy \/ PickProc

Next == ThreadCalls \/ Preempt \/ KernelStep

Spec == Init /\ [][Next]_vars

(* The alarm signal keeps arriving, and kernel code, which nothing blocks, *)
(* runs on.  User code is under no obligation.                             *)
FairSpec == Spec /\ WF_vars(Preempt) /\ WF_vars(KernelStep)

-----------------------------------------------------------------------------
(* Properties.                                                             *)

Elems(h) == {h[i] : i \in 1..Len(h)}
InProcQ(p) == p \in Contents(obj.mem, ProcQ)

(* Each variable has the type its declaration gives it.                    *)
TypeOK ==
  /\ obj.tstate \in [AllThreads -> {"None", "Run", "Ready", "Busy", "Done"}]
  /\ obj.pstate \in [Procs -> {"None", "Waiting", "Running", "Busy"}]
  /\ obj.count \in [Procs -> Nat]
  /\ obj.prio \in [AllThreads -> Prios]
  /\ obj.proc \in [AllThreads -> Procs \cup {NULL}]
  /\ obj.bt \in [Procs -> Threads \cup {NULL}]
  /\ obj.time \in [AllThreads -> 0..(TimeMod - 1)]
  /\ obj.start \in [AllThreads -> 0..(TimeMod - 1)]
  /\ obj.bad \in BOOLEAN
  /\ waiters \in [Threads -> Seq(Threads)]
  /\ valid \in [Threads -> BOOLEAN]
  /\ cur \in AllThreads \cup {NULL} /\ curproc \in Procs \cup {NULL}
  /\ locked \in BOOLEAN /\ shutdown \in BOOLEAN
  /\ now \in 0..(TimeMod - 1)
  /\ delayq \in Seq(Threads) /\ busyq \in Seq(Procs)
  /\ phase \in {"user", "sched", "reap", "newproc", "time", "expire", "rebusy", "exit"}
                 \cup Faults
  /\ frame \in [Threads ->
       [at : {"user", "create", "busy", "bsleep"} \cup Resting \cup Inserting,
        tgt : Threads \cup Procs \cup {NULL}, rem : 0..(TimeMod - 1), uts : Nat, due : Nat,
        ins : [q : ReadyQueues \cup {ProcQ}, tail : AllThreads \cup Procs \cup {NULL},
               ret : {"user", "create"}]]]

(* A live thread is in the middle of an unlocked insertion.                *)
Adding == \E t \in Threads : Alive(t) /\ frame[t].at \in Inserting

(* The walk along a queue ends, at its tail.                               *)
WellFormed(q) ==
  /\ Acyclic(obj.mem, q)
  /\ obj.mem.tail[q] = IF Length(obj.mem, q) = 0 THEN NULL
                       ELSE Item(obj.mem, q, Length(obj.mem, q) - 1)

(* A thread is in a ready queue exactly when its state is Ready (Thread.h: *)
(* "Ready:  A thread is in ready queue"), and then in the one of its       *)
(* processor and priority and in no other; every ready queue ends, at its  *)
(* tail, and _count is the number of threads a processor can find.  (Not   *)
(* in the middle of an unlocked insertion, but when all are complete.)     *)
ReadyIffQueued == ~Adding =>
  /\ \A q \in ReadyQueues : WellFormed(q)
  /\ \A t \in AllThreads, q \in ReadyQueues :
       t \in Contents(obj.mem, q) <=>
         obj.tstate[t] = "Ready" /\ q = ReadyQ(obj.proc[t], obj.prio[t])
  /\ \A p \in Procs : Owner[p] = p =>
       obj.count[p] = Cardinality(UNION {Contents(obj.mem, ReadyQ(p, i)) : i \in Prios})

(* While a user thread runs, the scheduler thread is in the lowest ready   *)
(* queue of the current processor: "There is always a thread on the ready  *)
(* queue, since there's always at least the main thread" (preempt()).      *)
MainAlwaysReady == phase = "user" => MAIN \in Contents(obj.mem, ReadyQ(curproc, 0))

(* No call dereferences a null thread or processor, switches to the stack  *)
(* it runs on, or fails an assertion of Queue::add or add_thread_to_proc.  *)
NoFault == phase \notin Faults /\ ~obj.bad

(* A processor is in state Running exactly when it is current or queued in *)
(* _procs; add_proc relies on it to avoid "duplicate entries".  The        *)
(* current processor is not queued, and the queue of processors ends, at   *)
(* its tail.  (When no unlocked insertion is under way, as above.)         *)
RunningIffScheduled == ~Adding =>
  /\ WellFormed(ProcQ)
  /\ \A p \in Procs : InProcQ(p) => obj.pstate[p] = "Running" /\ p # curproc
  /\ \A p \in Procs : obj.pstate[p] = "Running" => p = curproc \/ InProcQ(p)

(* Ready threads are never out of the scheduler's reach: a processor that  *)
(* uses their queue is current or queued in _procs, or will be when it is  *)
(* no longer busy.  (When no unlocked insertion is under way.)             *)
NoStrandedProc == ~Adding =>
  \A p \in Procs : Owner[p] = p /\ ~Empty(obj, p) =>
     \E s \in Procs : Owner[s] = p /\ (s = curproc \/ InProcQ(s) \/ obj.pstate[s] = "Busy")

(* Every live thread is in exactly one place from which it can come back:  *)
(* running, in a ready queue, keeping its processor busy, in the queue of  *)
(* delayed threads, among the waiters of a live thread, or asleep.         *)
Accounted(t) ==
  /\ obj.tstate[t] = "Busy" => obj.bt[obj.proc[t]] = t
  /\ obj.tstate[t] = "Run" => t = cur \/ frame[t].at \in Resting
  /\ frame[t].at = "delay" => (t \in Elems(delayq) <=> obj.tstate[t] = "Run")
  /\ frame[t].at = "wait" => LET u == frame[t].tgt
                             IN  IF obj.tstate[t] = "Run"
                                 THEN t \in Elems(waiters[u]) /\ Alive(u)
                                 ELSE ~Alive(u) \/ (phase = "reap" /\ cur = u)
ThreadsAccounted == \A t \in Threads : Alive(t) => Accounted(t)

(* The scheduler gives up on its own only when nothing is left to run      *)
(* (Cluster.h: "This runs until there are no more user threads").          *)
ExitOnlyWhenIdle ==
  phase = "exit" /\ ~shutdown =>
    /\ \A t \in Threads : obj.tstate[t] \notin {"Ready", "Busy"}
    /\ delayq = <<>> /\ busyq = <<>>

(* In preemptive mode the cluster is locked whenever code outside a user   *)
(* thread's control runs, so the alarm never interrupts the scheduler (the *)
(* start, before the first thread runs, excepted).                         *)
KernelLocked == PreemptOkay /\ phase \notin {"user", "exit"} \cup Faults /\ cur # NULL => locked

(* A pDelay ends at the moment it was asked to end: not before, and time   *)
(* does not pass it.                                                       *)
DelayExact ==
  [][\A t \in Threads :
       frame[t].at = "delay" /\ obj.tstate[t] = "Run" /\ obj'.tstate[t] = "Ready"
         => now = frame[t].due]_vars

(* Time does not run backwards, and when it advances it passes the end of  *)
(* no delay and of no processor that is still busy: the next value is the  *)
(* least of them (System.h: "the smallest time value will be first").      *)
TimeSkipsNothing ==
  [][now' # now =>
       /\ now' > now
       /\ \A t \in Elems(delayq) : now' <= ThreadEnd(obj, t)
       /\ \A p \in Elems(busyq) : obj.pstate[p] = "Busy" => now' <= ProcEnd(obj, p)]_vars

(* A pBusy returns only after all the time it was asked to use has passed  *)
(* ("Loop until all time has been used").                                  *)
BusyConsumes ==
  [][\A t \in Threads : frame[t].at = "busy" /\ frame'[t].at = "user"
                          => now >= frame[t].due]_vars

(* From one round of a pBusy to the next less time is left to use.         *)
BusyShrinks ==
  [][\A t \in Threads : frame[t].at = "busy" /\ frame'[t].at = "busy" /\ frame'[t] # frame[t]
                          => frame'[t].rem < frame[t].rem]_vars

(* A thread that takes over runs at the highest priority ready on its      *)
(* processor, the thread that has just given way excepted.                 *)
PriorityRespected ==
  [][cur' # cur /\ cur' \in Threads =>
       \A u \in Threads \ {cur} :
          obj'.tstate[u] = "Ready" /\ Owner[obj'.proc[u]] = Owner[curproc']
            => obj'.prio[u] <= obj'.prio[cur']]_vars

(* What the code above the scheduler sees of it: a user thread runs only   *)
(* in its own code and while its waiters are made ready.                   *)
UserRuns(t) == t = cur /\ phase \in {"user", "reap"}
SchedState(t) ==
  CASE obj.tstate[t] = "None"  -> "none"
    [] obj.tstate[t] = "Ready" -> "ready"
    [] obj.tstate[t] = "Busy"  -> "busy"
    [] obj.tstate[t] = "Done"  -> "done"
    [] UserRuns(t)             -> "run"
    [] OTHER -> IF frame[t].at = "delay" THEN "delay" ELSE "sleep"
SchedStates == [t \in Threads |-> SchedState(t)]
SchedCur == IF UserRuns(cur) THEN cur ELSE NULL
Abstract == INSTANCE Sched WITH st <- SchedStates, cur <- SchedCur

(* The scheduler keeps the promises of Sched, on which the channels are    *)
(* built: one user thread at a time, taken from the ready ones and started *)
(* with the cluster unlocked; a blocked thread moves only when it is woken *)
(* or its time has come; a thread that has ended never runs again.         *)
ImplementsSched == Abstract!Spec

(* Under time slicing, a thread that is ready runs sooner or later, unless *)
(* it is terminated or the program ends.                                   *)
ReadyRuns ==
  \A t \in Threads :
    obj.tstate[t] = "Ready" ~> (cur = t \/ ~Alive(t) \/ phase = "exit")
=============================================================================
