------------------------------ MODULE Channels ------------------------------
(***************************************************************************)
(* Threads that communicate over channels: the read, get, write and clear  *)
(* operations of src/src/plasma.h, alt blocks as src/parser/Plasma.mc      *)
(* expands them, Timeout, ResChan, the waker threads of clocked channels   *)
(* and the reflector of Broadcaster.                                       *)
(*                                                                         *)
(* Threads run as Sched says.  An action is what one thread does from one  *)
(* access of shared state to the next.  Without preemption (the time       *)
(* model) a thread goes through them undisturbed until it blocks.  With    *)
(* preemption it may lose the processor between any two while the cluster  *)
(* is unlocked, which it is in the channel operations: plasma.h defines    *)
(* pTMutex as nothing, so the preprocessor removes it before the           *)
(* translator could wrap the classes in pLock() and pUnlock().             *)
(*                                                                         *)
(* A program is a menu of operations per thread; each thread makes up to   *)
(* MaxOps calls in any order and may end after any of them.                *)
(***************************************************************************)
EXTENDS ChanSupport, FiniteSets, SequencesExt

CONSTANTS Users,      \* Threads of the program.
          Chans,      \* Channel objects with a writer side.
          Timeouts,   \* Timeout objects.
          Results,    \* ResChan objects.
          ResThread,  \* ResThread[r]: the spawned thread whose result r delivers.
          Delay,      \* Delay[o]: Timeout::_delay.
          Programs,   \* Channel classes and menus that are explored.
          MaxOps      \* Bound: calls each thread makes.

(* A waker thread serves one reader of one clocked channel; a timer thread *)
(* serves one Timeout.                                                     *)
WakerOf(c, t) == <<c, t>>
TimerOf(o) == <<o, o>>
Helpers == {WakerOf(c, t) : c \in Chans, t \in Users} \cup {TimerOf(o) : o \in Timeouts}
Threads == Users \cup Helpers

(* What a program consists of: a class for every channel and a menu of     *)
(* calls for every thread, each on an object of the type that has it.      *)
Ports == Chans \cup Timeouts \cup Results
ChanOps == {"write", "get", "read", "clear", "clear_ready", "reflect"}
ResOps == {"res_get", "res_read", "res_clear"}
AltOps == {"alt", "prialt"}
Classes == [kind : {"chan", "busy", "queue", "clock"}, multi : BOOLEAN, size : Nat,
            period : Nat, skew : Nat]
Calls ==
  {o \in [op : ChanOps \cup ResOps \cup AltOps \cup {"to_get", "delay"}, ch : Ports \cup {NULL},
          ports : Seq(Ports), bind : BOOLEAN, dflt : BOOLEAN, d : Nat] :
     /\ o.op \in ChanOps => o.ch \in Chans
     /\ o.op \in ResOps => o.ch \in Results
     /\ o.op = "to_get" => o.ch \in Timeouts
     /\ o.op = "reflect" => o.ports \in Seq(Chans)}

ASSUME ChannelsAssumption ==
  /\ ResThread \in [Results -> Users] /\ Delay \in [Timeouts -> Nat \ {0}]
  /\ MaxOps \in Nat
  /\ Programs \subseteq [class : [Chans -> Classes], menu : [Users -> SUBSET Calls]]
  /\ \A p \in Programs, c \in Chans : LET k == p.class[c] IN k.period > 0 => k.skew < k.period

(* The objects are distinct.                                               *)
ASSUME DistinctObjects ==
  /\ NULL \notin Users \cup Ports /\ Users \cap Helpers = {} /\ NULL \notin Helpers
  /\ Chans \cap Timeouts = {} /\ Chans \cap Results = {} /\ Timeouts \cap Results = {}

VARIABLES
  prog,   \* The program that runs.
  cur,    \* The thread that runs, or NULL.
  w,      \* Scheduler and channel state, see below.
  f,      \* f[t]: the stack frame of user thread t.
  now,    \* The simulation time.
  left,   \* left[t]: calls t may still make.
  got     \* got[c]: history of the values consumed from c.

(* w.st[t], w.locked: as in Sched.  w.due[t]: the end of t's pDelay.       *)
(* w.ch[c]: channel c.  w.to[o]: Timeout o (_ready, _readt, _writet # 0).  *)
(* w.res[r]: ResChan r (_rt, _read).  w.waiters[t]: Thread::_waiters.      *)
(* w.fault: an assertion, a read of an empty store, or a wake-up that the  *)
(* scheduler does not allow.                                               *)
vars == <<prog, cur, w, f, now, left, got>>

Class(c) == prog.class[c]

(* The frame: where the thread is, the operation it performs and on which  *)
(* channel, the port or sink it has come to, the value it holds, where the *)
(* channel operation returns to and, as history, when an alt began.        *)
NoOp == [op |-> "none", ch |-> NULL, ports |-> <<>>, bind |-> FALSE, dflt |-> FALSE, d |-> 0]
Rest == [pc |-> "idle", op |-> NoOp, ch |-> NULL, idx |-> 0, val |-> NULL, ret |-> "idle",
         since |-> 0]

Init ==
  /\ prog \in Programs
  /\ cur = NULL
  /\ w = [st |-> [t \in Threads |-> IF t \in Users THEN "ready" ELSE "none"],
          locked |-> FALSE, fault |-> "none",
          due |-> [t \in Threads |-> 0],
          ch |-> [c \in Chans |-> Fresh],
          to |-> [o \in Timeouts |-> [ready |-> FALSE, readt |-> NULL, writet |-> FALSE]],
          res |-> [r \in Results |-> [rt |-> NULL, read |-> FALSE]],
          waiters |-> [t \in Users |-> <<>>]]
  /\ f = [t \in Users |-> Rest]
  /\ now = 0
  /\ left = [t \in Users |-> MaxOps]
  /\ got = [c \in Chans |-> <<>>]

-----------------------------------------------------------------------------
(* The scheduler calls the channels make, as operators on w.               *)

Fail(s, what) == [s EXCEPT !.fault = what]
Unlocked(s) == [s EXCEPT !.locked = FALSE]

(* pAddReady.  Its contract, and that of pWake, is that the thread sleeps  *)
(* by pSleep, is ready or has ended (MayWake of Kernel).                   *)
AddReady(s, t) ==
  CASE t = NULL -> Fail(s, "null_wake")
    [] t # NULL /\ s.st[t] = "sleep" -> [s EXCEPT !.st[t] = "ready"]
    [] t # NULL /\ s.st[t] \in {"ready", "done"} -> s
    [] OTHER -> Fail(s, "bad_wake")

(* The loop of terminate() over the waiters of a thread: pAddReady of each.*)
WakeAll(s, T) ==
  IF \A t \in T : s.st[t] \in {"sleep", "ready", "done"}
  THEN [s EXCEPT !.st = [t \in Threads |-> IF t \in T /\ s.st[t] = "sleep" THEN "ready"
                                           ELSE s.st[t]]]
  ELSE Fail(s, "bad_wake")

(* pWake unlocks the cluster whoever has locked it.                        *)
Wake(s, t) == Unlocked(AddReady(s, t))

(* pBusyWake ends a pBusySleep.                                            *)
BusyWake(s, t) ==
  IF s.st[t] = "busy" THEN [Unlocked(s) EXCEPT !.st[t] = "ready"] ELSE Fail(s, "bad_wake")

(* pSpawn of a helper thread, and pTerminate of one.                       *)
Spawn(s, h) == [Unlocked(s) EXCEPT !.st[h] = "ready", !.due[h] = 0]
Terminate(s, h) == [Unlocked(s) EXCEPT !.st[h] = "done"]

(* notify_reader() takes out one of the registered readers: the only one,  *)
(* or "in a non-deterministic fashion" the first of a hash set.            *)
Unregister(s, c, r) == [s EXCEPT !.ch[c].readers = @ \ {r}, !.ch[c].wakers = @ \ {r}]

(* pAddReady(next_writer()), if there is one.                              *)
LetWriterIn(s, c) ==
  IF HaveWriters(s.ch[c])
  THEN AddReady([s EXCEPT !.ch[c] = PopWriter(@)], Head(s.ch[c].writers)) ELSE s

-----------------------------------------------------------------------------
(* Clocked channels: wake the reader on the right edge.                    *)

StartWaker(s, c, r) ==
  IF r \in s.ch[c].wakers THEN s
  ELSE Spawn([s EXCEPT !.ch[c].wakers = @ \cup {r}], WakerOf(c, r))

CancelWaker(s, c, r) ==
  IF r \in s.ch[c].wakers
  THEN Terminate([s EXCEPT !.ch[c].wakers = @ \ {r}], WakerOf(c, r)) ELSE s

(* Mutant of DelayedWakeup: the waker thread is not cancelled.             *)
DelayedWakeupKeep(s, c, r) ==
  LET k == Class(c) IN
  IF (IsPhi(k, now) /\ CurrentData(k, s.ch[c], now)) \/ k.period = 0
  THEN Wake(Unregister(s, c, r), r)
  ELSE StartWaker(s, c, r)

DelayedWakeup(s, c, r) ==
  LET k == Class(c) IN
  IF (IsPhi(k, now) /\ CurrentData(k, s.ch[c], now)) \/ k.period = 0
  THEN Wake(Unregister(CancelWaker(s, c, r), c, r), r)
  ELSE StartWaker(s, c, r)

(* What write() does for a waiting reader r.                               *)
NotifyReader(s, c, r) ==
  CASE Class(c).kind = "clock" -> DelayedWakeup(s, c, r)
    [] Class(c).kind = "busy"  -> BusyWake(Unregister(s, c, r), r)
    [] OTHER                   -> Wake(Unregister(s, c, r), r)

-----------------------------------------------------------------------------
(* The interface an alt block uses, for each kind of port.                 *)

PortReady(p) ==
  CASE p \in Chans    -> Ready(Class(p), w.ch[p], now)
    [] p \in Timeouts -> w.to[p].ready
    [] p \in Results  -> w.st[ResThread[p]] = "done" /\ ~w.res[p].read

(* set_notify(): a single-consumer class asserts that no one is            *)
(* registered.  A clocked channel that holds data starts a waker, a        *)
(* Timeout its timer.  (ChanSetNotifyIdle is a mutant: no waker.)          *)
ChanSetNotifyIdle(s, c, t) ==
  IF ~Class(c).multi /\ HaveReader(s.ch[c]) THEN Fail(s, "assert_readt")
  ELSE [s EXCEPT !.ch[c].readers = @ \cup {t}]

ChanSetNotify(s, c, t) ==
  LET x == [s EXCEPT !.ch[c].readers = @ \cup {t}]
  IN  IF ~Class(c).multi /\ HaveReader(s.ch[c]) THEN Fail(s, "assert_readt")
      ELSE IF Class(c).kind = "clock" /\ ~IsEmpty(s.ch[c]) THEN StartWaker(x, c, t) ELSE x

ToSetNotify(s, o, t) ==
  IF s.to[o].writet THEN Fail(s, "assert_writet")
  ELSE Spawn([s EXCEPT !.to[o] = [ready |-> FALSE, readt |-> t, writet |-> TRUE]], TimerOf(o))

ResSetNotify(s, r, t) ==
  IF s.res[r].rt # NULL THEN Fail(s, "assert_rt")
  ELSE [s EXCEPT !.res[r].rt = t, !.waiters[ResThread[r]] = Append(@, t)]

SetNotify(s, p, t) ==
  CASE p \in Chans    -> ChanSetNotify(s, p, t)
    [] p \in Timeouts -> ToSetNotify(s, p, t)
    [] p \in Results  -> ResSetNotify(s, p, t)

(* clear_notify(), called by t: a single-consumer class forgets whoever is *)
(* registered, a multi-consumer one only t; erasing the end() of a hash    *)
(* table that no longer holds t changes nothing.                           *)
ChanClearNotify(s, c, t) ==
  LET gone == IF Class(c).multi THEN {t} ELSE s.ch[c].readers
      x == IF gone \cap s.ch[c].wakers = {} THEN s
           ELSE CancelWaker(s, c, CHOOSE r \in gone \cap s.ch[c].wakers : TRUE)
  IN  [x EXCEPT !.ch[c].readers = @ \ gone]

(* Mutant of ToClearNotify: the timer thread is left running.              *)
ToClearNotifyKeep(s, o) == [s EXCEPT !.to[o].readt = NULL, !.to[o].writet = FALSE]

ToClearNotify(s, o) ==
  LET x == IF s.to[o].writet THEN Terminate(s, TimerOf(o)) ELSE s
  IN  [x EXCEPT !.to[o].readt = NULL, !.to[o].writet = FALSE]

(* pClearWaiter, the first entry of the waiting thread.                    *)
ResClearNotify(s, r) ==
  [s EXCEPT !.res[r].rt = NULL, !.waiters[ResThread[r]] = RemoveFirst(@, s.res[r].rt)]

ClearNotify(s, p, t) ==
  CASE p \in Chans    -> ChanClearNotify(s, p, t)
    [] p \in Timeouts -> ToClearNotify(s, p)
    [] p \in Results  -> ResClearNotify(s, p)

-----------------------------------------------------------------------------
(* Steps of the running thread.                                            *)

At(t, pcs) == cur = t /\ f[t].pc \in pcs /\ w.fault = "none"
Goto(t, p) == f' = [f EXCEPT ![t] = IF p = "idle" THEN Rest ELSE [@ EXCEPT !.pc = p]]
Quiet == UNCHANGED <<prog, now, left, got>>
Keeps == UNCHANGED cur /\ Quiet

(* The thread blocks; whatever runs next finds the cluster unlocked.       *)
BlockIn(s, t, how) == cur' = NULL /\ w' = [Unlocked(s) EXCEPT !.st[t] = how]

Entry(o) == CASE o.op = "write"              -> "w_notify"
              [] o.op \in {"get", "read"}    -> "r_writer"
              [] o.op \in {"alt", "prialt"}  -> "a_lock"
              [] OTHER                       -> o.op

Start(t, o) ==
  /\ At(t, {"idle"}) /\ left[t] > 0 /\ o \in prog.menu[t]
  /\ f' = [f EXCEPT ![t] = [Rest EXCEPT !.pc = Entry(o), !.op = o, !.ch = o.ch, !.idx = 1,
                                        !.val = IF o.op = "write" THEN <<t, left[t]>> ELSE NULL,
                                        !.since = IF o.ports # <<>> THEN now ELSE 0]]
  /\ left' = [left EXCEPT ![t] = @ - 1]
  /\ UNCHANGED <<prog, cur, w, now, got>>

(* The thread ends: terminate() makes its waiters ready.                   *)
End(t) ==
  /\ At(t, {"idle"})
  /\ BlockIn([WakeAll(w, ToSet(w.waiters[t])) EXCEPT !.waiters[t] = <<>>], t, "done")
  /\ UNCHANGED f /\ Quiet

DelayCall(t) ==
  /\ At(t, {"delay"})
  /\ BlockIn([w EXCEPT !.due[t] = now + f[t].op.d], t, "delay")
  /\ Goto(t, "idle") /\ Quiet

(* Where a thread goes on after pSleep (pBusySleep in a BusyChan).         *)
Sleeps == {"w_sleep", "held_sleep", "r_sleep", "a_sleep"}
Woken(p) == CASE p = "w_sleep" -> "w_full"  [] p = "held_sleep" -> "w_held"
              [] p = "r_sleep" -> "r_woken" [] p = "a_sleep"    -> "a_relock"
Sleep(t) ==
  /\ At(t, Sleeps)
  /\ LET busy == f[t].pc = "r_sleep" /\ Class(f[t].ch).kind = "busy"
     IN  BlockIn(w, t, IF busy THEN "busy" ELSE "sleep")
  /\ Goto(t, Woken(f[t].pc)) /\ Quiet

-----------------------------------------------------------------------------
(* write()                                                                 *)

(* "If we have a waiting reader, wake it up", before and, "if one appeared *)
(* while we were asleep", after the item is stored.                        *)
WriteNotify(t) ==
  /\ At(t, {"w_notify", "w_again"})
  /\ LET c == f[t].ch IN
     /\ IF HaveReader(w.ch[c]) THEN \E r \in w.ch[c].readers : w' = NotifyReader(w, c, r)
        ELSE w' = w
     /\ Goto(t, IF f[t].pc = "w_notify" THEN "w_full"
                ELSE IF Interlocked(Class(c)) THEN "w_held" ELSE f[t].ret)
  /\ Keeps

(* "Sleep if queue is full.  This is a loop ..."                           *)
WriteFull(t) ==
  /\ At(t, {"w_full"})
  /\ LET c == f[t].ch IN
     IF Full(Class(c), w.ch[c])
     THEN w' = [w EXCEPT !.ch[c] = SetWriteNotify(@, t)] /\ Goto(t, "w_sleep")
     ELSE w' = w /\ Goto(t, "w_store")
  /\ Keeps

WriteStore(t) ==
  /\ At(t, {"w_store"})
  /\ LET c == f[t].ch
         x == [w EXCEPT !.ch[c] = Stored(Class(c), @, f[t].val, now)]
     IN  w' = IF SizeOK(Class(c), x.ch[c]) THEN x ELSE Fail(x, "assert_size")
  /\ Goto(t, "w_again") /\ Keeps

(* "If we're fully interlocked, wait here until a reader gets the data",   *)
(* first in line; then let another writer in.                              *)
WriteHeld(t) ==
  /\ At(t, {"w_held"})
  /\ LET c == f[t].ch IN
     IF ~IsEmpty(w.ch[c])
     THEN w' = [w EXCEPT !.ch[c] = PushWriter(@, t)] /\ Goto(t, "held_sleep")
     ELSE w' = LetWriterIn(w, c) /\ Goto(t, f[t].ret)
  /\ Keeps

-----------------------------------------------------------------------------
(* read_internal(): get() consumes the item, read() leaves it.             *)

Consumes(t) == f[t].op.op # "read"

(* Wake a writer, before waiting for data (a clocked channel: if it will   *)
(* not wait) and again after the item is taken.                            *)
ReadWriter(t) ==
  /\ At(t, {"r_writer"})
  /\ LET c == f[t].ch IN
     w' = IF Consumes(t) /\ (Class(c).kind = "clock" => Ready(Class(c), w.ch[c], now))
          THEN LetWriterIn(w, c) ELSE w
  /\ Goto(t, "r_ready") /\ Keeps

ReadReady(t) ==
  /\ At(t, {"r_ready"})
  /\ LET c == f[t].ch IN
     IF Ready(Class(c), w.ch[c], now) THEN w' = w /\ Goto(t, "r_take")
     ELSE w' = ChanSetNotify(w, c, t) /\ Goto(t, "r_sleep")
  /\ Keeps

(* Awake again: Channel and the multi-consumer ClockChan deregister, and   *)
(* both clocked kinds and Channel look again; QueueChan and BusyChan take  *)
(* it that there is data.                                                  *)
ReadWoken(t) ==
  /\ At(t, {"r_woken"})
  /\ LET c == f[t].ch
         k == Class(c)
     IN  /\ w' = IF k.kind = "chan" \/ (k.kind = "clock" /\ k.multi)
                 THEN ChanClearNotify(w, c, t) ELSE w
         /\ Goto(t, IF k.kind \in {"chan", "clock"} THEN "r_ready" ELSE "r_take")
  /\ Keeps

(* The item is copied and, by get(), removed.  back() of an empty store is *)
(* undefined; a one-item channel returns what it holds, which it reads     *)
(* when it returns.                                                        *)
ReadTake(t) ==
  /\ At(t, {"r_take"})
  /\ LET c == f[t].ch
         x == w.ch[c]
         v == IF OneItem(Class(c)) THEN x.data ELSE Head(x.store).v
     IN  IF IsEmpty(x) /\ ~OneItem(Class(c))
         THEN w' = Fail(w, "empty_read") /\ UNCHANGED <<f, got>>
         ELSE /\ w' = IF Consumes(t) THEN [w EXCEPT !.ch[c] = ClearReady(@)] ELSE w
              /\ got' = IF Consumes(t) THEN [got EXCEPT ![c] = Append(@, v)] ELSE got
              /\ f' = [f EXCEPT ![t].pc = "r_again", ![t].val = v]
  /\ UNCHANGED <<prog, cur, now, left>>

(* Mutant of ReadReturn: the writers are not looked at again.              *)
ReadReturnEarly(t) ==
  /\ At(t, {"r_again"})
  /\ w' = w /\ Goto(t, f[t].ret) /\ Keeps

ReadReturn(t) ==
  /\ At(t, {"r_again"})
  /\ LET c == f[t].ch
     IN  /\ w' = IF Consumes(t) THEN LetWriterIn(w, c) ELSE w
         /\ IF OneItem(Class(c)) /\ f[t].ret # "idle"
            THEN f' = [f EXCEPT ![t].pc = f[t].ret, ![t].val = w.ch[c].data]
            ELSE Goto(t, f[t].ret)
  /\ Keeps

(* clear() and clear_ready().  Only the clocked clear() wakes a writer;    *)
(* those of the one-item channels lock and unlock.                         *)
ClearChan(s, c) ==
  LET x == [s EXCEPT !.ch[c] = ClearAll(@)]
  IN  CASE OneItem(Class(c))       -> Unlocked(x)
        [] Class(c).kind = "queue" -> x
        [] Class(c).kind = "clock" -> LetWriterIn(x, c)

Clear(t) ==
  /\ At(t, {"clear", "clear_ready"})
  /\ LET c == f[t].ch IN
     w' = IF f[t].pc = "clear" \/ OneItem(Class(c)) THEN ClearChan(w, c)
          ELSE [w EXCEPT !.ch[c] = ClearReady(@)]
  /\ Goto(t, f[t].ret) /\ Keeps

-----------------------------------------------------------------------------
(* Timeout and ResChan.                                                    *)

(* Timeout::get(): starts the timer of a Timeout that is not ready, but    *)
(* does not wait for it.                                                   *)
ToGet(t) ==
  /\ At(t, {"to_get"})
  /\ LET o == f[t].ch
         x == IF w.to[o].ready THEN w ELSE ToSetNotify(w, o, t)
     IN  w' = [Unlocked(x) EXCEPT !.to[o].ready = FALSE]
  /\ Goto(t, f[t].ret) /\ Keeps

(* ResChan::get() and read(): value() waits for the thread to end.         *)
ResGet(t) ==
  /\ At(t, {"res_get", "res_read"})
  /\ LET r == f[t].ch
         x == IF f[t].pc = "res_get" THEN [w EXCEPT !.res[r].read = TRUE] ELSE w
     IN  IF w.st[ResThread[r]] = "done" THEN w' = Unlocked(x) /\ cur' = cur
         ELSE BlockIn([x EXCEPT !.waiters[ResThread[r]] = Append(@, t)], t, "sleep")
  /\ Goto(t, f[t].ret) /\ Quiet

(* ResChan::clear_ready(): ready() may be true again.                      *)
ResClear(t) ==
  /\ At(t, {"res_clear"})
  /\ w' = [w EXCEPT !.res[f[t].ch].read = FALSE]
  /\ Goto(t, "idle") /\ Keeps

-----------------------------------------------------------------------------
(* An alt block, as generateAltBlock() and generateAltBody() expand it.    *)

(* parseAltBody(): the ports of an alt are queried in reverse, those of a  *)
(* prialt in order.                                                        *)
AltPorts(t) == IF f[t].op.op = "alt" THEN Reverse(f[t].op.ports) ELSE f[t].op.ports
AtEnd(t) == f[t].idx > Len(AltPorts(t))
Port(t) == AltPorts(t)[f[t].idx]
NextPort(t) == f' = [f EXCEPT ![t].idx = @ + 1]
FirstPort(t, p) == f' = [f EXCEPT ![t].pc = p, ![t].idx = 1]

(* pLock(), on entry and after pSleep().                                   *)
AltLock(t) ==
  /\ At(t, {"a_lock", "a_relock"})
  /\ w' = [w EXCEPT !.locked = TRUE]
  /\ FirstPort(t, IF f[t].pc = "a_lock" THEN "a_scan" ELSE "a_clear")
  /\ Keeps

(* A port that is ready is taken.  With none ready the default block runs  *)
(* or the thread asks to be notified.                                      *)
AltScan(t) ==
  /\ At(t, {"a_scan"})
  /\ IF AtEnd(t) THEN FirstPort(t, IF f[t].op.dflt THEN "a_unlock" ELSE "a_register")
     ELSE IF PortReady(Port(t)) THEN Goto(t, "a_get") ELSE NextPort(t)
  /\ UNCHANGED w /\ Keeps

(* Mutant of AltRegister: the last port is left out.                       *)
AltRegisterShort(t) ==
  /\ At(t, {"a_register"})
  /\ IF f[t].idx >= Len(AltPorts(t)) THEN w' = w /\ Goto(t, "a_sleep")
     ELSE w' = SetNotify(w, Port(t), t) /\ NextPort(t)
  /\ Keeps

AltRegister(t) ==
  /\ At(t, {"a_register"})
  /\ IF AtEnd(t) THEN w' = w /\ Goto(t, "a_sleep")
     ELSE w' = SetNotify(w, Port(t), t) /\ NextPort(t)
  /\ Keeps

(* Mutant of AltClear: only the first port is cleared.                     *)
AltClearFirst(t) ==
  /\ At(t, {"a_clear"})
  /\ IF f[t].idx = 2 THEN w' = w /\ FirstPort(t, "a_scan")
     ELSE w' = ClearNotify(w, Port(t), t) /\ NextPort(t)
  /\ Keeps

(* "Clear all notification, since we have a value", and look again.        *)
AltClear(t) ==
  /\ At(t, {"a_clear"})
  /\ IF AtEnd(t) THEN w' = w /\ FirstPort(t, "a_scan")
     ELSE w' = ClearNotify(w, Port(t), t) /\ NextPort(t)
  /\ Keeps

(* get() of the port that was found ready.                                 *)
AltGet(t) ==
  /\ At(t, {"a_get"})
  /\ f' = [f EXCEPT ![t].ch = Port(t), ![t].ret = "a_unlock",
                    ![t].pc = CASE Port(t) \in Chans    -> "r_writer"
                                [] Port(t) \in Timeouts -> "to_get"
                                [] Port(t) \in Results  -> "res_get"]
  /\ UNCHANGED w /\ Keeps

(* A port that binds a value unlocks the cluster, and so does the default  *)
(* block, which no get() precedes; a port without a value does not.        *)
AltUnlock(t) ==
  /\ At(t, {"a_unlock"})
  /\ w' = IF f[t].op.bind \/ f[t].ret # "a_unlock" THEN Unlocked(w) ELSE w
  /\ Goto(t, "idle") /\ Keeps

-----------------------------------------------------------------------------
(* Broadcaster::reflect(): get from the source, write to every sink, which *)
(* is cleared first if the program says so, and start over.                *)

Sink(t) == f[t].op.ports[f[t].idx]

(* Mutant of Reflect: the sinks are always cleared.                        *)
ReflectClears(t) ==
  /\ At(t, {"reflect", "b_next"})
  /\ IF f[t].pc = "reflect" \/ AtEnd(t)
     THEN /\ f' = [f EXCEPT ![t].pc = "r_writer", ![t].ch = f[t].op.ch, ![t].ret = "b_next",
                            ![t].idx = 1]
          /\ w' = w
     ELSE /\ f' = [f EXCEPT ![t].pc = "w_notify", ![t].ch = Sink(t), ![t].idx = @ + 1]
          /\ w' = ClearChan(w, Sink(t))
  /\ Keeps

Reflect(t) ==
  /\ At(t, {"reflect", "b_next"})
  /\ IF f[t].pc = "reflect" \/ AtEnd(t)
     THEN /\ f' = [f EXCEPT ![t].pc = "r_writer", ![t].ch = f[t].op.ch, ![t].ret = "b_next",
                            ![t].idx = 1]
          /\ w' = w
     ELSE /\ f' = [f EXCEPT ![t].pc = "w_notify", ![t].ch = Sink(t), ![t].idx = @ + 1]
          /\ w' = IF f[t].op.bind THEN ClearChan(w, Sink(t)) ELSE w
  /\ Keeps

-----------------------------------------------------------------------------
(* The helper threads.  A waker was given the time to the next edge when   *)
(* it was spawned, which is the time it starts at: time stands still while *)
(* a thread is ready.                                                      *)

Runs(h) == cur = h /\ h \in Helpers /\ w.fault = "none"

HelperDelay(h) ==
  /\ Runs(h) /\ w.due[h] = 0
  /\ LET d == IF h[1] \in Timeouts THEN now + Delay[h[1]] ELSE NextPhi(Class(h[1]), now)
     IN  BlockIn([w EXCEPT !.due[h] = d], h, "delay")
  /\ UNCHANGED f /\ Quiet

(* timeout(), sc_delayed_waker() and mc_delayed_waker() after their        *)
(* pDelay: pWake(reset()).                                                 *)
HelperFire(h) ==
  /\ Runs(h) /\ w.due[h] # 0
  /\ LET c == h[1]
         x == IF c \in Timeouts
              THEN Wake([w EXCEPT !.to[c].ready = TRUE, !.to[c].readt = NULL], w.to[c].readt)
              ELSE Wake(Unregister(w, c, h[2]),
                        IF h[2] \in w.ch[c].readers THEN h[2] ELSE NULL)
     IN  BlockIn(x, h, "done")
  /\ UNCHANGED f /\ Quiet

-----------------------------------------------------------------------------
(* The scheduler.                                                          *)

ReadyThreads == {t \in Threads : w.st[t] = "ready"}
Delayed == {t \in Threads : w.st[t] = "delay"}

Dispatch(t) ==
  /\ cur = NULL /\ t \in ReadyThreads /\ w.fault = "none"
  /\ cur' = t /\ w' = [Unlocked(w) EXCEPT !.st[t] = "run"]
  /\ UNCHANGED f /\ Quiet

(* The alarm, in preemptive mode.  Timers and the wakers of single-        *)
(* consumer channels run at the highest priority, which is not time-sliced;*)
(* a waker of a multi-consumer channel has the priority of its creator.    *)
Sliced(t) ==
  t \in Users \cup {WakerOf(c, u) : c \in {d \in Chans : Class(d).multi}, u \in Users}

Preempt ==
  /\ cur # NULL /\ Sliced(cur) /\ ~w.locked /\ w.fault = "none"
  /\ cur' = NULL /\ w' = [w EXCEPT !.st[cur] = "ready"]
  /\ UNCHANGED f /\ Quiet

(* Time moves to the first end of a delay when no thread is ready.         *)
Advance ==
  /\ cur = NULL /\ ReadyThreads = {} /\ Delayed # {} /\ w.fault = "none"
  /\ now' = Min({w.due[t] : t \in Delayed})
  /\ w' = [w EXCEPT !.st = [t \in Threads |-> IF t \in Delayed /\ w.due[t] = now'
                                               THEN "ready" ELSE w.st[t]]]
  /\ UNCHANGED <<prog, cur, f, left, got>>

Run(t) ==
  \/ (\E o \in prog.menu[t] : Start(t, o)) \/ End(t) \/ DelayCall(t) \/ Sleep(t)
  \/ WriteNotify(t) \/ WriteFull(t) \/ WriteStore(t) \/ WriteHeld(t)
  \/ ReadWriter(t) \/ ReadReady(t) \/ ReadWoken(t) \/ ReadTake(t) \/ ReadReturn(t) \/ Clear(t)
  \/ ToGet(t) \/ ResGet(t) \/ ResClear(t)
  \/ AltLock(t) \/ AltScan(t) \/ AltRegister(t) \/ AltClear(t) \/ AltGet(t) \/ AltUnlock(t)
  \/ Reflect(t)

Next == \/ \E t \in Users : Run(t)
        \/ \E h \in Helpers : HelperDelay(h) \/ HelperFire(h)
        \/ \E t \in Threads : Dispatch(t)
        \/ Advance

Spec == Init /\ [][Next]_vars

(* The program is always resumed: the process runs, and one thread or the  *)
(* scheduler always goes on.                                               *)
FairSpec == Spec /\ WF_vars(Next)

(* Preemption as far as it is modelled here: the alarm strikes between two *)
(* actions, not within one.  In the code it may also strike between a      *)
(* pSpawn of a helper and the assignment of its handle.  So PreemptSpec    *)
(* has only some of the behaviours of preemptive mode: it serves to show   *)
(* what goes wrong there, never that something does not.                   *)
PreemptSpec == Init /\ [][Next \/ Preempt]_vars

-----------------------------------------------------------------------------
(* What a call reads from and what it empties, and the programs that keep  *)
(* to the rules of the classes: a single-consumer class has one consumer;  *)
(* QueueChan and BusyChan, which do not look again when they are woken,    *)
(* are emptied by no other thread; a Timeout or ResChan is in the alts of  *)
(* one thread; an alt names a port once and no BusyChan, and Timeout::get()*)
(* is only called by an alt.                                               *)
ReadsFrom(o) == IF o.op \in {"get", "read", "reflect"} THEN {o.ch}
                ELSE IF o.op \in AltOps THEN ToSet(o.ports) ELSE {}
Empties(o) == IF o.op \in {"clear", "clear_ready"} THEN {o.ch}
              ELSE IF o.op = "reflect" /\ o.bind THEN ToSet(o.ports) ELSE {}
LooksAgain(k) == k.kind \in {"chan", "clock"}
Proper(p) ==
  \A t \in Users : \A o \in p.menu[t] :
    /\ o.op # "to_get"
    /\ o.op \in AltOps =>
         /\ IsInjective(o.ports)
         /\ \A x \in ToSet(o.ports) \cap Chans : p.class[x].kind # "busy"
    /\ \A u \in Users : \A q \in p.menu[u] : \A x \in ReadsFrom(o) :
         /\ x \in ReadsFrom(q) =>
              t = u \/ (x \in Chans /\ p.class[x].multi /\ LooksAgain(p.class[x]))
         /\ x \in Empties(q) => t = u \/ LooksAgain(p.class[x])

(* The ResChans are of different threads, and every program is proper.     *)
OwnResults == \A p, q \in Results : ResThread[p] = ResThread[q] => p = q
ByTheRules == OwnResults /\ \A p \in Programs : Proper(p)

(* The programs in which a Broadcaster has its channels to itself: its     *)
(* reflector is the only reader of its source and the only writer of its   *)
(* sinks, which are different channels and emptied only if it empties them *)
(* too.                                                                    *)
Fills(o) == IF o.op = "write" THEN {o.ch}
            ELSE IF o.op = "reflect" THEN ToSet(o.ports) ELSE {}
OwnSinks(p) ==
  \A t \in Users : \A o \in p.menu[t] : o.op = "reflect" =>
    /\ IsInjective(o.ports) /\ o.ch \notin ToSet(o.ports)
    /\ \A u \in Users : \A q \in p.menu[u] :
         /\ o.ch \in ReadsFrom(q) => u = t /\ q = o
         /\ \A c \in ToSet(o.ports) : /\ c \in Fills(q) => u = t /\ q = o
                                      /\ c \in Empties(q) => o.bind

-----------------------------------------------------------------------------
(* Properties.                                                             *)

Live == {"ready", "run", "delay", "sleep", "busy"}

(* Nothing is left to do: no thread is ready or delayed.                   *)
AtRest == cur = NULL /\ ReadyThreads = {} /\ Delayed = {}

Blocked(t) == w.st[t] \in {"sleep", "busy"}
PortsOf(t) == ToSet(f[t].op.ports)

(* The threads that wait for an item of c in a read or an alt block.       *)
AwaitsIn(t, c) == \/ f[t].pc \in {"r_sleep", "r_woken"} /\ f[t].ch = c
                  \/ f[t].pc \in {"a_register", "a_sleep", "a_relock", "a_clear"}
                     /\ f[t].op.op # "reflect" /\ c \in PortsOf(t)

TypeOK ==
  /\ prog \in Programs /\ cur \in Threads \cup {NULL} /\ now \in Nat
  /\ left \in [Users -> 0..MaxOps]
  /\ w.st \in [Threads -> Live \cup {"none", "done"}] /\ w.due \in [Threads -> Nat]
  /\ w.locked \in BOOLEAN
  /\ \A c \in Chans : w.ch[c].readers \subseteq Users /\ ToSet(w.ch[c].writers) \subseteq Users
  /\ \A o \in Timeouts : w.to[o].readt \in Users \cup {NULL}
  /\ \A t \in Threads : w.st[t] = "run" <=> cur = t

(* No assertion of the channel classes fails, no store is read empty, and  *)
(* no thread is woken that does not sleep: pWake(), pAddReady() and        *)
(* pBusyWake() of a thread that runs, is delayed or is not there corrupt   *)
(* the ready queues.                                                       *)
NoFault == w.fault = "none"

(* When nothing is left to run, no reader sleeps on a channel that holds   *)
(* an item, no alt block on a ready port, no writer on a channel with      *)
(* room, and no interlocked writer on an item that has been read: every    *)
(* wake-up of read(), write() and the wakers arrived.                      *)
NoLostWakeup ==
  AtRest => \A t \in Users : Blocked(t) =>
    /\ \A c \in Chans : AwaitsIn(t, c) => IsEmpty(w.ch[c])
    /\ f[t].pc = "a_relock" => \A p \in PortsOf(t) : ~PortReady(p)
    /\ f[t].pc = "w_full" => Full(Class(f[t].ch), w.ch[f[t].ch])
    /\ f[t].pc = "w_held" => \E i \in DOMAIN w.ch[f[t].ch].store :
                               w.ch[f[t].ch].store[i].v = f[t].val

(* No thread is left in an alt block that has a Timeout among its ports:   *)
(* the timer of every set_notify() fires or is cancelled by the thread     *)
(* that has left the block.                                                *)
TimeoutEndsAlt ==
  AtRest => \A t \in Users : Blocked(t) /\ f[t].pc = "a_relock" => PortsOf(t) \cap Timeouts = {}

(* A thread is registered with a channel only while it waits for it, so    *)
(* that no item is ever announced to a thread that has gone on to          *)
(* something else.                                                         *)
NoStaleReader ==
  /\ \A c \in Chans : \A r \in w.ch[c].readers : AwaitsIn(r, c)
  /\ \A o \in Timeouts : w.to[o].readt # NULL => AwaitsIn(w.to[o].readt, o)
  /\ \A t \in Users : \A r \in ToSet(w.waiters[t]) :
       Blocked(r) \/ \E p \in Results : ResThread[p] = t /\ AwaitsIn(r, p)

(* A waker or timer is under way exactly for the threads it is to wake:    *)
(* none is left running after its reader was served by another port, and   *)
(* none fires for a reader that has gone.                                  *)
HelpersAccounted ==
  /\ \A c \in Chans, r \in Users :
       w.st[WakerOf(c, r)] \in Live <=> r \in w.ch[c].wakers
  /\ \A c \in Chans : w.ch[c].wakers \subseteq w.ch[c].readers
  /\ \A o \in Timeouts : w.st[TimerOf(o)] \in Live =>
       w.to[o].writet /\ w.to[o].readt # NULL

(* Every channel is a bounded FIFO: no item is lost, duplicated,           *)
(* reordered or overwritten, whatever the interleaving of producers and    *)
(* consumers.  (Bounded(c)!Spec for every c, its parts under one box each.)*)
Values(c) == [i \in DOMAIN w.ch[c].store |-> w.ch[c].store[i].v]
Capacity(c) == IF OneItem(Class(c)) \/ Interlocked(Class(c)) THEN 1 ELSE Class(c).size
Bounded(c) == INSTANCE BoundedChan WITH cap <- Capacity(c), buf <- Values(c), got <- got[c]
ImplementsChan == /\ \A c \in Chans : Bounded(c)!Init
                  /\ [][\A c \in Chans : Bounded(c)!Step]_vars

(* Time never passes a clock edge at which a waiting reader could have     *)
(* read: a reader of a clocked channel resumes at the first edge after its *)
(* data was written, also when the waker was started for another item or   *)
(* cancelled in between.                                                   *)
NoMissedEdge ==
  [][now' > now =>
       \A c \in Chans, t \in Users :
         Class(c).kind = "clock" /\ w.st[t] = "sleep" /\ AwaitsIn(t, c)
         => \A u \in now..(now' - 1) : ~Ready(Class(c), w.ch[c], u)]_vars

(* The reflector of a Broadcaster hands every sink the items of its source *)
(* in order: all of them, or with the clear option a subsequence.          *)
Subsequence(s, u) ==
  \E m \in [1..Len(s) -> 1..Len(u)] :
    /\ \A i, j \in 1..Len(s) : i < j => m[i] < m[j]
    /\ \A i \in 1..Len(s) : s[i] = u[m[i]]
BroadcastOrder ==
  \A t \in Users : \A o \in prog.menu[t] : o.op = "reflect" =>
    \A c \in ToSet(o.ports) :
      IF o.bind THEN Subsequence(got[c] \o Values(c), got[o.ch])
      ELSE IsPrefix(got[c] \o Values(c), got[o.ch])

(* An alt block leaves by its Timeout port no sooner than the delay after  *)
(* it was entered.                                                         *)
TimeoutWaits ==
  \A t \in Users : f[t].pc = "a_get" /\ Port(t) \in Timeouts =>
    now >= f[t].since + Delay[Port(t)]

(* A program that makes finitely many calls comes to rest: no two threads  *)
(* keep waking each other, and no waker is started over and over at the    *)
(* same time.                                                              *)
Quiesces == <>AtRest
=============================================================================
