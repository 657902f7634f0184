# Plasma: a TLA+ model of the run-time library

Plasma is a C++ dialect for discrete simulation.  A translator (`src/parser`)
turns language constructs (`par`, `spawn`, `alt`, channels, `Mutex` classes) into
calls of a run-time library (`src/src`).  The library multiplexes user threads
onto simulated processors, either with time slices driven by an alarm signal or
under a model of simulated time.  This project models the run-time library:
what each call does to the threads, processors, queues and clock, in which
orders the calls, the alarm and the scheduler loop can interleave, and what the
channels, the generated code and the resource manager built on these calls do.

Paths below are relative to the repository, `src/src/...` being its library.

## 1. Inventory

| Component | State | Operations | Interacts with |
|---|---|---|---|
| `Queue`, `QBase` (`Queue.C`, `Queue.h`), `ThreadQ`, `QVect` | `_next`, `_prev` of every object, `_head`, `_tail` of every queue | `add`, `push`, `get()`, `get(t)`, `remove`, `size` | holds threads (ready queues) and processors (`Cluster::_procs`) |
| `Proc`, `ProcQ` (`Proc.C`, `ProcQ.C`) | one ready queue per priority with `_count` (possibly shared between processors), `_state`, `_busythread` | `create`, `add_ready`, `get_ready`, `next_ready`, `remove_ready`, `add_busy`, `clearBusyThread`, `get_non_empty` | called by `Cluster` and `System` |
| `Cluster` (`Cluster.C`) | current thread and processor, kernel lock, queue of runnable processors, the scheduler thread `_main` | `yield`, `wait`, `sleep`, `wake`, `terminate`, `set_priority`, `delay`, `busy`, `busysleep`, `busywake`, `preempt`, `scheduler`, `update_time` | context switches, alarm signal, `System` for time |
| `System` (`System.C`) | time, heap of delayed threads, heap of busy processors, list of live threads, shutdown flag | `add_delay`, `add_busy`, `get_delay`, `get_busy`, `update_time`, `add_active_thread`, `remove_active_thread`, `push_other_roots` | the heaps are ordered by times that live in `Thread`; the list is walked by the garbage collector |
| `Thread` (`Thread.C`, `Thread.h`) | state, priority, processor, time and start time, waiters, valid flag, stack | `realize`, `destroy`, `add_waiter`, `get_waiter` | lives in at most one ready queue |
| User interface (`Interface.C`), start-up (`Init.C`) | configuration | `pSpawn`, `pWait`, `pTerminate`, `pExit`, ..., `main` | validates, locks, calls `Cluster` |
| Channels and `alt` (`plasma.h`, `ChanSupport.C`, `Plasma.mc`) | full flag or store, registered readers and writers, waker and timer threads, clock period and skew | `read`, `get`, `write`, `clear`, `set_notify`, `clear_notify`, the expansion of `alt` and `prialt`, `Broadcaster::reflect` | `pSleep`, `pWake`, `pAddReady`, `pBusySleep`, `pBusyWake`, `pSpawn`, `pTerminate`; `alt` between `pLock` and `pUnlock` |
| Language constructs (`Plasma.mc`, `Mutex.mc`, `Wrapper.mc`), `Result` (`Interface.h`) | the argument block of a spawned thread with its result | `par`, `pfor`, `spawn`, `value`, `wait`, `kill`, methods of `pMutex` classes | `pSpawn`, `pWait`, `pTerminate`, `pLock`, `pUnlock` |
| `Quantity` (`Quantity.h`) | list of requests with what is left of each, the iterator of its worker | `request`, `work` | a `Channel` for announcements, a `BusyChan` per request, `pDelay` |
| `Energy` | a sum per processor | add, query | current processor |
| Random numbers | generator words | next value, stream splitting | none |
| Translator (`src/parser`) | syntax trees | rewriting | only through the calls it emits |
| QuickThreads, Boehm collector, OpenC++, libltdl | third party | | |

What is hard in this code:

* **Interleaving.** In preemptive mode the alarm may switch threads between any
  two instructions while `_kernel` is false and the current thread has the
  lowest priority (`preempt`, `Cluster.C:79`).  The lock is a flag, not a count.
  `pSpawn(Proc*)` and `make_sharedproc` call `add_proc` without it, and `pAddReady`, which
  the channels call, changes a ready queue without it.
* **The scheduler is a thread in the queues it schedules.**  `exec_ready`,
  `exec_block` and `terminate()` take the next ready thread without testing for
  null: the scheduler thread must be in the current processor's queues at every
  moment a user thread runs, while `do_busy` moves it from processor to processor.
* **Intrusive queues with incomplete unlinking.**  `get(t)` and `remove` leave
  back links of neighbours as they were; whether a later call is right depends on
  the history of earlier ones.
* **Heaps whose keys change.**  The heaps of `System` are ordered by times that
  `add_thread_to_proc` and `clearBusyThread` change while the element is queued.
* **Time.**  Several ends at one instant, busy periods in slices, overtaken by
  higher priorities, charged by unsigned subtraction.
* **Termination of another thread** in any state: ready, delayed, busy, waited for.
* **Order of thread ends** in the list the garbage collector walks.
* **Register, then sleep.**  A reader or writer registers with a channel in one step
  and sleeps in the next; the other side looks for a registration before and
  after it stores.  An `alt` block registers with all its ports, is woken by one and
  must deregister from the rest, whose wakers and timers may be under way.
* **Helper threads.**  Clocked channels and `Timeout` spawn a thread to wake the reader
  later; it may have to be cancelled, or be too late.
* **Exceptions out of locked code**, and a lock that does not nest.
* **A list changed under its iterator** (`Quantity`), by the worker itself and by requests
  that arrive while it waits.

`PROJECT.json` lists these as hazards, at their lines, with the properties that
watch them.

## 2. Modules

| Module | Models | Extends |
|---|---|---|
| `Queue` | the five mutating calls of `Queue` as operators on link memory | |
| `Fifo` | what `Queue.h` promises, without pointers (abstract specification) | |
| `IntrusiveQueue` | objects moving between pointer queues, `get(t)` one link at a time | `Queue`, instantiates `Fifo` |
| `IntrusiveQueueProofs` | proofs of the representation invariant, that walking the links lists the contents, and that `Fifo` is implemented | `IntrusiveQueue`, `WalkTheorems` |
| `WalkTheorems` | lemmas about walks along links, shared by the proofs below | `TLAPS` |
| `ActiveList` | the list of live stacks of `System` | |
| `ActiveListProofs` | proof that the collector's walk ends | `ActiveList`, `WalkTheorems` |
| `PriHeap` | `std::priority_queue`, to the layout of its array (external) | |
| `Proc` | processors and ready queues as operators on the record of all objects | `Queue` |
| `Kernel` | `Cluster`, `System`, `Thread`, and the calls of `Interface.C` and `Init.C` | `Proc`, `PriHeap` |
| `ProcProofs` | what the operators of `Proc` do to ready queues and counts (lemmas) | `Proc`, `PriHeap`, `WalkTheorems` |
| `KernelProofs` | proofs about the scheduler without the time model, and that it implements `Sched` | `Kernel`, `ProcProofs` |
| `Sched` | what the scheduler promises the code above it (abstract specification) | |
| `ChanSupport` | a channel object: queries and updates that do not block | |
| `Channels` | threads that read, write, clear and `alt` over channels, with helper threads and time | `ChanSupport`, instantiates `BoundedChan` |
| `ChannelsProofs` | proofs about the helper threads, and that channels implement `BoundedChan` | `Channels`, `WalkTheorems` |
| `BoundedChan` | a bounded FIFO with the history of what was read (abstract specification) | |
| `Constructs` | generated code for `par`, `pfor`, `spawn` and `pMutex`, and its execution | instantiates `Sched` |
| `ConstructsProofs` | proofs about the generated code and its execution | `Constructs`, `TLAPS` |
| `Quantity` | requests and the worker of a `Quantity` | |
| `QuantityProofs` | proofs about requests and worker | `Quantity`, `TLAPS` |
| `MCQueue`, `MCKernel`, `MCChannels`, `MCConstructs` | instances for TLC | |

The layers meet in abstract specifications.  `Kernel` implements `Sched`
(`ImplementsSched`: the state of every thread, with the links, queues, heaps and processors
forgotten; checked, and without the time model proved).  `Constructs` runs on `Sched` (`RunsOnSched`,
checked and proved), and `Channels` uses the same
states and steps: a thread runs until it blocks, or in preemptive mode until the
alarm finds the cluster unlocked.  Every channel of `Channels` implements `BoundedChan` (`ImplementsChan`, checked, and
for the classes other than `BusyChan` proved),
which is what `Quantity` relies on when it writes its channels as one place each.

### State of `Kernel`

`obj` is a record with one field per data member of `Thread` and `Proc` (`tstate`,
`prio`, `proc`, `time`, `start`, `pstate`, `bt` for `_busythread`, `count`) and the link memory
`mem` that all queues share, as in the code: an object in the wrong queue, or a
stale link, has the effect it has in memory.  `obj.bad` becomes true when an
assertion of the code (`Queue::add`, `Proc::remove_ready`, `add_thread_to_proc`) fails.
`waiters`, `valid`, `cur`, `curproc`, `locked`, `now`, `delayq`, `busyq` and `shutdown` are the
members of the same meaning.  `phase` says what the running stack is executing:
user code, the scheduler loop, `terminate`'s loop over waiters, the parts of
`get_new_proc` and `update_time`, or nothing (exit, crash).  `frame[t]` is the live part
of a suspended thread's stack: where it is, which thread or processor it is about to
queue and how far that insertion has come (`ins`: the queue, the tail it has read), `total_time` and `userts` of `busy()`.  `frame[t].due` is history: the time a delay
or a busy period was asked to end.

### Actions

Each call of the interface is one action of the current thread; its guard is
`Calls(op)`: user code runs, the thread is not inside another call, and the program
under the scheduler makes this call (`Ops`).  An action reaches from the call to the
context switch it ends in (`exec_block`, `exec_ready`, `switch_term`), because nothing
runs in between: calls hold the lock, and without preemption a thread runs
until it gives way.

Where the code is *not* protected it is split.  `pAddReady`, `pSpawn(Proc*)` and `make_sharedproc` insert into a queue
without locking; when the alarm can strike (`Interruptible`: preemptive mode, unlocked, lowest priority) they only begin the
insertion, and `InsertStep` goes on with it one access of shared memory at a time: the test and the assignment of the state
(`TestReady`, `SetReady`; `TestProc`, `SetRunning`), the assertion, the test of `_tail` and each link of `Queue::add` (`TestLinks` to `MoveTail`), `_count`
(`CountReady`).  `Preempt` may come between any two.  `Queue::add` names `_tail` twice; the compiler may read it twice or keep it, and
`LinkBack` allows both.  When the alarm cannot strike the same calls are one step.

What an interrupted insertion does to the queues is deviations 24 and 25; what survives it is in the runs `kill` and `race`.  Programs that make such calls
are marked: `"procrace"` among the operations stands for `pSpawn(Proc*)` or `make_sharedproc` where the alarm can interrupt them, `"readyrace"`
for `pAddReady`.  Programs without the mark make these calls under `pLock`, at a higher priority or in the time model, as `schedule.skb:181`
("assuming processor is locked") supposes; the code itself does not see to it (a plain `get()` calls `pAddReady` unlocked, `plasma.h:276`, and the code
generated for `on` calls `pSpawn(Proc*)` unlocked).

Loops of data-dependent length are one action per iteration: `Reap` (waiters of a
terminating thread), `ExpireDelay` and `ExpireBusy` (what is due in `update_time`),
`BusyLoop` and `BusySleepLoop`.

`wake` and `pAddReady` put a thread in a ready queue whatever the thread does; their
contract, as the callers in the repository keep it, is `MayWake`: the thread is asleep by
`pSleep`, or is ready or done, where the call has no effect on the ready queue.  It does queue the processor
of a thread that is done, so that programs which make such calls (`"wakedone"` among the operations, in `preempt` and
`kill`) are told apart in the proofs.
`busywake` is used on threads in `busysleep`.

A call that would dereference null, or switch to the running stack, ends in a
fault phase (`null_thread`, `self_switch`, `null_proc`) from which there is no step.

### State and actions of `Channels`

`w` holds the scheduler state of every thread (as in `Sched`), the lock, and the channel,
`Timeout` and `ResChan` objects.  The calls the channels make are operators on `w` (`Wake`, `AddReady`,
`BusyWake`, `Spawn`, `Terminate`), which record a fault when the contract of the call is broken, since the
real call would then corrupt a ready queue.  `f[t]` is the stack frame of a thread:
where it is in the operation it performs.  An action is what a thread does from one
access of shared state to the next, so that `Preempt` may come between the test for
readiness, the registration and `pSleep`.  One set of actions serves the four classes
(`ReadWriter`, `ReadReady`, `ReadWoken`, `ReadTake`, `ReadReturn`; `WriteNotify`, `WriteFull`, `WriteStore`,
`WriteHeld`), which share their shape; where they differ the class (`prog.class`) decides.  An `alt`
is `AltLock`, `AltScan`, `AltRegister`, `AltClear`, `AltGet`, `AltUnlock`, as the generated code goes through them.

`PreemptSpec` adds the alarm and is used only to *find* behaviours (deviation 16), since it leaves some out: `pSpawn` of a waker
unlocks the cluster before its result is assigned (`_waket = pSpawn(..)`, `ChanSupport.C:151`; `_writet`, 65; `_waker`, 250), and the model makes that one
step.  Nothing is claimed to hold of it.

The classes are *not* protected by `pLock`: `plasma.h:20` defines `pTMutex` as nothing, and
the compiler driver runs the preprocessor before the translator, which therefore never
sees the word.  In the time model this does no harm, as nothing preempts; with the alarm see
deviation 16.

### Programs of `Constructs`

`Par`, `Pfor`, `SpawnOp`, `Value`, `ResultKill` and `MutexCall` give the sequence of calls that the
translator emits; the actions execute such sequences, one per thread, under
preemption.  `Work` inside a method may throw, and the exception takes the handlers
of the methods around it, innermost first.

### `Quantity`

One action is what a thread does until it blocks: `Request`, `AnnounceAgain` (a writer of `_request`
that was woken), and of the worker `Take`, `Serve` (one unit, then a look at the channel) and
`Tick`.  `OwnProcs` says that a thread that is ready runs before time goes on, which is so when no
processor is made busy by another thread.  A processor being busy while it waits is
left out otherwise.

### Bounds

`MaxTime` (no call may reach beyond), the finite sets `Delays`, `Busies`, `Slices`, the number of
threads, each created once, and `TimeMod` for the width of `ptime_t`: 16 in place of
2^64, far above the times reached, so it wraps only where the code would.  No `pAddReady` is interrupted after an earlier one
has put a `_count` out of its range (`CountsInRange`), where it could drift on for ever.
In `Channels`, `MaxOps` calls per thread, chosen from a menu per thread, which together with the
channel classes make up a program (`Programs`); in `Quantity`, `MaxReq` requests per thread and `MaxAge`,
where the history counters stop; 0 stands for no bound.  The `quantity` run, finite as it is, has `MaxAge` 0;
`quantity_starve`, whose threads ask for ever (`MaxReq` 0), has 1.

## 3. Runs

`CHECK_DEADLOCK FALSE` is set throughout: a Plasma program may end, or all its
threads may sleep for good.

| Run | Instance | Shows |
|---|---|---|
| `queue` | 3 objects, 2 queues | `Repr`, `ListingIsOrder`; `Fifo` is implemented.  Three objects give a first, middle and last place; two queues let an object leave one and enter another with the links it kept. |
| `active` | 4 threads | `WalkEnds`: in whatever order threads end, the collector's walk ends. |
| `preempt` | 3 threads, 1 priority, alarm, `pSpawn pYield pWait pSleep pWake pTerminate pExit pBusy`, a bad priority | `NoFault`, `ThreadsAccounted`, and `ReadyRuns` under fairness. |
| `kill` | 3 threads, 2 processors, 2 priorities, alarm, termination of others, priority changes, `pLock`, `pAddReady` under it, `pDelay`, and `pSpawn(Proc*)` unlocked and interrupted at each access of `add_proc` | `ReadyIffQueued`, `PriorityRespected`; `Sched` is implemented.  The queue of processors may be ruined (deviation 24); these survive. |
| `race` | 3 threads, alarm, `pAddReady` unlocked and interrupted at each access | `KernelLocked`.  The ready queues may be ruined (deviation 25); this survives. |
| `time` | 3 threads, 2 processors, 2 priorities, delays 0 and 1, busy 1 and 3, slices of 1 and 2, time to 3 | `DelayExact`, `TimeSkipsNothing`, `BusyConsumes`, `BusyShrinks`, `ExitOnlyWhenIdle`, `RunningIffScheduled`, `NoStrandedProc`, `NoFault`, `TypeOK`.  Busy 3 needs two rounds at the lowest priority and is overtaken in the middle by a delay of 1 at the higher one. |
| `shared` | 3 threads, 2 processors on one set of ready queues, `pBusySleep`, `pBusyWake` | `MainAlwaysReady`, `ThreadsAccounted`. |
| `channels` | programs of 3 threads, up to 3 calls each, over every channel class, with `alt`, `prialt`, `Timeout`, `ResChan`, `Broadcaster`, clocks with and without skew | `ImplementsChan`, `NoLostWakeup`, `NoFault`, `TimeoutEndsAlt`, `NoStaleReader`, `HelpersAccounted`, `BroadcastOrder`, `NoMissedEdge`, and `Quiesces` under fairness.  Two writers on one place, and three calls on two places, make every class full with a writer asleep. |
| `constructs` | 4 threads; `par`, `pfor`, `spawn` with `value` and `kill`, `pMutex` methods that may throw | `MutexSerial`, `LockReleased`, `JoinsSeeResults`, `RunsOnSched`, and `AllEnd` under fairness. |
| `quantity` | 3 threads, 2 requests each of 1 or 2 units, slices of 2, requests at any time | `NoStaleRequest`, `SliceExact`, `TypeOK`, and `Served` under fairness.  A slice of 2 lets requests come in the middle of one; three threads let one be served while another is still blocked announcing. |
| `chan_preempt`, `quantity_starve` | | deviations 16 and 17 below |

Three threads are enough for the scheduler's own patterns: one that runs, one that
is ready or blocked, and one that acts on both; the scheduler thread is a fourth
member of the queues.

`ReadyIffQueued` is about the ready queues and `RunningIffScheduled` about the queue of processors; each includes that
its queues end, at their tails.  Both, and `NoStrandedProc`, are stated of the moments at which no unlocked insertion is under way
(`Adding`): in the middle of one a queue is inconsistent as a matter of course, and what matters is what is left when all are complete.
The runs check the last two in the time model, where no insertion is interrupted; in preemptive mode they are proved (section 5).  `MCConstructs` assumes, and TLC evaluates, that its programs have the form the theorems of
`ConstructsProofs` suppose.

`TypeOK` of `IntrusiveQueue`, `Constructs` and `Quantity` is proved; that of `Channels` holds in its run.  `TypeOK` of `Kernel` is
proved without the time model and without an interrupted `pAddReady`.  With the time model, `TypeOK`, and `NoFault` in either mode, are invariants of the instances above, not of
every program: the deviations below are reached when their calls are combined.

**Fairness.**  `FairSpec` of `Kernel` assumes weak fairness of the alarm (the interval timer
fires again and again, and `preempt` acts whenever the cluster is unlocked and the current
thread has the lowest priority) and of kernel code, which waits for nothing.
User code is not assumed to do anything: a thread may compute for ever.  `ReadyRuns` is
stated for one processor and one priority, since neither processors nor higher
priorities are time-sliced, and for programs that do not hold `pLock` for ever.

`Channels` assumes only that something goes on as long as it can (weak fairness of `Next`).
`Constructs` assumes strong fairness of dispatching each thread and of each thread's own
steps: the ready queue is first in, first out, and `ReadyRuns` of `Kernel` shows
that every ready thread runs; a thread that runs gets on before its slice is over.
`Quantity` assumes that ready threads run and time passes, and nothing of the requests.

## 4. Where code and documentation disagree

16 and 17 are runs of their own (expected violation) and findings in
`PROJECT.json`; the `.cfg` named with each of the others reproduces the trace with
`MCQueue`, `ActiveList`, `MCKernel`, `MCConstructs` or `Quantity`.  Those of the channels are reproduced with
`MCChannels.cfg` (`MCChanPreempt.cfg` where preemption is needed) when its `Programs` and its property are replaced
by the two named, for example `Programs <- QueueConsumers` and `INVARIANT NoFault`.
All are within the calls' contracts.

1. `Queue::remove` (`Queue.C:100`) does not correct the back link of the item behind
   the removed one; a second removal leaves its item in the queue (`MCQueueRemove.cfg`).  `Queue.h:56`: "Removes item from queue."
2. `System::remove_active_thread` (`System.C:231`) likewise: a destroyed stack may stay among
   the collector's roots and live ones be lost (`MCActiveRoots.cfg`).  `System.C:88`: "Each active thread
   is stored in _active_list.  We iterate over the list and push each stack."
3. `terminate(Thread*)` (`Cluster.C:537`) does not wake the waiters of the thread (`MCKillWaiter.cfg`).
   `implementation.skb:153`: "When the thread terminates, any waiting threads are added back to the ready
   queue."
4. `terminate()` (`Cluster.C:556`) schedules the processor of a waiter although it is busy;
   a later `pBusy` there cuts the first short (`MCWaiterBusy.cfg`).  `schedule.skb:556`: "When a processor is
   busy, it does no other work".
5. `update_time` (`Cluster.C:493`) looks only at the first queued processor; if that one is
   empty because its thread was terminated, others with ready threads are passed
   over, and the program may end (`MCKilledDelay.cfg`).  `Cluster.C:461`: "Repeat until there is either nothing
   left to do or we get a processor and it has a thread."  Waking a thread that is done queues an
   empty processor just the same, which is why `time` leaves `pWake` to `preempt`.
6. `set_priority` (`Cluster.C:376`) to a lower priority that is still the highest ready one
   switches to the running stack (`MCSelfSwitch.cfg`).  `Cluster.C:372`: "If the new priority is higher than what we have, we don't
   swap, since we will be switching to ourselves again."
7. `do_busy` (`Cluster.C:302`) ignores that no processor was found: `pBusySleep(0)` with nothing
   else to run dereferences null (`MCBusySleepAlone.cfg`).
8. `busywake` (`Cluster.C:240`) clears the busy thread of a processor that is still in the
   heap; its end is then 0 and time runs backwards (`MCBusyWakeTime.cfg`).
9. `add_thread_to_proc` (`Cluster.C:210`) changes a key inside the heap of busy processors.
   `TimeSkipsNothing` is therefore stated for processors still in state Busy; the
   overtaken thread itself may resume later than it could.
10. `busy` (`Cluster.C:349`) with a user slice longer than what is left wraps around
    (`MCUserSlice.cfg`).
11. With shared queues, a thread started by the scheduler or by `terminate()` keeps a stale processor
    (`Cluster.C:183`) and may run a busy one by yielding (`MCSharedYield.cfg`).
12. `get_non_empty` (`ProcQ.C:24`) uses `Queue::remove` on the middle of the queue and after two
    such removals a processor is lost (`MCLostProc.cfg`).  `Cluster.C:445`: "we don't want to remove these processors ...
    Therefore, we leave them in."
13. `Queue::get(t)` (`Queue.C:79`) leaves a stale back link which `do_busy` follows when it
    removes the scheduler thread (`MCKillBusy.cfg`).
14. A thread terminated by another while the alarm has interrupted it inside `pSpawn(Proc*)` (`Interface.C:56`) leaves a processor that is marked
    running and never queued (`MCKillLink.cfg`).
15. `pSpawn(Proc*)` on a processor that is busy makes it run, with the effect of 4
    (`MCSpawnBusy.cfg`).
16. `Channel::read_internal` (`plasma.h:283`) and its relatives register and then sleep in code that is
    not locked (see `Channels` above).  A reader preempted in between is woken by the
    write while it is ready, which does nothing, and then sleeps with the item in the
    channel (`chan_preempt`).  `user-guide.skb:491`: "It is up to the channel to make sure that these operations are
    safe".  Two writers may both find room and one item is overwritten (`Preempted`, `ImplementsChan`;
    `plasma.h:36`: "a second write before a read will block").  In an `alt`, `set_notify` of a `Timeout` or of a clocked channel
    unlocks the cluster (`pSpawn`), so the same happens there although the `alt` had locked it
    (`PreemptedAlt`, `NoLostWakeup`).
17. `work` (`Quantity.h:104`) goes back to the front of the list when a request has ended, and new
    requests are put in front: a thread that asks for one unit again and again keeps another from ever
    being served (`quantity_starve`).  `user-guide.skb:1061`: "uses a round-robin scheme to satisfy all in-bound requests".
18. A request that comes in the middle of a slice is served at its end, before
    `amount*timeslice` has gone (`MCQuantityEarly.cfg`; `Quantity.h:15`: "At a minimum, this will be satisifed in amount*timeslice
    time units").  A request of 0 units among no others makes the search of `work` endless
    (`MCQuantityZero.cfg`).  If the thread that announces cannot run because its processor is busy, the
    iterator of an erased request may be taken up (`MCQuantityBusy.cfg`).
19. `QueueChan` with `MultiConsumerChannel` (`plasma.h:378`): a write may wake two readers, the second of which reads an empty
    store, because the wait is an `if` (`QueueConsumers`, `NoFault`).  `BusyChan` likewise hands one value to two (`BusyConsumers`, `ImplementsChan`), and
    in an `alt` it ends by `pBusyWake` a sleep that was begun by `pSleep` (`BusyAlt`, `NoFault`).
20. `Timeout::_ready` stays set when another port was chosen after the timer fired; the next `alt`
    times out at once (`StaleTimeout`, `TimeoutWaits`).  `Timeout::get` does not sleep (`LoneTimeout`, `NoFault`; `ChanSupport.C:29`: "This will sleep if
    we're not ready").
21. `clear` and `clear_ready` of `Channel` and `QueueChan` do not wake blocked writers (`QueueClear`, `NoLostWakeup`), and that of `ClockChan`
    wakes one although all have room (`ClockClear`, `NoLostWakeup`; `plasma.h:506`: "Queue up any writers that were blocked").
22. An interlocked `ClockChan` with two producers may leave one asleep whose value was read (`TwoInterlocked`, `NoLostWakeup`).
    With several consumers two writes start a waker for one reader only (`ClockConsumers`, `NoLostWakeup`).
23. A method of a `pMutex` class that calls another, or `mprintf`, is unlocked when the inner one returns
    (`MCMutexNested.cfg`).  The lock is a flag.  `user-guide.skb:905`: "This will wrap all public methods of class X ... with
    serialization code."
24. `add_proc` (`Cluster.C:411`) runs unlocked from `pSpawn(Proc*)`.  An alarm between its test of the state and the assignment lets a second
    `pSpawn` queue the same processor, and the first then queues it again (`MCProcRace.cfg`).  `Cluster.C:409`: "We only add to the queue if
    the processor is not already running.  This avoids duplicate entries".
25. `pAddReady` (`Interface.C:72`) does not lock either, and `get()` of a channel calls it unlocked (`plasma.h:276`, 292, 375, 387, 450, 461).  Interrupted in the
    middle it leaves a thread in state Ready outside the queue it belongs to, or the queue's ends or count wrong (`MCReadyRace.cfg`).
    `Thread.h:56`: "Ready:  A thread is in ready queue."

`NoFault`, `NoLostWakeup` and `MutexSerial` are therefore stated of programs without these combinations; `MCChannels` and
`MCConstructs` say which.

## 5. Proofs

`IntrusiveQueueProofs` proves for every set of objects and of queues, from two
assumptions (null is not an object; there are finitely many objects):

* `QueueRepresentation`: `Spec => [](TypeOK /\ Repr)`.  `Repr` says that no object is in two places,
  that the ends and forward links of each queue spell out its contents, that exactly
  the heads have a null back link, and that a `get(t)` under way stands on
  an object of its queue.  It is inductive as it stands.  Back links are
  deliberately constrained no further: `get(t)` does leave them stale in the middle,
  and the invariant must survive that.  This is also why `Spec` calls `remove` only on
  objects whose own back link is exact (`BackLinkExact`): without it the theorem is
  false, which is deviation 1.
* `QueueListing`: `Spec => []ListingIsOrder`.  Walking a queue from its head ends and lists
  its contents in order.
* `QueueImplementsFifo`: `Spec => ImplementsFifo`.  With what a walk lists as the abstract
  queues, every behaviour of the pointer queue is one of `Fifo`.

The argument: `add` and `push` lengthen one sequence at one end (`AddKeeps`, `PushKeeps`);
`get`, `get(t)` and `remove` all drop the k-th object and relink its predecessor
(`GetDrops`, `UnlinkDrops`, `RemoveDrops`), and dropping keeps the invariant whatever k is
(`DropKeeps`).  A walk is a recursive function of the distance from the head.  The
contents followed by NULL satisfy its recursion equation (`ItemIsOrder`), and by the least distance
at which two solutions could differ there is only one (`ItemIs`, `LeastNat`); a queue has no
more places than there are objects, by the pigeonhole principle (`OrderFits`).

### `ActiveList`

* `CollectorWalkEnds`: `Spec => []WalkEnds`, for any finite set of threads.

Back links of the list become stale (deviation 2), so no invariant can say that the list holds the live
stacks.  What does survive every order of `realize` and `destroy` is age: a forward link, stale or not, leads to a
thread realized earlier, a back link to one realized later (`Ages`), and a thread never realized is linked to nothing (`Unborn`).
Ages fall along a walk, so no thread is visited twice (`WalkTheorems`), and the pigeonhole principle ends it.

### `Quantity`

For any finite set of threads, any amounts and any slice:

* `QuantityTypes`: `Spec => []TypeOK`, which includes that the iterator that `work` increments is one of the
  list.  The inductive invariant `Sound` adds who is where (`Whereabouts`).
* `QuantityTime`: `Spec => []SliceExact`, where the history counters have no bound (`MaxAge = 0`; they are not part of the code).
* `QuantityNoStaleRequest`: `Spec => []NoStaleRequest`, if a thread that is ready runs before time goes on (`OwnProcs`); without
  it deviation 18 is a counterexample.  `Heard` adds that the threads still in `write()` and the announcement in the channel are
  together fewer than the requests listed (`FewPending`), because a slice ends at most one request and takes in one
  announcement, and that no writer sleeps on an empty channel unless another was woken (`WriterStirs`).

### `Constructs`

For any set of threads and any programs with `ProperPrograms`: methods of `pMutex` classes are not nested (`Flat`) and a
program kills only threads it has spawned (`KillsSpawned`).  Nested methods are deviation 23.  That the code generated for `par`
and `pfor`, for calls of the thread interface and for a method is `Flat`, and that putting blocks behind one another keeps it so,
is proved as lemmas at the end of the module.

* `ConstructsTypes`; `MutexSerialized` (`MutexSerial`) and `LockIsReleased` (`LockReleased`).  The inductive invariant `Runs` says that the cluster is
  locked exactly while the running thread is inside a method, and that no other thread is inside one (`LockedInMethod`).
* `JoinsSound` (`JoinsSeeResults`).  `Joins` adds why a thread is done (`DoneHow`) and that everyone among the waiters of a thread
  sleeps behind a `pWait` for it, or was killed.
* `ConstructsRunOnSched`: `Spec => RunsOnSched`.

### `Kernel`

For any finite sets of threads and processors, any number of priorities, any sharing of ready queues and any choice of
calls but one, with and without the alarm, termination of other threads and `set_priority` included.  The exception is `pAddReady` where the alarm
can interrupt it (`"readyrace" \notin Ops`), for which deviation 25 is a counterexample; an interrupted `add_proc` is
included, access by access, except in the theorems about the queue of processors.  All but `KernelIsLocked` are for programs
without the time model (`~BusyOkay`), the mode in which there is preemption: with it `pBusy` runs the scheduler on the
stack of the calling thread and moves the scheduler thread between processors, and the properties have the
counterexamples of section 4.

* `ReadyQueued`: `Spec => []ReadyIffQueued`.
* `KernelTypes`: `Spec => [](TypeOK /\ phase \notin NullFaults)`: no null thread or processor is ever used.  The fault that remains is
  `self_switch`, which is deviation 6.
* `MainIsReady`: `Spec => []MainAlwaysReady`, the reason why `exec_block`, `exec_ready`, `preempt` and `terminate()` need no test for null.
* `KernelIsLocked`: `Spec => []KernelLocked`, with the time model too, since there is no preemption then.
* `HighestRuns`: `Spec => PriorityRespected`.
* `NobodyIsLost`: `Spec => []ThreadsAccounted` for programs that do not terminate other threads (`"kill" \notin Ops`); for those that do,
  deviation 3 is a counterexample.
* `KernelImplementsSched`: `Spec => ImplementsSched`.
* `RunningIsScheduled`, `NobodyStranded`, `EndsWhenIdle`: `Spec => []RunningIffScheduled`, `[]NoStrandedProc` and `[]ExitOnlyWhenIdle`
  for the programs of `Tame`: none terminates another thread, wakes one that is done, shares ready queues, or calls `pSpawn(Proc*)` or `pAddReady` where
  the alarm can interrupt the insertion (and, as above, `~BusyOkay`).  Deviations 5, 12 and 14 are the counterexamples for the first two, 24 and 25 for the
  last two of these calls.
* `NothingFails`: `Spec => []NoFault` for those of them that do not call `set_priority` (deviation 6).

`ProcProofs` describes a ready queue by tickets instead of by a sequence: a thread draws a number when it is queued, and a
queue links its members in the order of their numbers (`Line`).  Taking a thread out of the middle then changes no
other number, and the stale back link it leaves is no part of the description.  `Good` says that such numbers exist for all ready
queues at once, that the members of a queue are the threads whose state, processor and priority say so, that `_count` is
the cardinality of what the queues of a processor hold, and that a thread that is neither ready nor done has no links (`Clean`), which is
what the assertion in `Queue::add` asks for.

The inductive invariant is `KI`: `Good(obj)`, types of the rest (`Rest`, `Frames`), no busy processor (`IdleProcs`), whose turn it is
(`UserTurn`: the running thread's processor shares its queues with the current one and the scheduler thread is ready there;
`MainTurn`; `Reaping`), and the lists that hold threads (`Waiting`, `Delayed`: each of its threads is blocked for that reason, or done, and is there
once).  `ReadyIffQueued` alone is not inductive: `terminate()` makes its waiters ready, and only `Waiting` says that
they are not ready already.  Every action is shown to keep `KI` and to have one of six effects on the states of threads (`Called`, `GaveWay`,
`Stuck`, `Left`, `Dispatched`, `Scheduled`), which is all that the refinement proof looks at.

`KI` says that what is in a list is blocked; `ThreadsAccounted` needs the converse, that what is blocked is in its list.  For it the
invariant is `KI` with `Placed` for every thread: a thread that runs and is not current rests in a blocking call, a delayed one is
in the queue, a waiting one is among the waiters of a live thread, and one that is ready after `pWait` waited for a thread that is done, or is
ending right now.  Two facts about every step keep it: a thread that goes on being blocked stays in its lists (`Held`, which for
the queue of delayed threads rests on push and pop of the heap losing no element), and a thread ends only when it is the
running one and its list of waiters is empty (`Fates`).

An unlocked `add_proc` that the alarm interrupts writes links and states of processors only; of those `KI` says no more than that no processor is busy, which is why it survives.

The queue of processors has tickets of its own (`ProcsQueued` in `ProcProofs`), and its invariant is `KI` with `QI`.  `QueueOK`: the queue holds exactly
`Queued`, the processors that are Running and not current, and no assertion has failed.  `RunningIffScheduled` follows from it
but is not inductive.  `get_non_empty()` takes the first processor that has threads out of the middle of the queue by `Queue::remove`, whose stale back
link would break the queue, so `QueuedWanted` says that every queued processor has a ready thread or will get one from a `pSpawn` that is past queueing it: the
removal is then always at the head.  That needs to know when a processor can run out of threads: only the current one does (`ReadyScheduled`,
`Settled`), and not while a thread that runs on it is inside a `pSpawn` (`Spawners`: such a thread runs, or has been preempted and is ready on the
current processor).  `ProcTurn` ties the current processor to where the scheduler is in its loop and gives `ExitOnlyWhenIdle`; `ListedAlive` says that
what expires or is reaped has not ended, so that it really becomes ready.

### `Channels`

For any set of threads, any channels (of any class, capacity, period and skew, one or several consumers), timeouts and results, and any menus of
calls, from `ChannelsAssumption` (types) and `DistinctObjects` (two objects are not the same):

* `HelpersServe`: `Spec => []HelpersAccounted`.  The inductive invariant is `Inv(S)`: types (`Typed`;
  times are members of an arbitrary set `S`, since nothing depends on their arithmetic), and `Good`: a waker that is live, or is the
  one running, serves a reader that is registered and marked as having one (`WakersServe`, `WakersRead`), and a timer serves a `Timeout` with a reader
  (`TimersServe`).  It needs no assumption on the program.  With the alarm it would not hold of the code, where a waker is live before it is recorded.
* `FaultFree`: `ByTheRules /\ Spec => []NoFault`; `ReadersWait`: `ByTheRules /\ Spec => []NoStaleReader`; `ProperChannelsAreFifos`: `ByTheRules /\ Spec => ImplementsChan`,
  `BusyChan` included.  A value is only stored by `WriteStore`, only consumed by `ReadTake` and only dropped by `clear`, `clear_ready` and the reflector; every other
  step keeps every store (`RunItems`, `SchedulerItems`).  What remains is that a store finds room and a take finds an item.  `Fifo` says so of stores: only the
  current thread is past a test and before the access the test is for (`Parked`), then the room it has found is still there (`HasRoom`), and a
  one-place channel holds the value in `_data` (`OneFits`).  With preemption `Parked` fails and so would the theorem (deviation 16).
  `ByTheRules` (in `Channels.tla`) is what the classes ask of a program, without the combinations of deviations 19
  and 20: a single-consumer class has one reader, `QueueChan` and `BusyChan` are emptied by no other thread, a `Timeout` or `ResChan` is in the alts of one
  thread, an alt names a port once and no `BusyChan`, `Timeout::get` is only called by an alt, and the `ResChan`s are of different threads.  `MCChannels`
  assumes it of its programs (`RulesKept`), so TLC evaluates it on them.

  The inductive invariant is `Sound`: `Invariant` (which is `Inv` for the times of the run) and `Fifo` from above and, of the threads,
  * `Does`: a thread is in a call of its menu, on a port that call names, so the rules apply to it;
  * `Found`: what the running thread has tested (a port is ready, a store is not empty, the thread is registered) still holds where it relies on it;
  * `Settled`: a thread that does not run stands in a blocking call (`Stands`); a registration with a port, an entry in a list of waiters or of writers
    belongs to a thread that waits for just that, and is there once (`Registers`, `TimersHeld`, `WaitersHeld`, `WaitersOnce`, `WritersHeld`, `WritersOnce`); and a reader
    that is woken by whoever deregisters it sleeps while it is registered (`AsleepHeld`);
  * `Served`: a reader that will not look again and is no longer registered finds an item, or the running writer is about to store one.

  `NoFault` alone is not inductive: `pWake` of a reader is right because a registered reader sleeps (`Settled`), which is kept because a woken one deregisters
  before it does anything else, which needs that a port knows one reader (`Does` with the rules).  Each step of a thread is shown to be one of few
  kinds (`RunWays`, `RunGoes`), each kind to keep `Settled` (`RunSafe`), and likewise the steps of the helpers and the scheduler (`SchedulerSafe`).
* `TimeoutsEndAlts`: `ByTheRules /\ Spec => []TimeoutEndsAlt`.  The inductive invariant is `Sound /\ OnTime`: a thread on its way to sleep or asleep in an alt is the
  reader of each `Timeout` it has registered with, and that `Timeout`'s timer is under way.  The rules give each `Timeout` to the alts of one thread, so no other
  thread can cancel or replace the timer; that the timer wakes the thread when it fires, rather than leaving it asleep, is where `Sound` is used.
* `SinksInOrder`: `(ByTheRules /\ \A p \in Programs : OwnSinks(p)) /\ Spec => []BroadcastOrder`, for any number of sinks of any class.  `OwnSinks` (in `Channels.tla`)
  says that a `Broadcaster` has its channels to itself: its reflector alone reads the source and alone writes the sinks, which are different channels and
  are cleared by anyone only if the `Broadcaster` clears them too.  The property is not inductive: the inductive invariant is `Sound /\ OwnSinks(prog) /\ Relaying`, in which
  each sink has been sent all that was taken from the source, up to the sink the reflector has come to (`Due`), and all but the last item from there on; that
  item is the value the reflector holds (`Lacks`).  It rests on the reflector holding the value it took: a one-item channel is read a second time, after the
  store has been emptied, as `get()` returns, and no writer gets in between (`Rereads`).  With the clear option a sink has been sent a subsequence.

The proof of each goes from the operators on `w` to the actions.  The effect of an action is stated once as a predicate (`Alike`, `Wrote`, `Took`, `ClearedTo`,
`ResultGot`, ...; `Went` and `Moves` for the frame), and the invariants are shown from the effects.

### Only model-checked

* `Kernel`: `ThreadsAccounted`, `NoFault`, `RunningIffScheduled`, `NoStrandedProc` and `ExitOnlyWhenIdle` for programs outside the hypotheses
  of their theorems, the properties of time, everything with the time model, and what is left of the properties when
  `pAddReady` is interrupted (`race`).
* `Channels`: `NoLostWakeup`, `NoMissedEdge` and `TimeoutWaits`.
* Which element of a heap is on top (`PriHeap`): only that push adds its element and pop takes out the first, with no other lost or doubled, is proved.
* Liveness (`ReadyRuns`, `Quiesces`, `AllEnd`, `Served`): fairness and `ENABLED` are outside the prover.

## 6. Not modelled

* `Energy`: one addition, one read and one reset of a sum of doubles per processor.
* Exceptions thrown in an `alt` block (its handler clears the notifications and, having no
  `throw`, ends the exception).  `afor` is an `alt` over a computed list of ports.
* A processor that is made busy while a waker of one of its threads is under way, and readers
  of a `BusyChan` that share a processor.  A skew of a period or more (never ready).
* `ResultCheck`, which only reads results.
* The instructions between arming the timer and the first switch of the
  scheduler, in which an alarm would find no current thread.
* Stack memory, stack switching and the collector: third-party or assembly; a switch is atomic.
* The handlers for fatal signals, which end the process.
* Random number generators: arithmetic on products of 64 bits, wider than the checker's integers, and no
  protocol.
* Vendored code: QuickThreads, the Boehm collector, OpenC++, libltdl.  They are most of the repository's lines
  and none of its own logic.
* The rewriting of syntax trees by the translator (names, types, captured variables): it decides what
  compiles; the calls it emits are modelled.

## 7. Plan

Done: queues, the active list, processors, the scheduler in both modes and its abstract
specification, channels, `alt`, the language constructs, `Quantity`; the proofs of section 5.

Left, all proofs:

1. `Channels`: `NoLostWakeup` from `Sound` and the converse of `Settled`, that a thread which waits is registered,
   for programs without the combinations of deviations 21 and 22.
2. `Kernel` with the time model: `TypeOK`, for programs without the calls that lead to the deviations.
