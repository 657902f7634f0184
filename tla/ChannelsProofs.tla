--------------------------- MODULE ChannelsProofs ---------------------------
(***************************************************************************)
(* Theorems about Channels, for any threads, channels of any class,        *)
(* Timeouts, ResChans and programs.                                        *)
(*                                                                         *)
(* The module goes from operators to steps.  The first part types the      *)
(* state and shows, operator by operator and action by action, that the    *)
(* helper threads serve exactly the readers that need them (Good, Inv).    *)
(* The second says what each action does to the channels (Alike, Wrote,    *)
(* Took, ...) and where its thread goes (Went, NewFrame, Moves).  The      *)
(* third shows from these effects that a channel is a bounded FIFO.  The   *)
(* fourth is about the programs that keep to the rules of the classes      *)
(* (ByTheRules): they meet no fault, leave no stale registration, and no   *)
(* thread of theirs is left in an alt block with a Timeout.  The last part *)
(* adds that a Broadcaster with its channels to itself (OwnSinks) sends    *)
(* every sink the items of its source in order.                            *)
(***************************************************************************)
EXTENDS Channels, WalkTheorems, TLAPS

-----------------------------------------------------------------------------
(* The types of the variables.  S is a set that holds every time met so    *)
(* far: nothing proved here depends on what times are.                     *)

Status == Live \cup {"none", "done"}
Faults == {"none", "null_wake", "bad_wake", "assert_readt", "assert_writet", "assert_rt",
           "assert_size", "empty_read"}
Value == (Users \X Nat) \cup {NULL}
Item(S) == [v : Value, at : S]
Channel(S) == [store : Seq(Item(S)), data : Value, readers : SUBSET Users,
               wakers : SUBSET Users, writers : Seq(Users)]
World(S) == [st : [Threads -> Status], locked : BOOLEAN, fault : Faults,
             due : [Threads -> S], ch : [Chans -> Channel(S)],
             to : [Timeouts -> [ready : BOOLEAN, readt : Users \cup {NULL}, writet : BOOLEAN]],
             res : [Results -> [rt : Users \cup {NULL}, read : BOOLEAN]],
             waiters : [Users -> Seq(Users)]]

WritePcs == {"w_notify", "w_full", "w_sleep", "w_store", "w_again", "w_held", "held_sleep"}
ReadPcs == {"r_writer", "r_ready", "r_sleep", "r_woken", "r_take", "r_again"}
PortPcs == {"a_scan", "a_register", "a_clear", "a_get"}
AltPcs == PortPcs \cup {"a_lock", "a_sleep", "a_relock", "a_unlock"}
Pcs == WritePcs \cup ReadPcs \cup AltPcs \cup ResOps
         \cup {"idle", "delay", "clear", "clear_ready", "to_get", "reflect", "b_next"}
Frame(S) == [pc : Pcs, op : Calls \cup {NoOp}, ch : Ports \cup {NULL}, idx : Nat, val : Value,
             ret : {"idle", "a_unlock", "b_next"}, since : S]

(* What the place where a thread is says about the rest of its frame.      *)
FrameFits(x) ==
  /\ x.pc \in WritePcs \cup ReadPcs \cup {"clear", "clear_ready"} => x.ch \in Chans
  /\ x.pc = "to_get" => x.ch \in Timeouts
  /\ x.pc \in ResOps => x.ch \in Results
  /\ x.pc \in AltPcs \/ x.ret = "a_unlock" => x.op \in Calls /\ x.op.op \in AltOps
  /\ x.pc \in {"reflect", "b_next"} \/ x.ret = "b_next" => x.op \in Calls /\ x.op.op = "reflect"
  /\ x.pc \in PortPcs \cup {"b_next"} \/ x.ret = "b_next" => x.idx # 0
  /\ x.pc = "a_get" => x.idx <= Len(x.op.ports)
  /\ x.pc # "idle" => x.op \in Calls

Typed(S) ==
  /\ 0 \in S /\ now \in S
  /\ prog \in Programs /\ cur \in Threads \cup {NULL}
  /\ left \in [Users -> Nat]
  /\ w \in World(S)
  /\ f \in [Users -> Frame(S)]
  /\ got \in [Chans -> Seq(Value)]
  /\ \A t \in Users : FrameFits(f[t])

-----------------------------------------------------------------------------
(* The helper threads are distinct from the users and from each other.     *)
LEMMA HelperIds ==
  /\ \A c \in Chans, r \in Users : WakerOf(c, r) \in Helpers
  /\ \A o \in Timeouts : TimerOf(o) \in Helpers
  /\ \A c, d \in Chans, r, u \in Users : WakerOf(c, r) = WakerOf(d, u) => c = d /\ r = u
  /\ \A c \in Chans, r \in Users, o \in Timeouts : WakerOf(c, r) # TimerOf(o)
  /\ \A o, p \in Timeouts : TimerOf(o) = TimerOf(p) => o = p
  /\ \A t \in Users : t \notin Helpers /\ t # NULL /\ t \in Threads
  /\ \A h \in Helpers : h # NULL /\ h \in Threads
<1>1. \A c \in Chans, r \in Users : WakerOf(c, r) \in Helpers
  BY DEF Helpers
<1>2. \A o \in Timeouts : TimerOf(o) \in Helpers
  BY DEF Helpers
<1>3. \A c, d \in Chans, r, u \in Users : WakerOf(c, r) = WakerOf(d, u) => c = d /\ r = u
  BY DEF WakerOf
<1>4. \A c \in Chans, r \in Users, o \in Timeouts : WakerOf(c, r) # TimerOf(o)
  BY DistinctObjects DEF WakerOf, TimerOf
<1>5. \A o, p \in Timeouts : TimerOf(o) = TimerOf(p) => o = p
  BY DEF TimerOf
<1>6. \A t \in Users : t \notin Helpers /\ t # NULL /\ t \in Threads
  BY DistinctObjects DEF Threads
<1>7. \A h \in Helpers : h # NULL /\ h \in Threads
  BY DistinctObjects DEF Threads
<1>8. QED
  BY <1>1, <1>2, <1>3, <1>4, <1>5, <1>6, <1>7

-----------------------------------------------------------------------------
(* Helpers serve those that wait.  s is a world, me the thread that runs.  *)
WakersServe(s) ==
  \A c \in Chans, r \in Users : s.st[WakerOf(c, r)] \in Live <=> r \in s.ch[c].wakers
WakersRead(s) == \A c \in Chans : s.ch[c].wakers \subseteq s.ch[c].readers
WakersClocked(s) == \A c \in Chans : s.ch[c].wakers # {} => Class(c).kind = "clock"
OneReader(s) == \A c \in Chans : ~Class(c).multi => \A a, b \in s.ch[c].readers : a = b
TimersServe(s) ==
  \A o \in Timeouts : s.st[TimerOf(o)] \in Live => s.to[o].writet = TRUE /\ s.to[o].readt # NULL
OneRuns(s, me) == \A t \in Threads : s.st[t] = "run" <=> me = t
Good(S, s, me) == /\ s \in World(S)
                  /\ WakersServe(s) /\ WakersRead(s) /\ WakersClocked(s) /\ OneReader(s)
                  /\ TimersServe(s) /\ OneRuns(s, me)

(* A change that leaves the helpers alone and registers no one.            *)
Harmless(s, x) ==
  /\ \A h \in Helpers : x.st[h] = s.st[h]
  /\ \A u \in Users : x.st[u] = "run" <=> s.st[u] = "run"
  /\ \A c \in Chans : /\ x.ch[c].wakers = s.ch[c].wakers
                      /\ x.ch[c].readers \subseteq s.ch[c].readers
                      /\ x.ch[c].wakers \subseteq x.ch[c].readers
  /\ \A o \in Timeouts : x.to[o].readt = s.to[o].readt /\ x.to[o].writet = s.to[o].writet

LEMMA HarmlessGood ==
  ASSUME NEW S, NEW s, NEW me, Good(S, s, me), NEW x \in World(S), Harmless(s, x)
  PROVE  Good(S, x, me)
<1>1. WakersServe(x) /\ WakersRead(x)
  BY HelperIds DEF Good, Harmless, WakersServe, WakersRead
<1>2. WakersClocked(x) /\ OneReader(x)
  BY DEF Good, Harmless, WakersClocked, OneReader
<1>3. TimersServe(x)
  BY HelperIds DEF Good, Harmless, TimersServe
<1>4. OneRuns(x, me)
  BY DEF Good, Harmless, OneRuns, Threads
<1>5. QED
  BY <1>1, <1>2, <1>3, <1>4 DEF Good

(* Replacing one part of a world.                                          *)
LEMMA SetCh ==
  ASSUME NEW S, NEW s \in World(S), NEW c \in Chans, NEW y \in Channel(S)
  PROVE  LET x == [s EXCEPT !.ch[c] = y]
         IN  /\ x \in World(S)
             /\ x.st = s.st /\ x.to = s.to /\ x.res = s.res /\ x.waiters = s.waiters
             /\ x.fault = s.fault
             /\ \A d \in Chans : x.ch[d] = IF d = c THEN y ELSE s.ch[d]
  BY DEF World

LEMMA SetSt ==
  ASSUME NEW S, NEW s \in World(S), NEW t \in Threads, NEW v \in Status
  PROVE  LET x == [s EXCEPT !.st[t] = v]
         IN  /\ x \in World(S)
             /\ x.ch = s.ch /\ x.to = s.to /\ x.res = s.res /\ x.waiters = s.waiters
             /\ x.fault = s.fault
             /\ \A u \in Threads : x.st[u] = IF u = t THEN v ELSE s.st[u]
  BY DEF World

LEMMA FailFacts ==
  ASSUME NEW S, NEW s \in World(S), NEW v \in Faults
  PROVE  LET x == Fail(s, v)
         IN  /\ x \in World(S)
             /\ x.st = s.st /\ x.ch = s.ch /\ x.to = s.to /\ x.res = s.res
             /\ x.waiters = s.waiters /\ x.fault = v
  BY DEF World, Fail

LEMMA UnlockedFacts ==
  ASSUME NEW S, NEW s \in World(S)
  PROVE  LET x == Unlocked(s)
         IN  /\ x \in World(S)
             /\ x.st = s.st /\ x.ch = s.ch /\ x.to = s.to /\ x.res = s.res
             /\ x.waiters = s.waiters /\ x.fault = s.fault
  BY DEF World, Unlocked
(* What the calls of the scheduler do to a world.                          *)
SameObjects(s, x) == x.ch = s.ch /\ x.to = s.to /\ x.res = s.res /\ x.waiters = s.waiters
Woke(s, x, t, how) ==
  \A u \in Threads : x.st[u] = IF u = t /\ s.st[u] = how THEN "ready" ELSE s.st[u]
Readied(s, x, t) ==
  /\ SameObjects(s, x) /\ Woke(s, x, t, "sleep")
  /\ x.fault \in {s.fault, "null_wake", "bad_wake"}
  /\ t # NULL /\ s.st[t] \in {"sleep", "ready", "done"} => x.fault = s.fault
BusyReadied(s, x, t) ==
  /\ SameObjects(s, x) /\ Woke(s, x, t, "busy")
  /\ x.fault \in {s.fault, "bad_wake"}
  /\ s.st[t] = "busy" => x.fault = s.fault
Moved(s, x, h, to) ==
  /\ SameObjects(s, x) /\ x.fault = s.fault
  /\ \A u \in Threads : x.st[u] = IF u = h THEN to ELSE s.st[u]

LEMMA AddReadyFacts ==
  ASSUME NEW S, NEW s \in World(S), NEW t \in Users \cup {NULL}
  PROVE  AddReady(s, t) \in World(S) /\ Readied(s, AddReady(s, t), t)
<1> DEFINE x == AddReady(s, t)
<1>1. CASE t = NULL
  <2>1. x = Fail(s, "null_wake")
    BY <1>1 DEF AddReady
  <2>2. \A u \in Threads : u # t
    BY <1>1, HelperIds DEF Threads
  <2>3. QED
    BY <1>1, <2>1, <2>2, FailFacts DEF Faults, SameObjects, Woke, Readied
<1>2. CASE t # NULL /\ s.st[t] = "sleep"
  <2>1. x = [s EXCEPT !.st[t] = "ready"] /\ t \in Threads /\ "ready" \in Status
    BY <1>2, HelperIds DEF AddReady, Status, Live
  <2>2. QED
    BY <1>2, <2>1, SetSt DEF SameObjects, Woke, Readied
<1>3. CASE t # NULL /\ s.st[t] \in {"ready", "done"}
  <2>1. x = s
    BY <1>3 DEF AddReady
  <2>2. QED
    BY <1>3, <2>1 DEF SameObjects, Woke, Readied
<1>4. CASE t # NULL /\ s.st[t] \notin {"sleep", "ready", "done"}
  <2>1. x = Fail(s, "bad_wake")
    BY <1>4 DEF AddReady
  <2>2. QED
    BY <1>4, <2>1, FailFacts DEF Faults, SameObjects, Woke, Readied
<1>5. QED
  BY <1>1, <1>2, <1>3, <1>4

LEMMA WakeFacts ==
  ASSUME NEW S, NEW s \in World(S), NEW t \in Users \cup {NULL}
  PROVE  Wake(s, t) \in World(S) /\ Readied(s, Wake(s, t), t)
<1> DEFINE y == AddReady(s, t)
<1>1. y \in World(S) /\ Readied(s, y, t)
  BY AddReadyFacts
<1>2. Wake(s, t) = Unlocked(y)
  BY DEF Wake
<1> HIDE DEF y
<1>3. QED
  BY <1>1, <1>2, UnlockedFacts DEF SameObjects, Woke, Readied

LEMMA BusyWakeFacts ==
  ASSUME NEW S, NEW s \in World(S), NEW t \in Users
  PROVE  BusyWake(s, t) \in World(S) /\ BusyReadied(s, BusyWake(s, t), t)
<1> DEFINE x == BusyWake(s, t)
           y == Unlocked(s)
<1>0. t \in Threads /\ "ready" \in Status /\ "bad_wake" \in Faults
  BY HelperIds DEF Status, Live, Faults
<1>1. CASE s.st[t] = "busy"
  <2>1. x = [y EXCEPT !.st[t] = "ready"]
    BY <1>1 DEF BusyWake
  <2>2. y \in World(S) /\ SameObjects(s, y) /\ y.st = s.st /\ y.fault = s.fault
    BY UnlockedFacts DEF SameObjects
  <2> HIDE DEF y, x
  <2>3. QED
    BY <1>0, <1>1, <2>1, <2>2, SetSt DEF SameObjects, Woke, BusyReadied, x
<1>2. CASE s.st[t] # "busy"
  <2>1. x = Fail(s, "bad_wake")
    BY <1>2 DEF BusyWake
  <2>2. QED
    BY <1>0, <1>2, <2>1, FailFacts DEF SameObjects, Woke, BusyReadied
<1>3. QED
  BY <1>1, <1>2

LEMMA SpawnFacts ==
  ASSUME NEW S, 0 \in S, NEW s \in World(S), NEW h \in Helpers
  PROVE  Spawn(s, h) \in World(S) /\ Moved(s, Spawn(s, h), h, "ready")
<1>1. PICK y \in World(S) : y = Unlocked(s)
  BY UnlockedFacts
<1>2. y.st = s.st /\ SameObjects(s, y) /\ y.fault = s.fault
  BY <1>1, UnlockedFacts DEF SameObjects
<1>3. h \in Threads /\ "ready" \in Status
  BY HelperIds DEF Status, Live
<1> DEFINE z == [y EXCEPT !.st[h] = "ready"]
           x == Spawn(s, h)
<1>4. /\ z \in World(S) /\ SameObjects(s, z) /\ z.fault = s.fault
      /\ \A u \in Threads : z.st[u] = IF u = h THEN "ready" ELSE s.st[u]
  BY <1>1, <1>2, <1>3, SetSt DEF SameObjects
<1>5. x = [z EXCEPT !.due[h] = 0]
  BY <1>1 DEF Spawn, World
<1> HIDE DEF z, x
<1>6. x \in World(S) /\ SameObjects(z, x) /\ x.fault = z.fault /\ x.st = z.st
  BY <1>3, <1>4, <1>5 DEF World, SameObjects
<1>7. QED
  BY <1>4, <1>6 DEF SameObjects, Moved, x

LEMMA TerminateFacts ==
  ASSUME NEW S, NEW s \in World(S), NEW h \in Helpers
  PROVE  Terminate(s, h) \in World(S) /\ Moved(s, Terminate(s, h), h, "done")
<1>1. PICK y \in World(S) : y = Unlocked(s)
  BY UnlockedFacts
<1>2. y.st = s.st /\ SameObjects(s, y) /\ y.fault = s.fault
  BY <1>1, UnlockedFacts DEF SameObjects
<1>3. h \in Threads /\ "done" \in Status
  BY HelperIds DEF Status, Live
<1>4. Terminate(s, h) = [y EXCEPT !.st[h] = "done"]
  BY <1>1 DEF Terminate
<1>5. QED
  BY <1>1, <1>2, <1>3, <1>4, SetSt DEF SameObjects, Moved

-----------------------------------------------------------------------------
(* What the channel operations do to a world: the items, the writers, the  *)
(* registered readers with their wakers, the other objects.                *)
SameItems(s, x) ==
  \A d \in Chans : x.ch[d].store = s.ch[d].store /\ x.ch[d].data = s.ch[d].data
SameWriters(s, x) == \A d \in Chans : x.ch[d].writers = s.ch[d].writers
SameReaders(s, x) ==
  \A d \in Chans : x.ch[d].readers = s.ch[d].readers /\ x.ch[d].wakers = s.ch[d].wakers
SameOthers(s, x) == x.to = s.to /\ x.res = s.res /\ x.waiters = s.waiters
NewReaders(s, x, c, a, b) ==
  /\ SameItems(s, x) /\ SameWriters(s, x) /\ SameOthers(s, x)
  /\ \A d \in Chans : /\ x.ch[d].readers = IF d = c THEN a ELSE s.ch[d].readers
                      /\ x.ch[d].wakers = IF d = c THEN b ELSE s.ch[d].wakers

LEMMA NewReadersTwice ==
  ASSUME NEW s, NEW x, NEW z, NEW c, NEW a, NEW b, NEW d, NewReaders(s, x, c, a, b),
         NewReaders(x, z, c, a, d)
  PROVE  NewReaders(s, z, c, a, d)
<1>1. SameItems(s, z) /\ SameWriters(s, z) /\ SameOthers(s, z)
  <2>1. SameItems(s, x) /\ SameWriters(s, x) /\ SameOthers(s, x)
    BY DEF NewReaders
  <2>2. SameItems(x, z) /\ SameWriters(x, z) /\ SameOthers(x, z)
    BY DEF NewReaders
  <2>3. QED
    BY <2>1, <2>2 DEF SameItems, SameWriters, SameOthers
<1>2. \A e \in Chans : /\ z.ch[e].readers = IF e = c THEN a ELSE s.ch[e].readers
                       /\ z.ch[e].wakers = IF e = c THEN d ELSE s.ch[e].wakers
  BY DEF NewReaders
<1>3. QED
  BY <1>1, <1>2 DEF NewReaders

LEMMA NewReadersFacts ==
  ASSUME NEW S, NEW s \in World(S), NEW c \in Chans, NEW y \in Channel(S),
         y.store = s.ch[c].store, y.data = s.ch[c].data, y.writers = s.ch[c].writers
  PROVE  LET x == [s EXCEPT !.ch[c] = y]
         IN  /\ x \in World(S) /\ x.st = s.st /\ x.fault = s.fault
             /\ NewReaders(s, x, c, y.readers, y.wakers)
<1> DEFINE x == [s EXCEPT !.ch[c] = y]
<1>1. /\ x \in World(S) /\ x.st = s.st /\ x.fault = s.fault /\ SameOthers(s, x)
      /\ \A d \in Chans : x.ch[d] = IF d = c THEN y ELSE s.ch[d]
  BY SetCh DEF SameOthers
<1> HIDE DEF x
<1>2. QED
  BY <1>1 DEF SameItems, SameWriters, NewReaders, x

LEMMA UnregisterFacts ==
  ASSUME NEW S, NEW s \in World(S), NEW c \in Chans, NEW r
  PROVE  LET x == Unregister(s, c, r)
         IN  /\ x \in World(S) /\ x.st = s.st /\ x.fault = s.fault
             /\ NewReaders(s, x, c, s.ch[c].readers \ {r}, s.ch[c].wakers \ {r})
<1>1. PICK k \in Channel(S) : k = s.ch[c]
  BY DEF World
<1> DEFINE x == Unregister(s, c, r)
           a == k.readers \ {r}
           b == k.wakers \ {r}
           y == [k EXCEPT !.readers = a, !.wakers = b]
<1>2. a \in SUBSET Users /\ b \in SUBSET Users
  BY <1>1 DEF Channel
<1>3. x = [s EXCEPT !.ch[c] = y]
  BY <1>1 DEF Unregister, World, Channel
<1> HIDE DEF a, b, x
<1>4. /\ y \in Channel(S)
      /\ y.store = k.store /\ y.data = k.data /\ y.writers = k.writers
      /\ y.readers = a /\ y.wakers = b
  BY <1>1, <1>2 DEF Channel
<1> HIDE DEF y
<1>5. x \in World(S) /\ x.st = s.st /\ x.fault = s.fault /\ NewReaders(s, x, c, a, b)
  BY <1>1, <1>3, <1>4, NewReadersFacts
<1>6. QED
  BY <1>1, <1>5 DEF a, b, x

(* A waker is spawned or cancelled: the channel and the thread agree.      *)
LEMMA WakersFacts ==
  ASSUME NEW S, NEW s \in World(S), NEW c \in Chans, NEW b \in SUBSET Users
  PROVE  LET x == [s EXCEPT !.ch[c].wakers = b]
         IN  /\ x \in World(S) /\ x.st = s.st /\ x.fault = s.fault
             /\ NewReaders(s, x, c, s.ch[c].readers, b)
<1>1. PICK k \in Channel(S) : k = s.ch[c]
  BY DEF World
<1> DEFINE x == [s EXCEPT !.ch[c].wakers = b]
           y == [k EXCEPT !.wakers = b]
<1>3. x = [s EXCEPT !.ch[c] = y]
  BY <1>1 DEF World, Channel
<1>4. /\ y \in Channel(S)
      /\ y.store = k.store /\ y.data = k.data /\ y.writers = k.writers
      /\ y.readers = k.readers /\ y.wakers = b
  BY <1>1 DEF Channel
<1> HIDE DEF x, y
<1>5. /\ x \in World(S) /\ x.st = s.st /\ x.fault = s.fault
      /\ NewReaders(s, x, c, k.readers, b)
  BY <1>1, <1>3, <1>4, NewReadersFacts
<1>6. QED
  BY <1>1, <1>5 DEF x

WakerStarted(s, x, c, r) ==
  /\ x.fault = s.fault
  /\ NewReaders(s, x, c, s.ch[c].readers, s.ch[c].wakers \cup {r})
  /\ \A u \in Threads : x.st[u] =
       IF u = WakerOf(c, r) /\ r \notin s.ch[c].wakers THEN "ready" ELSE s.st[u]
WakerCancelled(s, x, c, r) ==
  /\ x.fault = s.fault
  /\ NewReaders(s, x, c, s.ch[c].readers, s.ch[c].wakers \ {r})
  /\ \A u \in Threads : x.st[u] =
       IF u = WakerOf(c, r) /\ r \in s.ch[c].wakers THEN "done" ELSE s.st[u]

LEMMA StartWakerFacts ==
  ASSUME NEW S, 0 \in S, NEW s \in World(S), NEW c \in Chans, NEW r \in Users
  PROVE  StartWaker(s, c, r) \in World(S) /\ WakerStarted(s, StartWaker(s, c, r), c, r)
<1> DEFINE x == StartWaker(s, c, r)
           a == s.ch[c].wakers \cup {r}
<1>1. CASE r \in s.ch[c].wakers
  <2>1. x = s /\ a = s.ch[c].wakers
    BY <1>1 DEF StartWaker
  <2>2. QED
    BY <1>1, <2>1 DEF SameItems, SameWriters, SameOthers, NewReaders, WakerStarted
<1>2. CASE r \notin s.ch[c].wakers
  <2> DEFINE y == [s EXCEPT !.ch[c].wakers = a]
  <2>1. x = Spawn(y, WakerOf(c, r))
    BY <1>2 DEF StartWaker
  <2>2. a \in SUBSET Users
    BY DEF World, Channel
  <2> HIDE DEF x, a
  <2>3. /\ y \in World(S) /\ y.st = s.st /\ y.fault = s.fault
        /\ NewReaders(s, y, c, s.ch[c].readers, a)
    BY <2>2, WakersFacts
  <2> HIDE DEF y
  <2>4. WakerOf(c, r) \in Helpers
    BY HelperIds
  <2>5. x \in World(S) /\ Moved(y, x, WakerOf(c, r), "ready")
    BY <2>1, <2>3, <2>4, SpawnFacts
  <2>6. x.fault = s.fault /\ NewReaders(s, x, c, s.ch[c].readers, a)
    BY <2>3, <2>5 DEF Moved, SameObjects, SameItems, SameWriters, SameOthers, NewReaders
  <2>7. QED
    BY <1>2, <2>3, <2>5, <2>6 DEF Moved, WakerStarted, x, a
<1>3. QED
  BY <1>1, <1>2

LEMMA CancelWakerFacts ==
  ASSUME NEW S, NEW s \in World(S), NEW c \in Chans, NEW r \in Users
  PROVE  CancelWaker(s, c, r) \in World(S) /\ WakerCancelled(s, CancelWaker(s, c, r), c, r)
<1> DEFINE x == CancelWaker(s, c, r)
           a == s.ch[c].wakers \ {r}
<1>1. CASE r \notin s.ch[c].wakers
  <2>1. x = s /\ a = s.ch[c].wakers
    BY <1>1 DEF CancelWaker
  <2>2. QED
    BY <1>1, <2>1 DEF SameItems, SameWriters, SameOthers, NewReaders, WakerCancelled
<1>2. CASE r \in s.ch[c].wakers
  <2> DEFINE y == [s EXCEPT !.ch[c].wakers = a]
  <2>1. x = Terminate(y, WakerOf(c, r))
    BY <1>2 DEF CancelWaker
  <2>2. a \in SUBSET Users
    BY DEF World, Channel
  <2> HIDE DEF x, a
  <2>3. /\ y \in World(S) /\ y.st = s.st /\ y.fault = s.fault
        /\ NewReaders(s, y, c, s.ch[c].readers, a)
    BY <2>2, WakersFacts
  <2> HIDE DEF y
  <2>4. WakerOf(c, r) \in Helpers
    BY HelperIds
  <2>5. x \in World(S) /\ Moved(y, x, WakerOf(c, r), "done")
    BY <2>1, <2>3, <2>4, TerminateFacts
  <2>6. x.fault = s.fault /\ NewReaders(s, x, c, s.ch[c].readers, a)
    BY <2>3, <2>5 DEF Moved, SameObjects, SameItems, SameWriters, SameOthers, NewReaders
  <2>7. QED
    BY <1>2, <2>3, <2>5, <2>6 DEF Moved, WakerCancelled, x, a
<1>3. QED
  BY <1>1, <1>2

(* pAddReady(next_writer()): the first writer is taken out and woken.      *)
WriterLetIn(s, x, c) ==
  /\ SameItems(s, x) /\ SameReaders(s, x) /\ SameOthers(s, x)
  /\ \/ x = s /\ s.ch[c].writers = <<>>
     \/ /\ s.ch[c].writers # <<>> /\ Head(s.ch[c].writers) \in Users
        /\ Woke(s, x, Head(s.ch[c].writers), "sleep")
        /\ x.fault \in {s.fault, "null_wake", "bad_wake"}
        /\ s.st[Head(s.ch[c].writers)] \in {"sleep", "ready", "done"} => x.fault = s.fault
        /\ \A d \in Chans : x.ch[d].writers =
             IF d = c THEN Tail(s.ch[c].writers) ELSE s.ch[d].writers

LEMMA LetWriterInFacts ==
  ASSUME NEW S, NEW s \in World(S), NEW c \in Chans
  PROVE  LetWriterIn(s, c) \in World(S) /\ WriterLetIn(s, LetWriterIn(s, c), c)
<1> DEFINE x == LetWriterIn(s, c)
<1>1. CASE s.ch[c].writers = <<>>
  <2>1. x = s
    BY <1>1 DEF LetWriterIn, HaveWriters
  <2>2. QED
    BY <1>1, <2>1 DEF SameItems, SameReaders, SameOthers, WriterLetIn
<1>2. CASE s.ch[c].writers # <<>>
  <2>1. PICK k \in Channel(S) : k = s.ch[c]
    BY DEF World
  <2> DEFINE h == Head(k.writers)
             a == Tail(k.writers)
             y == [k EXCEPT !.writers = a]
             z == [s EXCEPT !.ch[c] = y]
  <2>2. h \in Users /\ a \in Seq(Users)
    BY <1>2, <2>1 DEF Channel
  <2>3. /\ y \in Channel(S)
        /\ y.store = k.store /\ y.data = k.data /\ y.writers = a
        /\ y.readers = k.readers /\ y.wakers = k.wakers
    <3> HIDE DEF a
    <3>1. QED
      BY <2>1, <2>2 DEF Channel
  <2>4. x = AddReady(z, h)
    BY <1>2, <2>1 DEF LetWriterIn, HaveWriters, PopWriter
  <2> HIDE DEF x, y
  <2>5. /\ z \in World(S) /\ z.st = s.st /\ z.fault = s.fault /\ SameOthers(s, z)
        /\ \A d \in Chans : z.ch[d] = IF d = c THEN y ELSE s.ch[d]
    BY <2>3, SetCh DEF SameOthers
  <2> HIDE DEF z
  <2>6. x \in World(S) /\ Readied(z, x, h) /\ h # NULL
    <3>1. h \in Users \cup {NULL} /\ h # NULL
      BY <2>2, HelperIds
    <3> HIDE DEF h
    <3>2. QED
      BY <2>4, <2>5, <3>1, AddReadyFacts
  <2>7. /\ h = Head(s.ch[c].writers) /\ a = Tail(s.ch[c].writers)
        /\ \A d \in Chans : x.ch[d] = IF d = c THEN y ELSE s.ch[d]
        /\ SameOthers(s, x) /\ Woke(s, x, h, "sleep")
        /\ x.fault \in {s.fault, "null_wake", "bad_wake"}
        /\ s.st[h] \in {"sleep", "ready", "done"} => x.fault = s.fault
    BY <2>1, <2>5, <2>6 DEF SameObjects, SameOthers, Woke, Readied
  <2> HIDE DEF h, a
  <2>8. SameItems(s, x) /\ SameReaders(s, x)
    BY <2>1, <2>3, <2>7 DEF SameItems, SameReaders
  <2>9. QED
    BY <1>2, <2>2, <2>3, <2>6, <2>7, <2>8 DEF WriterLetIn, x
<1>3. QED
  BY <1>1, <1>2

(* What notify_reader() and delayed_wakeup() do: the reader is taken out   *)
(* and woken, or, on a clocked channel, its waker is under way.            *)
WakesFrom(c) == IF Class(c).kind = "busy" THEN "busy" ELSE "sleep"
ReaderWoken(s, x, c, r) ==
  /\ NewReaders(s, x, c, s.ch[c].readers \ {r}, s.ch[c].wakers \ {r})
  /\ x.fault \in {s.fault, "null_wake", "bad_wake"}
  /\ s.st[r] = WakesFrom(c) \/ (s.st[r] = "ready" /\ Class(c).kind # "busy")
       => x.fault = s.fault
  /\ \A u \in Threads : x.st[u] =
       IF u = WakerOf(c, r) /\ r \in s.ch[c].wakers /\ Class(c).kind = "clock" THEN "done"
       ELSE IF u = r /\ s.st[u] = WakesFrom(c) THEN "ready" ELSE s.st[u]
Notified(s, x, c, r) ==
  \/ Class(c).kind = "clock" /\ WakerStarted(s, x, c, r)
  \/ ReaderWoken(s, x, c, r)

LEMMA NotifyReaderFacts ==
  ASSUME NEW S, 0 \in S, NEW s \in World(S), NEW c \in Chans, NEW r \in Users
  PROVE  NotifyReader(s, c, r) \in World(S) /\ Notified(s, NotifyReader(s, c, r), c, r)
<1> DEFINE x == NotifyReader(s, c, r)
           a == s.ch[c].readers \ {r}
           b == s.ch[c].wakers \ {r}
<1>0. WakerOf(c, r) # r /\ r # NULL /\ r \in Users \cup {NULL} /\ r \in Threads
  BY HelperIds
<1>1. CASE Class(c).kind = "busy"
  <2> DEFINE y == Unregister(s, c, r)
  <2>1. x = BusyWake(y, r)
    BY <1>1 DEF NotifyReader
  <2>2. y \in World(S) /\ y.st = s.st /\ y.fault = s.fault /\ NewReaders(s, y, c, a, b)
    BY UnregisterFacts
  <2> HIDE DEF x, y, a, b
  <2>3. x \in World(S) /\ BusyReadied(y, x, r)
    BY <2>1, <2>2, BusyWakeFacts
  <2>4. NewReaders(s, x, c, a, b)
    BY <2>2, <2>3 DEF BusyReadied, SameObjects, NewReaders, SameItems, SameWriters, SameOthers
  <2>5. ReaderWoken(s, x, c, r)
    BY <1>0, <1>1, <2>2, <2>3, <2>4 DEF BusyReadied, Woke, ReaderWoken, WakesFrom, a, b
  <2>6. QED
    BY <2>3, <2>5 DEF Notified, x
<1>2. CASE Class(c).kind \notin {"busy", "clock"}
  <2> DEFINE y == Unregister(s, c, r)
  <2>1. x = Wake(y, r)
    BY <1>2 DEF NotifyReader
  <2>2. y \in World(S) /\ y.st = s.st /\ y.fault = s.fault /\ NewReaders(s, y, c, a, b)
    BY UnregisterFacts
  <2> HIDE DEF x, y, a, b
  <2>3. x \in World(S) /\ Readied(y, x, r)
    BY <1>0, <2>1, <2>2, WakeFacts
  <2>4. NewReaders(s, x, c, a, b)
    BY <2>2, <2>3 DEF Readied, SameObjects, NewReaders, SameItems, SameWriters, SameOthers
  <2>5. ReaderWoken(s, x, c, r)
    BY <1>0, <1>2, <2>2, <2>3, <2>4 DEF Readied, Woke, ReaderWoken, WakesFrom, a, b
  <2>6. QED
    BY <2>3, <2>5 DEF Notified, x
<1>3. CASE Class(c).kind = "clock" /\ x = StartWaker(s, c, r)
  BY <1>3, StartWakerFacts DEF Notified
<1>4. CASE Class(c).kind = "clock" /\ x = Wake(Unregister(CancelWaker(s, c, r), c, r), r)
  <2> DEFINE y == CancelWaker(s, c, r)
             z == Unregister(y, c, r)
  <2>1. x = Wake(z, r)
    BY <1>4
  <2>2. y \in World(S) /\ WakerCancelled(s, y, c, r)
    BY CancelWakerFacts
  <2> HIDE DEF x, y
  <2>3. /\ z \in World(S) /\ z.st = y.st /\ z.fault = y.fault
        /\ NewReaders(y, z, c, y.ch[c].readers \ {r}, y.ch[c].wakers \ {r})
    BY <2>2, UnregisterFacts
  <2> HIDE DEF z
  <2>4. NewReaders(s, z, c, a, b)
    <3>1. y.ch[c].readers \ {r} = a /\ y.ch[c].wakers \ {r} = b
      BY <2>2 DEF WakerCancelled, NewReaders
    <3> HIDE DEF a, b
    <3>2. NewReaders(y, z, c, a, b) /\ NewReaders(s, y, c, s.ch[c].readers, s.ch[c].wakers \ {r})
      BY <2>2, <2>3, <3>1 DEF WakerCancelled
    <3>3. QED
      BY <3>2 DEF NewReaders, SameItems, SameWriters, SameOthers
  <2> HIDE DEF a, b
  <2>5. x \in World(S) /\ Readied(z, x, r)
    BY <1>0, <2>1, <2>3, WakeFacts
  <2>6. NewReaders(s, x, c, a, b)
    BY <2>4, <2>5 DEF Readied, SameObjects, NewReaders, SameItems, SameWriters, SameOthers
  <2>7. z.st[r] = s.st[r]
    BY <1>0, <2>2, <2>3 DEF WakerCancelled
  <2>8. \A u \in Threads : x.st[u] =
          IF u = WakerOf(c, r) /\ r \in s.ch[c].wakers THEN "done"
          ELSE IF u = r /\ s.st[u] = "sleep" THEN "ready" ELSE s.st[u]
    BY <1>0, <2>2, <2>3, <2>5 DEF Readied, Woke, WakerCancelled
  <2>9. x.fault \in {s.fault, "null_wake", "bad_wake"} /\ z.fault = s.fault
    BY <2>2, <2>3, <2>5 DEF Readied, WakerCancelled
  <2>10. s.st[r] \in {"sleep", "ready"} => x.fault = s.fault
    BY <1>0, <2>5, <2>7, <2>9 DEF Readied
  <2>11. ReaderWoken(s, x, c, r)
    BY <1>4, <2>6, <2>8, <2>9, <2>10 DEF ReaderWoken, WakesFrom, a, b
  <2>12. QED
    BY <2>5, <2>11 DEF Notified, x
<1>5. Class(c).kind = "clock" =>
        x \in {StartWaker(s, c, r), Wake(Unregister(CancelWaker(s, c, r), c, r), r)}
  BY DEF NotifyReader, DelayedWakeup
<1>6. QED
  BY <1>1, <1>2, <1>3, <1>4, <1>5

-----------------------------------------------------------------------------
(* What set_notify() and clear_notify() do to a world.                     *)
Refused(s, x, why) == SameObjects(s, x) /\ x.st = s.st /\ x.fault = why

Registered(s, x, c, t) ==
  LET starts == Class(c).kind = "clock" /\ s.ch[c].store # <<>>
  IN  /\ Class(c).multi = TRUE \/ s.ch[c].readers = {}
      /\ x.fault = s.fault
      /\ NewReaders(s, x, c, s.ch[c].readers \cup {t},
                    IF starts THEN s.ch[c].wakers \cup {t} ELSE s.ch[c].wakers)
      /\ \A u \in Threads : x.st[u] =
           IF u = WakerOf(c, t) /\ starts /\ t \notin s.ch[c].wakers THEN "ready" ELSE s.st[u]

LEMMA ChanSetNotifyFacts ==
  ASSUME NEW S, 0 \in S, NEW s \in World(S), NEW c \in Chans, NEW t \in Users,
         Class(c).multi \in BOOLEAN
  PROVE  LET x == ChanSetNotify(s, c, t)
         IN  /\ x \in World(S)
             /\ \/ Refused(s, x, "assert_readt") /\ Class(c).multi = FALSE /\ s.ch[c].readers # {}
                \/ Registered(s, x, c, t)
<1> DEFINE x == ChanSetNotify(s, c, t)
<1>1. CASE ~Class(c).multi /\ s.ch[c].readers # {}
  <2>1. x = Fail(s, "assert_readt") /\ "assert_readt" \in Faults
    BY <1>1 DEF ChanSetNotify, HaveReader, Faults
  <2>2. QED
    BY <1>1, <2>1, FailFacts DEF Refused, SameObjects
<1>2. CASE Class(c).multi \/ s.ch[c].readers = {}
  <2>1. PICK k \in Channel(S) : k = s.ch[c]
    BY DEF World
  <2> DEFINE a == k.readers \cup {t}
             y == [k EXCEPT !.readers = a]
             z == [s EXCEPT !.ch[c] = y]
  <2>2. a \in SUBSET Users
    BY <2>1 DEF Channel
  <2>3. z = [s EXCEPT !.ch[c].readers = @ \cup {t}]
    BY <2>1 DEF World, Channel
  <2>4. x = IF Class(c).kind = "clock" /\ s.ch[c].store # <<>> THEN StartWaker(z, c, t) ELSE z
    BY <1>2, <2>3 DEF ChanSetNotify, HaveReader, IsEmpty
  <2> HIDE DEF a, x
  <2>5. /\ y \in Channel(S)
        /\ y.store = k.store /\ y.data = k.data /\ y.writers = k.writers
        /\ y.readers = a /\ y.wakers = k.wakers
    BY <2>1, <2>2 DEF Channel
  <2> HIDE DEF y
  <2>6. /\ z \in World(S) /\ z.st = s.st /\ z.fault = s.fault
        /\ NewReaders(s, z, c, a, k.wakers)
    BY <2>1, <2>5, NewReadersFacts
  <2> HIDE DEF z
  <2>7. CASE Class(c).kind = "clock" /\ s.ch[c].store # <<>>
    <3>1. x \in World(S) /\ WakerStarted(z, x, c, t)
      BY <2>4, <2>6, <2>7, StartWakerFacts
    <3>2. z.ch[c].readers = a /\ z.ch[c].wakers = k.wakers
      BY <2>6 DEF NewReaders
    <3>3. NewReaders(z, x, c, a, k.wakers \cup {t})
      BY <3>1, <3>2 DEF WakerStarted
    <3>4. NewReaders(s, x, c, a, k.wakers \cup {t})
      BY <2>6, <3>3, NewReadersTwice
    <3>5. /\ x.fault = s.fault
          /\ \A u \in Threads : x.st[u] =
               IF u = WakerOf(c, t) /\ t \notin k.wakers THEN "ready" ELSE s.st[u]
      BY <2>6, <3>1, <3>2 DEF WakerStarted
    <3>6. QED
      BY <1>2, <2>1, <2>7, <3>1, <3>4, <3>5 DEF Registered, x, a
  <2>8. CASE ~(Class(c).kind = "clock" /\ s.ch[c].store # <<>>)
    BY <1>2, <2>1, <2>4, <2>6, <2>8 DEF Registered, x, a
  <2>9. QED
    BY <2>7, <2>8
<1>3. QED
  BY <1>1, <1>2

Timed(s, x, o, t) ==
  /\ s.to[o].writet = FALSE /\ x.fault = s.fault
  /\ x.ch = s.ch /\ x.res = s.res /\ x.waiters = s.waiters
  /\ \A p \in Timeouts :
       x.to[p] = IF p = o THEN [ready |-> FALSE, readt |-> t, writet |-> TRUE] ELSE s.to[p]
  /\ \A u \in Threads : x.st[u] = IF u = TimerOf(o) THEN "ready" ELSE s.st[u]

LEMMA ToSetNotifyFacts ==
  ASSUME NEW S, 0 \in S, NEW s \in World(S), NEW o \in Timeouts, NEW t \in Users
  PROVE  LET x == ToSetNotify(s, o, t)
         IN  /\ x \in World(S)
             /\ \/ Refused(s, x, "assert_writet") /\ s.to[o].writet = TRUE
                \/ Timed(s, x, o, t)
<1> DEFINE x == ToSetNotify(s, o, t)
<1>0. s.to[o].writet \in BOOLEAN
  BY DEF World
<1>1. CASE s.to[o].writet = TRUE
  <2>1. x = Fail(s, "assert_writet") /\ "assert_writet" \in Faults
    BY <1>1 DEF ToSetNotify, Faults
  <2>2. QED
    BY <1>1, <2>1, FailFacts DEF Refused, SameObjects
<1>2. CASE s.to[o].writet = FALSE
  <2> DEFINE e == [ready |-> FALSE, readt |-> t, writet |-> TRUE]
             y == [s EXCEPT !.to[o] = e]
  <2>1. x = Spawn(y, TimerOf(o))
    BY <1>2 DEF ToSetNotify
  <2> HIDE DEF x
  <2>2. /\ y \in World(S) /\ y.st = s.st /\ y.ch = s.ch /\ y.res = s.res
        /\ y.waiters = s.waiters /\ y.fault = s.fault
        /\ \A p \in Timeouts : y.to[p] = IF p = o THEN e ELSE s.to[p]
    <3>1. e \in [ready : BOOLEAN, readt : Users \cup {NULL}, writet : BOOLEAN]
      OBVIOUS
    <3> HIDE DEF e
    <3>2. QED
      BY <3>1 DEF World
  <2> HIDE DEF y
  <2>3. TimerOf(o) \in Helpers
    BY HelperIds
  <2>4. x \in World(S) /\ Moved(y, x, TimerOf(o), "ready")
    BY <2>1, <2>2, <2>3, SpawnFacts
  <2>5. QED
    BY <1>2, <2>2, <2>4 DEF Moved, SameObjects, Timed, x
<1>3. QED
  BY <1>0, <1>1, <1>2

Untimed(s, x, o) ==
  /\ x.fault = s.fault /\ x.ch = s.ch /\ x.res = s.res /\ x.waiters = s.waiters
  /\ \A p \in Timeouts :
       /\ x.to[p].ready = s.to[p].ready
       /\ x.to[p].readt = IF p = o THEN NULL ELSE s.to[p].readt
       /\ x.to[p].writet = IF p = o THEN FALSE ELSE s.to[p].writet
  /\ \A u \in Threads : x.st[u] =
       IF u = TimerOf(o) /\ s.to[o].writet = TRUE THEN "done" ELSE s.st[u]

LEMMA ToClearNotifyFacts ==
  ASSUME NEW S, NEW s \in World(S), NEW o \in Timeouts
  PROVE  ToClearNotify(s, o) \in World(S) /\ Untimed(s, ToClearNotify(s, o), o)
<1> DEFINE x == ToClearNotify(s, o)
           y == IF s.to[o].writet THEN Terminate(s, TimerOf(o)) ELSE s
<1>0. s.to[o].writet \in BOOLEAN /\ TimerOf(o) \in Helpers
  BY HelperIds DEF World
<1>1. /\ y \in World(S) /\ SameObjects(s, y) /\ y.fault = s.fault
      /\ \A u \in Threads : y.st[u] =
           IF u = TimerOf(o) /\ s.to[o].writet = TRUE THEN "done" ELSE s.st[u]
  <2>1. CASE s.to[o].writet = TRUE
    <3>1. y = Terminate(s, TimerOf(o))
      BY <2>1
    <3>2. QED
      BY <1>0, <2>1, <3>1, TerminateFacts DEF Moved
  <2>2. CASE s.to[o].writet = FALSE
    <3>1. y = s
      BY <2>2
    <3>2. QED
      BY <2>2, <3>1 DEF SameObjects
  <2>3. QED
    BY <1>0, <2>1, <2>2
<1>2. x = [y EXCEPT !.to[o].readt = NULL, !.to[o].writet = FALSE]
  BY DEF ToClearNotify
<1> HIDE DEF x, y
<1>3. PICK k : k = y.to[o] /\ k \in [ready : BOOLEAN, readt : Users \cup {NULL}, writet : BOOLEAN]
  BY <1>1 DEF World
<1> DEFINE e == [k EXCEPT !.readt = NULL, !.writet = FALSE]
<1>4. /\ e \in [ready : BOOLEAN, readt : Users \cup {NULL}, writet : BOOLEAN]
      /\ e.ready = k.ready /\ e.readt = NULL /\ e.writet = FALSE
  BY <1>3
<1>5. x = [y EXCEPT !.to[o] = e]
  BY <1>1, <1>2, <1>3 DEF World
<1> HIDE DEF e
<1>6. /\ x \in World(S) /\ x.st = y.st /\ x.ch = y.ch /\ x.res = y.res
      /\ x.waiters = y.waiters /\ x.fault = y.fault
      /\ \A p \in Timeouts : x.to[p] = IF p = o THEN e ELSE y.to[p]
  BY <1>1, <1>4, <1>5 DEF World
<1>7. QED
  BY <1>1, <1>3, <1>4, <1>6 DEF SameObjects, Untimed, x

(* Sequences of threads without repetition.                                *)
NoRepeat(q) == \A i, j \in 1..Len(q) : q[i] = q[j] => i = j
Holds(q, e) == \E i \in 1..Len(q) : q[i] = e

LEMMA RemoveFirstFacts ==
  ASSUME NEW U, NEW q \in Seq(U), NEW e
  PROVE  LET x == RemoveFirst(q, e)
         IN  /\ x \in Seq(U)
             /\ \A u : Holds(x, u) => Holds(q, u)
             /\ NoRepeat(q) => NoRepeat(x) /\ ~Holds(x, e)
<1> DEFINE x == RemoveFirst(q, e)
<1>1. CASE ~Holds(q, e)
  <2>1. x = q
    BY <1>1 DEF RemoveFirst, Holds
  <2>2. QED
    BY <1>1, <2>1
<1>2. CASE Holds(q, e)
  <2> DEFINE T == {i \in 1..Len(q) : q[i] = e}
             m == Min(T)
  <2>1. T # {} /\ T \in SUBSET Nat
    BY <1>2 DEF Holds
  <2>2. SelectInSeq(q, LAMBDA v : v = e) = m
    BY <2>1 DEF SelectInSeq
  <2>3. m \in T
    BY <2>1, LeastNat DEF Min
  <2>4. x = SubSeq(q, 1, m - 1) \o SubSeq(q, m + 1, Len(q))
    BY <1>2, <2>2 DEF RemoveFirst, RemoveAt, Holds
  <2>5. m \in 1..Len(q) /\ q[m] = e
    BY <2>3
  <2> HIDE DEF m, x, T
  <2>6. /\ x \in Seq(U) /\ Len(x) = Len(q) - 1
        /\ \A j \in 1..(Len(q) - 1) : x[j] = IF j < m THEN q[j] ELSE q[j + 1]
    <3> DEFINE a == SubSeq(q, 1, m - 1)
               b == SubSeq(q, m + 1, Len(q))
    <3>1. a \in Seq(U) /\ Len(a) = m - 1 /\ \A j \in 1..(m - 1) : a[j] = q[j]
      BY <2>5
    <3>2. b \in Seq(U) /\ Len(b) = Len(q) - m /\ \A j \in 1..(Len(q) - m) : b[j] = q[m + j]
      BY <2>5
    <3> HIDE DEF a, b
    <3>3. x = a \o b
      BY <2>4 DEF a, b
    <3>4. x \in Seq(U) /\ Len(x) = Len(a) + Len(b)
      BY <3>1, <3>2, <3>3
    <3>5. ASSUME NEW j \in 1..(Len(q) - 1) PROVE x[j] = IF j < m THEN q[j] ELSE q[j + 1]
      <4>1. CASE j < m
        BY <2>5, <3>1, <3>2, <3>3, <3>5, <4>1
      <4>2. CASE ~(j < m)
        <5>1. j - (m - 1) \in 1..(Len(q) - m) /\ m + (j - (m - 1)) = j + 1 /\ ~(j <= Len(a))
          BY <2>5, <3>1, <3>5, <4>2
        <5>2. x[j] = b[j - Len(a)]
          BY <3>1, <3>2, <3>3, <3>4, <3>5, <5>1
        <5>3. QED
          BY <3>1, <3>2, <4>2, <5>1, <5>2
      <4>3. QED
        BY <4>1, <4>2
    <3>6. QED
      BY <2>5, <3>1, <3>2, <3>4, <3>5
  <2>7. \A u : Holds(x, u) => Holds(q, u)
    BY <2>5, <2>6 DEF Holds
  <2>8. NoRepeat(q) => NoRepeat(x) /\ ~Holds(x, e)
    <3>1. SUFFICES ASSUME NoRepeat(q) PROVE NoRepeat(x) /\ ~Holds(x, e)
      OBVIOUS
    <3> DEFINE at(j) == IF j < m THEN j ELSE j + 1
    <3>2. \A j \in 1..Len(x) : at(j) \in 1..Len(q) /\ at(j) # m /\ x[j] = q[at(j)]
      BY <2>5, <2>6
    <3>3. \A i, j \in 1..Len(x) : at(i) = at(j) => i = j
      BY <2>5, <2>6
    <3> HIDE DEF at
    <3>4. NoRepeat(x)
      BY <3>1, <3>2, <3>3 DEF NoRepeat
    <3>5. ~Holds(x, e)
      BY <2>5, <3>1, <3>2 DEF NoRepeat, Holds
    <3>6. QED
      BY <3>4, <3>5
  <2>9. QED
    BY <2>6, <2>7, <2>8 DEF x
<1>3. QED
  BY <1>1, <1>2

ResultAwaited(s, x, r, t) ==
  /\ s.res[r].rt = NULL /\ x.fault = s.fault /\ x.st = s.st /\ x.ch = s.ch /\ x.to = s.to
  /\ \A p \in Results : x.res[p].rt = IF p = r THEN t ELSE s.res[p].rt
  /\ \A u \in Users : x.waiters[u] =
       IF u = ResThread[r] THEN Append(s.waiters[u], t) ELSE s.waiters[u]

(* A result and its list of waiters replaced together.                     *)
ResReplaced(s, r, t, q) == [s EXCEPT !.res[r].rt = t, !.waiters[ResThread[r]] = q]
ResIs(s, x, r, t, q) ==
  /\ x.fault = s.fault /\ x.st = s.st /\ x.ch = s.ch /\ x.to = s.to
  /\ \A p \in Results : x.res[p].rt = IF p = r THEN t ELSE s.res[p].rt
  /\ \A u \in Users : x.waiters[u] = IF u = ResThread[r] THEN q ELSE s.waiters[u]
LEMMA SetRes ==
  ASSUME NEW S, NEW s \in World(S), NEW r \in Results, NEW t \in Users \cup {NULL},
         NEW q \in Seq(Users)
  PROVE  ResReplaced(s, r, t, q) \in World(S) /\ ResIs(s, ResReplaced(s, r, t, q), r, t, q)
<1>1. PICK k : k = s.res[r] /\ k \in [rt : Users \cup {NULL}, read : BOOLEAN]
  BY DEF World
<1> DEFINE e == [k EXCEPT !.rt = t]
           y == [s EXCEPT !.res[r] = e]
           x == ResReplaced(s, r, t, q)
<1>2. e \in [rt : Users \cup {NULL}, read : BOOLEAN] /\ e.rt = t
  BY <1>1
<1>3. x = [y EXCEPT !.waiters[ResThread[r]] = q]
  BY <1>1 DEF World, ResReplaced
<1> HIDE DEF e
<1>4. /\ y \in World(S) /\ y.st = s.st /\ y.ch = s.ch /\ y.to = s.to
      /\ y.waiters = s.waiters /\ y.fault = s.fault
      /\ \A p \in Results : y.res[p] = IF p = r THEN e ELSE s.res[p]
  BY <1>2 DEF World
<1> HIDE DEF x, y
<1>5. ResThread[r] \in Users
  BY ChannelsAssumption
<1>6. /\ x \in World(S) /\ x.st = y.st /\ x.ch = y.ch /\ x.to = y.to
      /\ x.res = y.res /\ x.fault = y.fault
      /\ \A u \in Users : x.waiters[u] = IF u = ResThread[r] THEN q ELSE y.waiters[u]
  BY <1>3, <1>4, <1>5 DEF World
<1>7. QED
  BY <1>2, <1>4, <1>6 DEF ResIs, x

LEMMA ResSetNotifyFacts ==
  ASSUME NEW S, NEW s \in World(S), NEW r \in Results, NEW t \in Users
  PROVE  LET x == ResSetNotify(s, r, t)
         IN  /\ x \in World(S)
             /\ \/ Refused(s, x, "assert_rt") /\ s.res[r].rt # NULL
                \/ ResultAwaited(s, x, r, t)
<1> DEFINE x == ResSetNotify(s, r, t)
           q == Append(s.waiters[ResThread[r]], t)
<1>1. CASE s.res[r].rt # NULL
  <2>1. x = Fail(s, "assert_rt") /\ "assert_rt" \in Faults
    BY <1>1 DEF ResSetNotify, Faults
  <2>2. QED
    BY <1>1, <2>1, FailFacts DEF Refused, SameObjects
<1>2. CASE s.res[r].rt = NULL
  <2>1. q \in Seq(Users)
    BY ChannelsAssumption DEF World
  <2>2. x = ResReplaced(s, r, t, q)
    BY <1>2, ChannelsAssumption DEF ResSetNotify, World, ResReplaced
  <2> HIDE DEF q, x
  <2>3. x \in World(S) /\ ResIs(s, x, r, t, q)
    BY <2>1, <2>2, SetRes
  <2>4. QED
    BY <1>2, <2>3 DEF ResIs, ResultAwaited, x, q
<1>3. QED
  BY <1>1, <1>2

ResultLeft(s, x, r) ==
  /\ x.fault = s.fault /\ x.st = s.st /\ x.ch = s.ch /\ x.to = s.to
  /\ \A p \in Results : x.res[p].rt = IF p = r THEN NULL ELSE s.res[p].rt
  /\ \A u \in Users : x.waiters[u] =
       IF u = ResThread[r] THEN RemoveFirst(s.waiters[u], s.res[r].rt) ELSE s.waiters[u]

LEMMA ResClearNotifyFacts ==
  ASSUME NEW S, NEW s \in World(S), NEW r \in Results
  PROVE  ResClearNotify(s, r) \in World(S) /\ ResultLeft(s, ResClearNotify(s, r), r)
<1> DEFINE x == ResClearNotify(s, r)
           q == RemoveFirst(s.waiters[ResThread[r]], s.res[r].rt)
<1>1. q \in Seq(Users)
  <2>1. s.waiters[ResThread[r]] \in Seq(Users)
    BY ChannelsAssumption DEF World
  <2>2. QED
    BY <2>1, RemoveFirstFacts
<1>2. x = ResReplaced(s, r, NULL, q)
  BY ChannelsAssumption DEF ResClearNotify, World, ResReplaced
<1> HIDE DEF q, x
<1>3. x \in World(S) /\ ResIs(s, x, r, NULL, q)
  BY <1>1, <1>2, SetRes
<1>4. QED
  BY <1>3 DEF ResIs, ResultLeft, x, q

(* clear_notify() of a channel: whoever is forgotten loses its waker.      *)
Forgets(s, c, t) == IF Class(c).multi = TRUE THEN {t} ELSE s.ch[c].readers
Forgotten(s, x, c, t) ==
  /\ x.fault = s.fault
  /\ NewReaders(s, x, c, s.ch[c].readers \ Forgets(s, c, t), s.ch[c].wakers \ Forgets(s, c, t))
  /\ \A u \in Threads :
       \/ x.st[u] = s.st[u] /\ ~\E r \in Forgets(s, c, t) \cap s.ch[c].wakers : u = WakerOf(c, r)
       \/ x.st[u] = "done" /\ \E r \in Forgets(s, c, t) \cap s.ch[c].wakers : u = WakerOf(c, r)

LEMMA ChanClearNotifyFacts ==
  ASSUME NEW S, NEW s \in World(S), NEW c \in Chans, NEW t \in Users,
         Class(c).multi \in BOOLEAN, WakersRead(s), OneReader(s)
  PROVE  ChanClearNotify(s, c, t) \in World(S) /\ Forgotten(s, ChanClearNotify(s, c, t), c, t)
<1> DEFINE g == Forgets(s, c, t)
           x == ChanClearNotify(s, c, t)
           ws == g \cap s.ch[c].wakers
           r == CHOOSE u \in ws : TRUE
           y == IF ws = {} THEN s ELSE CancelWaker(s, c, r)
<1>1. g = IF Class(c).multi THEN {t} ELSE s.ch[c].readers
  BY DEF Forgets
<1>2. x = [y EXCEPT !.ch[c].readers = @ \ g]
  BY <1>1 DEF ChanClearNotify
<1>3. ws \in SUBSET Users /\ (ws # {} => ws = {r} /\ r \in Users /\ r \in s.ch[c].wakers)
  <2>1. ws \in SUBSET Users
    BY DEF World, Channel
  <2>2. \A a, b \in ws : a = b
    BY <1>1 DEF WakersRead, OneReader
  <2>3. ws # {} => r \in ws
    OBVIOUS
  <2> HIDE DEF r
  <2>4. QED
    BY <2>1, <2>2, <2>3
<1> HIDE DEF g, r, x
<1>4. /\ y \in World(S) /\ y.fault = s.fault
      /\ NewReaders(s, y, c, s.ch[c].readers, s.ch[c].wakers \ g)
      /\ \A u \in Threads : \/ y.st[u] = s.st[u] /\ ~\E e \in ws : u = WakerOf(c, e)
                            \/ y.st[u] = "done" /\ \E e \in ws : u = WakerOf(c, e)
  <2>1. CASE ws = {}
    <3>1. y = s /\ s.ch[c].wakers \ g = s.ch[c].wakers
      BY <2>1
    <3>2. QED
      BY <2>1, <3>1 DEF NewReaders, SameItems, SameWriters, SameOthers
  <2>2. CASE ws # {}
    <3>1. y = CancelWaker(s, c, r) /\ s.ch[c].wakers \ g = s.ch[c].wakers \ {r}
      BY <1>3, <2>2
    <3>2. y \in World(S) /\ WakerCancelled(s, y, c, r)
      BY <1>3, <2>2, <3>1, CancelWakerFacts
    <3>3. QED
      BY <1>3, <2>2, <3>1, <3>2 DEF WakerCancelled
  <2>3. QED
    BY <2>1, <2>2
<1> HIDE DEF y
<1>5. PICK k \in Channel(S) : k = y.ch[c]
  BY <1>4 DEF World
<1> DEFINE a == k.readers \ g
           e == [k EXCEPT !.readers = a]
<1>6. a \in SUBSET Users
  BY <1>5 DEF Channel
<1>7. x = [y EXCEPT !.ch[c] = e]
  BY <1>2, <1>4, <1>5 DEF World, Channel
<1> HIDE DEF a
<1>8. /\ e \in Channel(S)
      /\ e.store = k.store /\ e.data = k.data /\ e.writers = k.writers
      /\ e.readers = a /\ e.wakers = k.wakers
  BY <1>5, <1>6 DEF Channel
<1> HIDE DEF e
<1>9. x \in World(S) /\ x.st = y.st /\ x.fault = y.fault /\ NewReaders(y, x, c, a, k.wakers)
  BY <1>4, <1>5, <1>7, <1>8, NewReadersFacts
<1>10. k.readers = s.ch[c].readers /\ k.wakers = s.ch[c].wakers \ g
  BY <1>4, <1>5 DEF NewReaders
<1>11. NewReaders(s, x, c, s.ch[c].readers \ g, s.ch[c].wakers \ g)
  <2>1. a = s.ch[c].readers \ g
    BY <1>10 DEF a
  <2>2. NewReaders(s, x, c, a, k.wakers)
    BY <1>4, <1>9 DEF NewReaders, SameItems, SameWriters, SameOthers
  <2>3. QED
    BY <1>10, <2>1, <2>2
<1>12. QED
  BY <1>4, <1>9, <1>11 DEF Forgotten, x, g

(* The loop of terminate() over the waiters.                               *)
AllReadied(s, x, T) ==
  /\ SameObjects(s, x)
  /\ \/ /\ \E t \in T : s.st[t] \notin {"sleep", "ready", "done"}
        /\ x.st = s.st /\ x.fault = "bad_wake"
     \/ /\ x.fault = s.fault
        /\ \A u \in Threads : x.st[u] =
             IF u \in T /\ s.st[u] = "sleep" THEN "ready" ELSE s.st[u]

LEMMA WakeAllFacts ==
  ASSUME NEW S, NEW s \in World(S), NEW T \in SUBSET Users
  PROVE  WakeAll(s, T) \in World(S) /\ AllReadied(s, WakeAll(s, T), T)
<1> DEFINE x == WakeAll(s, T)
<1>1. CASE \A t \in T : s.st[t] \in {"sleep", "ready", "done"}
  <2> DEFINE g == [t \in Threads |-> IF t \in T /\ s.st[t] = "sleep" THEN "ready" ELSE s.st[t]]
  <2>1. x = [s EXCEPT !.st = g]
    BY <1>1 DEF WakeAll
  <2>2. g \in [Threads -> Status]
    BY DEF World, Status, Live
  <2>3. \A u \in Threads : g[u] = IF u \in T /\ s.st[u] = "sleep" THEN "ready" ELSE s.st[u]
    OBVIOUS
  <2> HIDE DEF g, x
  <2>4. x \in World(S) /\ SameObjects(s, x) /\ x.st = g /\ x.fault = s.fault
    BY <2>1, <2>2 DEF World, SameObjects
  <2>5. QED
    BY <2>3, <2>4 DEF AllReadied, x
<1>2. CASE ~\A t \in T : s.st[t] \in {"sleep", "ready", "done"}
  <2>1. x = Fail(s, "bad_wake") /\ "bad_wake" \in Faults
    BY <1>2 DEF WakeAll, Faults
  <2>2. QED
    BY <1>2, <2>1, FailFacts DEF AllReadied, SameObjects
<1>3. QED
  BY <1>1, <1>2

(* exec_block(): the running thread leaves the processor.                  *)
Left(s, t, how) == [Unlocked(s) EXCEPT !.st[t] = how]
LEMMA LeftFacts ==
  ASSUME NEW S, NEW s \in World(S), NEW t \in Threads, NEW how \in Status
  PROVE  Left(s, t, how) \in World(S) /\ Moved(s, Left(s, t, how), t, how)
<1>1. PICK y \in World(S) : y = Unlocked(s)
  BY UnlockedFacts
<1>2. y.st = s.st /\ SameObjects(s, y) /\ y.fault = s.fault
  BY <1>1, UnlockedFacts DEF SameObjects
<1>4. Left(s, t, how) = [y EXCEPT !.st[t] = how]
  BY <1>1 DEF Left
<1>5. QED
  BY <1>1, <1>2, <1>4, SetSt DEF SameObjects, Moved

-----------------------------------------------------------------------------
(* Every operation keeps the helpers in step with those that wait.         *)

LEMMA ReadiedGood ==
  ASSUME NEW S, NEW s, NEW me, Good(S, s, me), NEW x \in World(S),
         NEW t \in Users \cup {NULL}, Readied(s, x, t)
  PROVE  Good(S, x, me)
<1>1. Harmless(s, x)
  BY HelperIds DEF Readied, Woke, SameObjects, Harmless, Good, WakersRead
<1>2. QED
  BY <1>1, HarmlessGood

LEMMA AllReadiedGood ==
  ASSUME NEW S, NEW s, NEW me, Good(S, s, me), NEW x \in World(S),
         NEW T \in SUBSET Users, AllReadied(s, x, T)
  PROVE  Good(S, x, me)
<1>1. Harmless(s, x)
  BY HelperIds DEF AllReadied, SameObjects, Harmless, Good, WakersRead
<1>2. QED
  BY <1>1, HarmlessGood

LEMMA WriterLetInGood ==
  ASSUME NEW S, NEW s, NEW me, Good(S, s, me), NEW x \in World(S),
         NEW c \in Chans, WriterLetIn(s, x, c)
  PROVE  Good(S, x, me)
<1>1. Harmless(s, x)
  BY HelperIds DEF WriterLetIn, Woke, SameReaders, SameOthers, Harmless, Good, WakersRead
<1>2. QED
  BY <1>1, HarmlessGood

LEMMA RefusedGood ==
  ASSUME NEW S, NEW s, NEW me, Good(S, s, me), NEW x \in World(S), NEW why, Refused(s, x, why)
  PROVE  Good(S, x, me)
<1>1. Harmless(s, x)
  BY DEF Refused, SameObjects, Harmless, Good, WakersRead
<1>2. QED
  BY <1>1, HarmlessGood

LEMMA ResultAwaitedGood ==
  ASSUME NEW S, NEW s, NEW me, Good(S, s, me), NEW x \in World(S), NEW r \in Results, NEW t,
         ResultAwaited(s, x, r, t) \/ ResultLeft(s, x, r)
  PROVE  Good(S, x, me)
<1>1. Harmless(s, x)
  BY DEF ResultAwaited, ResultLeft, Harmless, Good, WakersRead
<1>2. QED
  BY <1>1, HarmlessGood

LEMMA WakerStartedGood ==
  ASSUME NEW S, NEW s, NEW me, Good(S, s, me), NEW x \in World(S),
         NEW c \in Chans, NEW r \in s.ch[c].readers, Class(c).kind = "clock",
         WakerStarted(s, x, c, r)
  PROVE  Good(S, x, me)
<1>0. r \in Users
  BY DEF Good, World, Channel
<1>1. WakersServe(x)
  BY <1>0, HelperIds DEF WakerStarted, NewReaders, Good, WakersServe, Live
<1>2. WakersRead(x) /\ WakersClocked(x) /\ OneReader(x)
  BY DEF WakerStarted, NewReaders, Good, WakersRead, WakersClocked, OneReader
<1>3. TimersServe(x)
  BY <1>0, HelperIds DEF WakerStarted, NewReaders, SameOthers, Good, TimersServe
<1>4. OneRuns(x, me)
  BY <1>0 DEF WakerStarted, Good, OneRuns, WakersServe, Live
<1>5. QED
  BY <1>1, <1>2, <1>3, <1>4 DEF Good

LEMMA ReaderWokenGood ==
  ASSUME NEW S, NEW s, NEW me \in Users, Good(S, s, me), NEW x \in World(S),
         NEW c \in Chans, NEW r \in Users, ReaderWoken(s, x, c, r)
  PROVE  Good(S, x, me)
<1>1. WakersServe(x)
  BY HelperIds DEF ReaderWoken, NewReaders, Good, WakersServe, WakersClocked, Live
<1>2. WakersRead(x) /\ WakersClocked(x) /\ OneReader(x)
  BY DEF ReaderWoken, NewReaders, Good, WakersRead, WakersClocked, OneReader
<1>3. TimersServe(x)
  BY HelperIds DEF ReaderWoken, NewReaders, SameOthers, Good, TimersServe
<1>4. OneRuns(x, me)
  BY HelperIds DEF ReaderWoken, Good, OneRuns, WakesFrom
<1>5. QED
  BY <1>1, <1>2, <1>3, <1>4 DEF Good

LEMMA NotifiedGood ==
  ASSUME NEW S, NEW s, NEW me \in Users, Good(S, s, me), NEW x \in World(S),
         NEW c \in Chans, NEW r \in s.ch[c].readers, Notified(s, x, c, r)
  PROVE  Good(S, x, me)
<1>0. r \in Users
  BY DEF Good, World, Channel
<1>1. CASE Class(c).kind = "clock" /\ WakerStarted(s, x, c, r)
  BY <1>1, WakerStartedGood
<1>2. CASE ReaderWoken(s, x, c, r)
  BY <1>0, <1>2, ReaderWokenGood
<1>3. QED
  BY <1>1, <1>2 DEF Notified

LEMMA RegisteredGood ==
  ASSUME NEW S, NEW s, NEW me, Good(S, s, me), NEW x \in World(S),
         NEW c \in Chans, NEW t \in Users, Registered(s, x, c, t)
  PROVE  Good(S, x, me)
<1>1. WakersServe(x)
  BY HelperIds DEF Registered, NewReaders, Good, WakersServe, Live
<1>2. WakersRead(x) /\ WakersClocked(x) /\ OneReader(x)
  BY DEF Registered, NewReaders, Good, WakersRead, WakersClocked, OneReader
<1>3. TimersServe(x)
  BY HelperIds DEF Registered, NewReaders, SameOthers, Good, TimersServe
<1>4. OneRuns(x, me)
  BY DEF Registered, Good, OneRuns, WakersServe, Live
<1>5. QED
  BY <1>1, <1>2, <1>3, <1>4 DEF Good

LEMMA ForgottenGood ==
  ASSUME NEW S, NEW s, NEW me \in Users, Good(S, s, me), NEW x \in World(S),
         NEW c \in Chans, NEW t \in Users, Forgotten(s, x, c, t)
  PROVE  Good(S, x, me)
<1>0. \A d \in Chans : s.ch[d].wakers \subseteq Users
  BY DEF Good, World, Channel
<1> DEFINE g == Forgets(s, c, t)
<1>1. WakersServe(x)
  <2>1. SUFFICES ASSUME NEW d \in Chans, NEW r \in Users
                 PROVE  x.st[WakerOf(d, r)] \in Live <=> r \in x.ch[d].wakers
    BY DEF WakersServe
  <2>2. WakerOf(d, r) \in Threads /\ (s.st[WakerOf(d, r)] \in Live <=> r \in s.ch[d].wakers)
    BY HelperIds DEF Good, WakersServe
  <2>3. r \in x.ch[d].wakers <=> r \in s.ch[d].wakers /\ ~(d = c /\ r \in g)
    BY DEF Forgotten, NewReaders
  <2>4. (\E e \in g \cap s.ch[c].wakers : WakerOf(d, r) = WakerOf(c, e))
          <=> d = c /\ r \in g /\ r \in s.ch[c].wakers
    BY <1>0, HelperIds
  <2>5. \/ x.st[WakerOf(d, r)] = s.st[WakerOf(d, r)] /\ ~(d = c /\ r \in g /\ r \in s.ch[c].wakers)
        \/ x.st[WakerOf(d, r)] = "done" /\ d = c /\ r \in g /\ r \in s.ch[c].wakers
    BY <2>2, <2>4 DEF Forgotten
  <2> HIDE DEF g
  <2>6. QED
    BY <2>2, <2>3, <2>5 DEF Live
<1>2. WakersRead(x) /\ WakersClocked(x) /\ OneReader(x)
  BY DEF Forgotten, NewReaders, Good, WakersRead, WakersClocked, OneReader
<1>3. TimersServe(x)
  BY <1>0, HelperIds DEF Forgotten, NewReaders, SameOthers, Good, TimersServe
<1>4. OneRuns(x, me)
  <2>1. \A r \in s.ch[c].wakers : s.st[WakerOf(c, r)] # "run"
    BY <1>0, HelperIds DEF Good, OneRuns
  <2>2. QED
    BY <2>1 DEF Forgotten, Good, OneRuns
<1>5. QED
  BY <1>1, <1>2, <1>3, <1>4 DEF Good

LEMMA TimedGood ==
  ASSUME NEW S, NEW s, NEW me, Good(S, s, me), NEW x \in World(S),
         NEW o \in Timeouts, NEW t \in Users, Timed(s, x, o, t)
  PROVE  Good(S, x, me)
<1>1. WakersServe(x) /\ WakersRead(x) /\ WakersClocked(x) /\ OneReader(x)
  BY HelperIds DEF Timed, Good, WakersServe, WakersRead, WakersClocked, OneReader
<1>2. TimersServe(x)
  BY HelperIds DEF Timed, Good, TimersServe
<1>3. OneRuns(x, me)
  BY HelperIds DEF Timed, Good, OneRuns, TimersServe, Live
<1>4. QED
  BY <1>1, <1>2, <1>3 DEF Good

LEMMA UntimedGood ==
  ASSUME NEW S, NEW s, NEW me \in Users, Good(S, s, me), NEW x \in World(S),
         NEW o \in Timeouts, Untimed(s, x, o)
  PROVE  Good(S, x, me)
<1>1. WakersServe(x) /\ WakersRead(x) /\ WakersClocked(x) /\ OneReader(x)
  BY HelperIds DEF Untimed, Good, WakersServe, WakersRead, WakersClocked, OneReader
<1>2. TimersServe(x)
  BY HelperIds DEF Untimed, Good, TimersServe, Live
<1>3. OneRuns(x, me)
  BY HelperIds DEF Untimed, Good, OneRuns
<1>4. QED
  BY <1>1, <1>2, <1>3 DEF Good

-----------------------------------------------------------------------------
(* Frames.                                                                 *)
FramesOK(S, g) == g \in [Users -> Frame(S)] /\ \A t \in Users : FrameFits(g[t])

LEMMA FrameMove ==
  ASSUME NEW S, FramesOK(S, f), NEW t \in Users, NEW y \in Frame(S), FrameFits(y),
         f' = [f EXCEPT ![t] = y]
  PROVE  FramesOK(S, f')
  BY DEF FramesOK

LEMMA RestFits == ASSUME NEW S, 0 \in S PROVE Rest \in Frame(S) /\ FrameFits(Rest)
<1>1. Rest \in Frame(S)
  BY DEF Rest, Frame, Pcs, Value
<1>2. FrameFits(Rest)
  BY DEF Rest, FrameFits, WritePcs, ReadPcs, ResOps, AltPcs, PortPcs
<1>3. QED
  BY <1>1, <1>2

LEMMA PcMove ==
  ASSUME NEW S, NEW k \in Frame(S), NEW p \in Pcs
  PROVE  LET y == [k EXCEPT !.pc = p]
         IN  /\ y \in Frame(S) /\ y.pc = p
             /\ y.op = k.op /\ y.ch = k.ch /\ y.idx = k.idx /\ y.val = k.val /\ y.ret = k.ret
             /\ y.since = k.since
  BY DEF Frame

(* Where Goto leads within an operation on a channel.                      *)
LEMMA GotoChan ==
  ASSUME NEW S, 0 \in S, FramesOK(S, f), NEW t \in Users, NEW p,
         f[t].pc \in WritePcs \cup ReadPcs, p \in WritePcs \cup ReadPcs \/ p = f[t].ret,
         Goto(t, p)
  PROVE  FramesOK(S, f')
<1>1. PICK k \in Frame(S) : k = f[t]
  BY DEF FramesOK
<1>2. FrameFits(k)
  BY <1>1 DEF FramesOK
<1>3. p \in Pcs
  BY <1>1 DEF Frame, Pcs, AltPcs
<1>4. CASE p = "idle"
  <2>1. f' = [f EXCEPT ![t] = Rest]
    BY <1>4 DEF Goto
  <2>2. QED
    BY <2>1, RestFits, FrameMove
<1>5. CASE p # "idle"
  <2> DEFINE y == [k EXCEPT !.pc = p]
  <2>1. f' = [f EXCEPT ![t] = y]
    BY <1>1, <1>5 DEF Goto
  <2>2. /\ y \in Frame(S) /\ y.pc = p
        /\ y.op = k.op /\ y.ch = k.ch /\ y.idx = k.idx /\ y.val = k.val /\ y.ret = k.ret
    BY <1>1, <1>3, PcMove
  <2> HIDE DEF y
  <2>3. k.ch \in Chans /\ k.op \in Calls
    BY <1>1, <1>2 DEF FrameFits, WritePcs, ReadPcs
  <2>4. FrameFits(y)
    <3>1. CASE p \in WritePcs \cup ReadPcs
      BY <1>2, <2>2, <2>3, <3>1
         DEF FrameFits, WritePcs, ReadPcs, ResOps, AltPcs, PortPcs
    <3>2. CASE p = k.ret
      <4>1. k.ret \in {"a_unlock", "b_next"}
        BY <1>1, <1>5, <3>2 DEF Frame
      <4>2. QED
        BY <1>2, <2>2, <2>3, <3>2, <4>1
           DEF FrameFits, WritePcs, ReadPcs, ResOps, AltPcs, PortPcs
    <3>3. QED
      BY <1>1, <3>1, <3>2
  <2>5. QED
    BY <2>1, <2>2, <2>4, FrameMove
<1>6. QED
  BY <1>4, <1>5

(* Back to idle.                                                           *)
LEMMA GotoIdle ==
  ASSUME NEW S, 0 \in S, FramesOK(S, f), NEW t \in Users, Goto(t, "idle")
  PROVE  FramesOK(S, f')
<1>1. f' = [f EXCEPT ![t] = Rest]
  BY DEF Goto
<1>2. QED
  BY <1>1, RestFits, FrameMove

(* The return of an operation.                                             *)
LEMMA GotoRet ==
  ASSUME NEW S, 0 \in S, FramesOK(S, f), NEW t \in Users, f[t].pc # "idle",
         Goto(t, f[t].ret)
  PROVE  FramesOK(S, f')
<1>1. PICK k \in Frame(S) : k = f[t]
  BY DEF FramesOK
<1>2. FrameFits(k) /\ k.ret \in {"idle", "a_unlock", "b_next"} /\ k.ret \in Pcs
  BY <1>1 DEF FramesOK, Frame, Pcs, AltPcs
<1>3. CASE k.ret = "idle"
  BY <1>1, <1>3, GotoIdle
<1>4. CASE k.ret # "idle"
  <2> DEFINE y == [k EXCEPT !.pc = k.ret]
  <2>1. f' = [f EXCEPT ![t] = y]
    BY <1>1, <1>4 DEF Goto
  <2>2. /\ y \in Frame(S) /\ y.pc = k.ret
        /\ y.op = k.op /\ y.ch = k.ch /\ y.idx = k.idx /\ y.val = k.val /\ y.ret = k.ret
    BY <1>1, <1>2, PcMove
  <2> HIDE DEF y
  <2>3. FrameFits(y)
    BY <1>1, <1>2, <1>4, <2>2 DEF FrameFits, WritePcs, ReadPcs, ResOps, AltPcs, PortPcs
  <2>4. QED
    BY <2>1, <2>2, <2>3, FrameMove
<1>5. QED
  BY <1>3, <1>4

(* The ports in the order they are queried are the ports of the alt.       *)
LEMMA AltPortsFacts ==
  ASSUME NEW t \in Users, f[t].op \in Calls
  PROVE  /\ f[t].op.ports \in Seq(Ports)
         /\ AltPorts(t) \in Seq(Ports) /\ Len(AltPorts(t)) = Len(f[t].op.ports)
         /\ \A i \in 1..Len(AltPorts(t)) : AltPorts(t)[i] \in PortsOf(t)
         /\ \A p \in PortsOf(t) : \E i \in 1..Len(AltPorts(t)) : AltPorts(t)[i] = p
<1>1. PICK q \in Seq(Ports) : q = f[t].op.ports
  BY DEF Calls
<1>2. PortsOf(t) = {q[i] : i \in 1..Len(q)}
  BY <1>1 DEF PortsOf, ToSet
<1>3. CASE f[t].op.op = "alt"
  <2> DEFINE r == [i \in 1..Len(q) |-> q[(Len(q) - i) + 1]]
  <2>1. AltPorts(t) = r
    BY <1>1, <1>3 DEF AltPorts, Reverse
  <2>2. \A i \in 1..Len(q) : (Len(q) - i) + 1 \in 1..Len(q)
    BY <1>1
  <2>3. r \in [1..Len(q) -> Ports]
    BY <1>1, <2>2
  <2>4. r \in Seq(Ports) /\ Len(r) = Len(q)
    <3>1. Len(q) \in Nat
      BY <1>1
    <3>2. QED
      BY <2>3, <3>1
  <2>5. \A i \in 1..Len(q) : r[i] = q[(Len(q) - i) + 1]
    OBVIOUS
  <2> HIDE DEF r
  <2>6. \A i \in 1..Len(r) : r[i] \in PortsOf(t)
    BY <1>2, <2>2, <2>4, <2>5
  <2>7. ASSUME NEW p \in PortsOf(t) PROVE \E i \in 1..Len(r) : r[i] = p
    <3>1. PICK j \in 1..Len(q) : p = q[j]
      BY <1>2, <2>7
    <3>2. /\ (Len(q) - j) + 1 \in 1..Len(q) /\ Len(q) \in Nat
          /\ (Len(q) - ((Len(q) - j) + 1)) + 1 = j
      BY <1>1, <3>1
    <3>3. r[(Len(q) - j) + 1] = q[j]
      BY <2>5, <3>2
    <3>4. QED
      BY <2>4, <3>1, <3>2, <3>3
  <2>8. QED
    BY <1>1, <2>1, <2>4, <2>6, <2>7
<1>4. CASE f[t].op.op # "alt"
  <2>1. AltPorts(t) = q
    BY <1>1, <1>4 DEF AltPorts
  <2>2. QED
    BY <1>1, <1>2, <2>1
<1>5. QED
  BY <1>3, <1>4

Inv(S) == Typed(S) /\ Good(S, w, cur)

LEMMA StartFrames ==
  ASSUME NEW S, Typed(S), NEW t \in Users, NEW o \in prog.menu[t], Start(t, o)
  PROVE  FramesOK(S, f')
<1>1. o \in Calls
  BY ChannelsAssumption DEF Typed
<1>2. PICK k \in Frame(S) : k = Rest
  BY RestFits DEF Typed
<1>3. k.ret = "idle"
  BY <1>2 DEF Rest
<1> DEFINE v == IF o.op = "write" THEN <<t, left[t]>> ELSE NULL
           z == IF o.ports # <<>> THEN now ELSE 0
           y == [k EXCEPT !.pc = Entry(o), !.op = o, !.ch = o.ch, !.idx = 1, !.val = v,
                          !.since = z]
<1>4. f' = [f EXCEPT ![t] = y]
  BY <1>2 DEF Start
<1>5. v \in Value /\ z \in S
  BY DEF Typed, Value
<1>6. /\ Entry(o) \in Pcs \ {"idle", "b_next", "a_scan", "a_register", "a_clear", "a_get"}
      /\ Entry(o) \in WritePcs \cup ReadPcs \cup {"clear", "clear_ready"} => o.op \in ChanOps
      /\ Entry(o) \in AltPcs => o.op \in AltOps
      /\ Entry(o) \in ResOps => o.op \in ResOps
      /\ Entry(o) = "to_get" => o.op = "to_get"
      /\ Entry(o) = "reflect" => o.op = "reflect"
  BY <1>1 DEF Calls, Entry, ChanOps, ResOps, AltOps, Pcs, WritePcs, ReadPcs, AltPcs, PortPcs
<1>7. /\ o.ch \in Ports \cup {NULL}
      /\ o.op \in ChanOps => o.ch \in Chans
      /\ o.op \in ResOps => o.ch \in Results
      /\ o.op = "to_get" => o.ch \in Timeouts
  BY <1>1 DEF Calls
<1> HIDE DEF v, z
<1>8. /\ y \in Frame(S) /\ y.pc = Entry(o) /\ y.op = o /\ y.ch = o.ch /\ y.idx = 1
      /\ y.ret = k.ret
  <2>1. Entry(o) \in Pcs
    BY <1>6
  <2>2. PICK e : e = Entry(o)
    OBVIOUS
  <2>3. QED
    BY <1>1, <1>2, <1>5, <1>7, <2>1, <2>2 DEF Frame
<1> HIDE DEF y
<1>9. FrameFits(y)
  BY <1>1, <1>3, <1>6, <1>7, <1>8 DEF FrameFits, PortPcs
<1>10. QED
  BY <1>4, <1>8, <1>9, FrameMove DEF Typed, FramesOK

(* The frame part of every step of a thread.                               *)
LEMMA WriteFrames ==
  ASSUME NEW S, Typed(S), NEW t \in Users,
         WriteNotify(t) \/ WriteFull(t) \/ WriteStore(t) \/ WriteHeld(t)
  PROVE  FramesOK(S, f')
<1>1. FramesOK(S, f) /\ 0 \in S
  BY DEF Typed, FramesOK
<1>2. f[t].pc \in WritePcs
  BY DEF WriteNotify, WriteFull, WriteStore, WriteHeld, At, WritePcs
<1>3. \E p : Goto(t, p) /\ (p \in WritePcs \/ p = f[t].ret)
  BY DEF WriteNotify, WriteFull, WriteStore, WriteHeld, WritePcs
<1>4. QED
  BY <1>1, <1>2, <1>3, GotoChan

LEMMA ReadFrames ==
  ASSUME NEW S, Typed(S), NEW t \in Users, ReadWriter(t) \/ ReadReady(t) \/ ReadWoken(t)
  PROVE  FramesOK(S, f')
<1>1. FramesOK(S, f) /\ 0 \in S
  BY DEF Typed, FramesOK
<1>2. f[t].pc \in ReadPcs
  BY DEF ReadWriter, ReadReady, ReadWoken, At, ReadPcs
<1>3. \E p : Goto(t, p) /\ p \in ReadPcs
  BY DEF ReadWriter, ReadReady, ReadWoken, ReadPcs
<1>4. QED
  BY <1>1, <1>2, <1>3, GotoChan

(* The value of an item of a channel.                                      *)
LEMMA ItemValue ==
  ASSUME NEW S, NEW s \in World(S), NEW c \in Chans
  PROVE  /\ s.ch[c].data \in Value /\ s.ch[c].store \in Seq(Item(S))
         /\ s.ch[c].store # <<>> => Head(s.ch[c].store).v \in Value
<1>1. s.ch[c] \in Channel(S)
  BY DEF World
<1>2. s.ch[c].data \in Value /\ s.ch[c].store \in Seq(Item(S))
  BY <1>1 DEF Channel
<1>3. s.ch[c].store # <<>> => Head(s.ch[c].store) \in Item(S)
  BY <1>2
<1>4. QED
  BY <1>2, <1>3 DEF Item

LEMMA ReadTakeFrames ==
  ASSUME NEW S, Typed(S), NEW t \in Users, ReadTake(t) \/ ReadReturn(t)
  PROVE  FramesOK(S, f')
<1>1. FramesOK(S, f) /\ 0 \in S
  BY DEF Typed, FramesOK
<1>2. f[t].pc \in {"r_take", "r_again"}
  BY DEF ReadTake, ReadReturn, At
<1>3. PICK k \in Frame(S) : k = f[t]
  BY <1>1 DEF FramesOK
<1>4. FrameFits(k) /\ k.ch \in Chans /\ k.op \in Calls
  BY <1>1, <1>2, <1>3 DEF FramesOK, FrameFits, ReadPcs
<1>5. CASE f' = f
  BY <1>1, <1>5
<1>6. CASE Goto(t, f[t].ret) /\ ReadReturn(t)
  BY <1>1, <1>2, <1>6, GotoRet
<1>7. ASSUME NEW p \in {"r_again", k.ret} \ {"idle"}, NEW v \in Value,
             f' = [f EXCEPT ![t].pc = p, ![t].val = v]
      PROVE  FramesOK(S, f')
  <2> DEFINE y == [k EXCEPT !.pc = p, !.val = v]
  <2>1. f' = [f EXCEPT ![t] = y]
    BY <1>1, <1>3, <1>7 DEF FramesOK, Frame
  <2>2. p \in Pcs
    BY <1>3, <1>7 DEF Frame, Pcs, ReadPcs, AltPcs
  <2>3. /\ y \in Frame(S) /\ y.pc = p
        /\ y.op = k.op /\ y.ch = k.ch /\ y.idx = k.idx /\ y.ret = k.ret
    BY <1>3, <1>7, <2>2 DEF Frame
  <2> HIDE DEF y
  <2>4. k.ret \in {"idle", "a_unlock", "b_next"}
    BY <1>3 DEF Frame
  <2>5. FrameFits(y)
    BY <1>4, <1>7, <2>3, <2>4 DEF FrameFits, WritePcs, ReadPcs, ResOps, AltPcs, PortPcs
  <2>6. QED
    BY <1>1, <2>1, <2>3, <2>5, FrameMove
<1>8. CASE ReadTake(t)
  <2> DEFINE x == w.ch[k.ch]
             v == IF OneItem(Class(k.ch)) THEN x.data ELSE Head(x.store).v
  <2>1. f' = f \/ (~(IsEmpty(x) /\ ~OneItem(Class(k.ch)))
                   /\ f' = [f EXCEPT ![t].pc = "r_again", ![t].val = v])
    BY <1>3, <1>8 DEF ReadTake
  <2>2. ~(IsEmpty(x) /\ ~OneItem(Class(k.ch))) => v \in Value
    BY <1>4, ItemValue DEF Typed, IsEmpty
  <2> HIDE DEF v
  <2>3. QED
    BY <1>5, <1>7, <2>1, <2>2
<1>9. CASE ReadReturn(t)
  <2>1. \/ Goto(t, f[t].ret)
        \/ k.ret # "idle" /\ f' = [f EXCEPT ![t].pc = k.ret, ![t].val = w.ch[k.ch].data]
    BY <1>3, <1>9 DEF ReadReturn
  <2>2. w.ch[k.ch].data \in Value
    BY <1>4, ItemValue DEF Typed
  <2>3. QED
    BY <1>6, <1>7, <1>9, <2>1, <2>2
<1>10. QED
  BY <1>8, <1>9

LEMMA CallFrames ==
  ASSUME NEW S, Typed(S), NEW t \in Users,
         End(t) \/ DelayCall(t) \/ Clear(t) \/ ToGet(t) \/ ResGet(t) \/ ResClear(t) \/ AltUnlock(t)
  PROVE  FramesOK(S, f')
<1>1. FramesOK(S, f) /\ 0 \in S
  BY DEF Typed, FramesOK
<1>2. CASE End(t)
  BY <1>1, <1>2 DEF End
<1>3. CASE DelayCall(t) \/ ResClear(t) \/ AltUnlock(t)
  BY <1>1, <1>3, GotoIdle DEF DelayCall, ResClear, AltUnlock
<1>4. CASE Clear(t) \/ ToGet(t) \/ ResGet(t)
  <2>1. f[t].pc # "idle" /\ Goto(t, f[t].ret)
    BY <1>4 DEF Clear, ToGet, ResGet, At
  <2>2. QED
    BY <1>1, <2>1, GotoRet
<1>5. QED
  BY <1>2, <1>3, <1>4

LEMMA SleepFrames ==
  ASSUME NEW S, Typed(S), NEW t \in Users, Sleep(t)
  PROVE  FramesOK(S, f')
<1>1. FramesOK(S, f) /\ 0 \in S
  BY DEF Typed, FramesOK
<1>2. f[t].pc \in Sleeps /\ Goto(t, Woken(f[t].pc))
  BY DEF Sleep, At
<1>3. CASE f[t].pc # "a_sleep"
  <2>1. f[t].pc \in WritePcs \cup ReadPcs /\ Woken(f[t].pc) \in WritePcs \cup ReadPcs
    BY <1>2, <1>3 DEF Sleeps, Woken, WritePcs, ReadPcs
  <2>2. QED
    BY <1>1, <1>2, <2>1, GotoChan
<1>4. CASE f[t].pc = "a_sleep"
  <2>1. PICK k \in Frame(S) : k = f[t]
    BY <1>1 DEF FramesOK
  <2>2. FrameFits(k) /\ k.op \in Calls /\ k.op.op \in AltOps
    BY <1>1, <1>4, <2>1 DEF FramesOK, FrameFits, AltPcs
  <2> DEFINE y == [k EXCEPT !.pc = "a_relock"]
  <2>3. f' = [f EXCEPT ![t] = y]
    BY <1>2, <1>4, <2>1 DEF Goto, Woken
  <2>4. /\ y \in Frame(S) /\ y.pc = "a_relock"
        /\ y.op = k.op /\ y.ch = k.ch /\ y.idx = k.idx /\ y.ret = k.ret
    <3>1. "a_relock" \in Pcs
      BY DEF Pcs, AltPcs
    <3>2. QED
      BY <2>1, <3>1, PcMove
  <2> HIDE DEF y
  <2>5. FrameFits(y)
    BY <2>2, <2>4 DEF FrameFits, WritePcs, ReadPcs, ResOps, AltPcs, PortPcs
  <2>6. QED
    BY <1>1, <2>3, <2>4, <2>5, FrameMove
<1>5. QED
  BY <1>3, <1>4

(* Steps within an alt block.                                              *)
LEMMA AltFrame ==
  ASSUME NEW S, FramesOK(S, f), NEW t \in Users, f[t].op \in Calls, f[t].op.op \in AltOps,
         f[t].ret # "b_next",
         NEW p \in AltPcs, NEW n \in Nat \ {0}, p = "a_get" => n <= Len(f[t].op.ports),
         f' = [f EXCEPT ![t].pc = p, ![t].idx = n]
  PROVE  FramesOK(S, f')
<1>1. PICK k \in Frame(S) : k = f[t]
  BY DEF FramesOK
<1>2. FrameFits(k)
  BY <1>1 DEF FramesOK
<1> DEFINE y == [k EXCEPT !.pc = p, !.idx = n]
<1>3. f' = [f EXCEPT ![t] = y]
  BY <1>1 DEF FramesOK, Frame
<1>4. p \in Pcs
  BY DEF Pcs
<1>5. /\ y \in Frame(S) /\ y.pc = p /\ y.idx = n
      /\ y.op = k.op /\ y.ch = k.ch /\ y.ret = k.ret
  BY <1>1, <1>4 DEF Frame
<1> HIDE DEF y
<1>6. p \notin WritePcs \cup ReadPcs \cup ResOps
                \cup {"clear", "clear_ready", "to_get", "reflect", "b_next"}
  BY DEF WritePcs, ReadPcs, ResOps, AltPcs, PortPcs
<1>7. FrameFits(y)
  BY <1>1, <1>2, <1>5, <1>6 DEF FrameFits
<1>8. QED
  BY <1>3, <1>5, <1>7, FrameMove

LEMMA AltFrames ==
  ASSUME NEW S, Typed(S), NEW t \in Users,
         AltLock(t) \/ AltScan(t) \/ AltRegister(t) \/ AltClear(t)
  PROVE  FramesOK(S, f')
<1>1. FramesOK(S, f)
  BY DEF Typed, FramesOK
<1>2. f[t].pc \in {"a_lock", "a_relock", "a_scan", "a_register", "a_clear"}
  BY DEF AltLock, AltScan, AltRegister, AltClear, At
<1>3. PICK k \in Frame(S) : k = f[t]
  BY <1>1 DEF FramesOK
<1>4. /\ FrameFits(k) /\ k.op \in Calls /\ k.op.op \in AltOps /\ k.idx \in Nat
      /\ k.pc \in PortPcs => k.idx # 0
  BY <1>1, <1>2, <1>3 DEF FramesOK, FrameFits, Frame, AltPcs, PortPcs
<1>5. k.ret # "b_next"
  BY <1>4 DEF FrameFits, AltOps
<1>6. Len(AltPorts(t)) = Len(k.op.ports) /\ Len(k.op.ports) \in Nat
  BY <1>3, <1>4, AltPortsFacts
<1>7. \E p \in AltPcs, n \in Nat \ {0} :
        /\ f' = [f EXCEPT ![t].pc = p, ![t].idx = n]
        /\ p = "a_get" => n <= Len(k.op.ports)
  <2>1. CASE \E p \in AltPcs : p # "a_get" /\ FirstPort(t, p)
    <3>1. PICK p \in AltPcs : p # "a_get" /\ FirstPort(t, p)
      BY <2>1
    <3>2. f' = [f EXCEPT ![t].pc = p, ![t].idx = 1] /\ 1 \in Nat \ {0}
      BY <3>1 DEF FirstPort
    <3>3. QED
      BY <3>1, <3>2
  <2>2. CASE NextPort(t) /\ k.pc \in PortPcs \ {"a_get"}
    <3>1. f' = [f EXCEPT ![t].pc = k.pc, ![t].idx = k.idx + 1]
      BY <1>1, <1>3, <2>2 DEF NextPort, FramesOK, Frame
    <3>2. k.pc \in AltPcs /\ k.pc # "a_get" /\ k.idx + 1 \in Nat \ {0}
      BY <1>4, <2>2 DEF AltPcs
    <3>3. QED
      BY <3>1, <3>2
  <2>3. CASE Goto(t, "a_sleep") /\ k.pc \in PortPcs
    <3>1. f' = [f EXCEPT ![t].pc = "a_sleep", ![t].idx = k.idx]
      BY <1>1, <1>3, <2>3 DEF Goto, FramesOK, Frame
    <3>2. k.idx \in Nat \ {0} /\ "a_sleep" \in AltPcs
      BY <1>4, <2>3 DEF AltPcs
    <3>3. QED
      BY <3>1, <3>2
  <2>4. CASE Goto(t, "a_get") /\ k.pc \in PortPcs /\ ~AtEnd(t)
    <3>1. f' = [f EXCEPT ![t].pc = "a_get", ![t].idx = k.idx]
      BY <1>1, <1>3, <2>4 DEF Goto, FramesOK, Frame
    <3>2. k.idx \in Nat \ {0} /\ "a_get" \in AltPcs /\ k.idx <= Len(k.op.ports)
      BY <1>3, <1>4, <1>6, <2>4 DEF AltPcs, PortPcs, AtEnd
    <3>3. QED
      BY <3>1, <3>2
  <2>5. CASE AltLock(t)
    BY <2>1, <2>5 DEF AltLock, AltPcs, PortPcs
  <2>6. CASE AltScan(t)
    BY <1>3, <2>1, <2>2, <2>4, <2>6 DEF AltScan, At, AltPcs, PortPcs
  <2>7. CASE AltRegister(t)
    BY <1>3, <2>2, <2>3, <2>7 DEF AltRegister, At, PortPcs
  <2>8. CASE AltClear(t)
    BY <1>3, <2>1, <2>2, <2>8 DEF AltClear, At, AltPcs, PortPcs
  <2>9. QED
    BY <2>5, <2>6, <2>7, <2>8
<1>8. QED
  BY <1>1, <1>3, <1>4, <1>5, <1>7, AltFrame

LEMMA AltGetFrames ==
  ASSUME NEW S, Typed(S), NEW t \in Users, AltGet(t)
  PROVE  FramesOK(S, f') /\ Port(t) \in Ports
<1>1. FramesOK(S, f)
  BY DEF Typed, FramesOK
<1>2. f[t].pc = "a_get"
  BY DEF AltGet, At
<1>3. PICK k \in Frame(S) : k = f[t]
  BY <1>1 DEF FramesOK
<1>4. /\ FrameFits(k) /\ k.op \in Calls /\ k.op.op \in AltOps
      /\ k.idx \in 1..Len(k.op.ports)
  <2>1. /\ FrameFits(k) /\ k.op \in Calls /\ k.op.op \in AltOps /\ k.idx \in Nat
        /\ k.idx # 0 /\ k.idx <= Len(k.op.ports)
    BY <1>1, <1>2, <1>3 DEF FramesOK, FrameFits, Frame, AltPcs, PortPcs
  <2>2. Len(k.op.ports) \in Nat
    BY <1>3, <2>1, AltPortsFacts
  <2>3. QED
    BY <2>1, <2>2
<1>5. Port(t) \in Ports
  BY <1>3, <1>4, AltPortsFacts DEF Port
<1> DEFINE c == Port(t)
           p == CASE c \in Chans -> "r_writer" [] c \in Timeouts -> "to_get"
                  [] c \in Results -> "res_get"
           y == [k EXCEPT !.ch = c, !.ret = "a_unlock", !.pc = p]
<1>6. f' = [f EXCEPT ![t] = y]
  <2>1. f' = [f EXCEPT ![t].ch = c, ![t].ret = "a_unlock", ![t].pc = p]
    BY DEF AltGet
  <2> HIDE DEF c, p
  <2>2. QED
    BY <1>1, <1>3, <2>1 DEF FramesOK, Frame
<1>7. /\ p \in {"r_writer", "to_get", "res_get"}
      /\ p = "r_writer" => c \in Chans
      /\ p = "to_get" => c \in Timeouts
      /\ p = "res_get" => c \in Results
  BY <1>5, DistinctObjects DEF Ports
<1> HIDE DEF c, p
<1>8. /\ y \in Frame(S) /\ y.pc = p /\ y.ch = c /\ y.ret = "a_unlock"
      /\ y.op = k.op /\ y.idx = k.idx
  <2>1. p \in Pcs /\ c \in Ports \cup {NULL}
    BY <1>5, <1>7 DEF Pcs, ReadPcs, ResOps, c
  <2>2. QED
    BY <1>3, <2>1 DEF Frame
<1> HIDE DEF y
<1>9. FrameFits(y)
  BY <1>4, <1>7, <1>8 DEF FrameFits, WritePcs, ReadPcs, ResOps, AltPcs, PortPcs, AltOps
<1>10. QED
  BY <1>1, <1>5, <1>6, <1>8, <1>9, FrameMove

LEMMA ReflectFrames ==
  ASSUME NEW S, Typed(S), NEW t \in Users, Reflect(t)
  PROVE  /\ FramesOK(S, f')
         /\ f[t].pc = "reflect" \/ AtEnd(t) \/ Sink(t) \in Chans
<1>1. FramesOK(S, f)
  BY DEF Typed, FramesOK
<1>2. f[t].pc \in {"reflect", "b_next"}
  BY DEF Reflect, At
<1>3. PICK k \in Frame(S) : k = f[t]
  BY <1>1 DEF FramesOK
<1>4. /\ FrameFits(k) /\ k.op \in Calls /\ k.op.op = "reflect" /\ k.ret # "a_unlock"
      /\ k.idx \in Nat /\ (k.pc = "b_next" => k.idx # 0)
  BY <1>1, <1>2, <1>3 DEF FramesOK, FrameFits, Frame, AltOps
<1>5. k.op.ch \in Chans /\ k.op.ports \in Seq(Chans)
  BY <1>4 DEF Calls, ChanOps
<1>6. CASE f[t].pc = "reflect" \/ AtEnd(t)
  <2> DEFINE y == [k EXCEPT !.pc = "r_writer", !.ch = k.op.ch, !.ret = "b_next", !.idx = 1]
  <2>1. f' = [f EXCEPT ![t] = y]
    BY <1>1, <1>3, <1>6 DEF Reflect, FramesOK, Frame
  <2>2. /\ y \in Frame(S) /\ y.pc = "r_writer" /\ y.ch = k.op.ch /\ y.ret = "b_next"
        /\ y.op = k.op /\ y.idx = 1
    <3>1. PICK c \in Ports : c = k.op.ch
      BY <1>5 DEF Ports
    <3>2. "r_writer" \in Pcs
      BY DEF Pcs, ReadPcs
    <3>3. QED
      BY <1>3, <3>1, <3>2 DEF Frame
  <2> HIDE DEF y
  <2>3. FrameFits(y)
    BY <1>4, <1>5, <2>2 DEF FrameFits, WritePcs, ReadPcs, ResOps, AltPcs, PortPcs
  <2>4. QED
    BY <1>1, <1>6, <2>1, <2>2, <2>3, FrameMove
<1>7. CASE ~(f[t].pc = "reflect" \/ AtEnd(t))
  <2>1. AltPorts(t) = k.op.ports
    BY <1>3, <1>4 DEF AltPorts
  <2>2. k.idx \in 1..Len(k.op.ports)
    <3>1. k.idx # 0 /\ ~(k.idx > Len(k.op.ports)) /\ Len(k.op.ports) \in Nat
      BY <1>2, <1>3, <1>4, <1>5, <1>7, <2>1 DEF AtEnd
    <3>2. QED
      BY <1>4, <3>1
  <2>3. PICK c \in Chans : c = Sink(t)
    BY <1>3, <1>5, <2>2 DEF Sink
  <2> DEFINE n == k.idx + 1
             y == [k EXCEPT !.pc = "w_notify", !.ch = c, !.idx = n]
  <2>4. f' = [f EXCEPT ![t] = y]
    BY <1>1, <1>3, <1>7, <2>3 DEF Reflect, FramesOK, Frame
  <2>5. n \in Nat /\ n # 0
    BY <1>4
  <2> HIDE DEF n
  <2>6. /\ y \in Frame(S) /\ y.pc = "w_notify" /\ y.ch = c /\ y.ret = k.ret
        /\ y.op = k.op /\ y.idx = n
    <3>1. c \in Ports /\ "w_notify" \in Pcs
      BY <2>3 DEF Ports, Pcs, WritePcs
    <3>2. QED
      BY <1>3, <2>5, <3>1 DEF Frame
  <2> HIDE DEF y
  <2>7. FrameFits(y)
    BY <1>4, <2>3, <2>5, <2>6 DEF FrameFits, WritePcs, ReadPcs, ResOps, AltPcs, PortPcs
  <2>8. QED
    BY <1>1, <2>3, <2>4, <2>6, <2>7, FrameMove
<1>8. QED
  BY <1>6, <1>7

LEMMA RunFrames ==
  ASSUME NEW S, Typed(S), NEW t \in Users, Run(t)
  PROVE  FramesOK(S, f')
  BY StartFrames, WriteFrames, ReadFrames, ReadTakeFrames, CallFrames, SleepFrames, AltFrames,
     AltGetFrames, ReflectFrames DEF Run

-----------------------------------------------------------------------------
(* The world part of every step.                                           *)

LEMMA ClassOK ==
  ASSUME NEW S, Typed(S), NEW c \in Chans
  PROVE  /\ Class(c) \in Classes /\ Class(c).multi \in BOOLEAN /\ Class(c).size \in Nat
         /\ Class(c).kind \in {"chan", "busy", "queue", "clock"}
<1>1. Class(c) \in Classes
  BY ChannelsAssumption DEF Typed, Class
<1>2. QED
  BY <1>1 DEF Classes

(* More times.                                                             *)
LEMMA GrowItems ==
  ASSUME NEW S, NEW R, S \subseteq R
  PROVE  World(S) \subseteq World(R) /\ Frame(S) \subseteq Frame(R)
<1>1. Item(S) \subseteq Item(R)
  BY DEF Item
<1>2. Seq(Item(S)) \subseteq Seq(Item(R))
  BY <1>1
<1>3. Channel(S) \subseteq Channel(R)
  BY <1>2 DEF Channel
<1>4. World(S) \subseteq World(R)
  <2>1. SUFFICES ASSUME NEW s \in World(S) PROVE s \in World(R)
    OBVIOUS
  <2>2. s.ch \in [Chans -> Channel(R)] /\ s.due \in [Threads -> R]
    BY <1>3 DEF World
  <2>3. QED
    BY <2>2 DEF World
<1>5. Frame(S) \subseteq Frame(R)
  BY DEF Frame
<1>6. QED
  BY <1>4, <1>5

LEMMA GrowGood ==
  ASSUME NEW S, NEW R, S \subseteq R, NEW s, NEW me, Good(S, s, me)
  PROVE  Good(R, s, me)
  BY GrowItems DEF Good

(* A channel replaced by one with the same readers and wakers.             *)
LEMMA ChanUpdate ==
  ASSUME NEW S, NEW s, NEW me, Good(S, s, me), NEW c \in Chans, NEW y \in Channel(S),
         y.readers = s.ch[c].readers, y.wakers = s.ch[c].wakers
  PROVE  Good(S, [s EXCEPT !.ch[c] = y], me)
<1> DEFINE x == [s EXCEPT !.ch[c] = y]
<1>1. /\ x \in World(S) /\ x.st = s.st /\ SameOthers(s, x)
      /\ \A d \in Chans : x.ch[d] = IF d = c THEN y ELSE s.ch[d]
  BY SetCh DEF Good, SameOthers
<1> HIDE DEF x
<1>2. Harmless(s, x)
  BY <1>1 DEF Harmless, SameOthers, Good, WakersRead
<1>3. QED
  BY <1>1, <1>2, HarmlessGood DEF x

(* The updates of a channel's items and writers.                           *)
LEMMA WritersUpdate ==
  ASSUME NEW S, NEW k \in Channel(S), NEW t \in Users
  PROVE  /\ SetWriteNotify(k, t) \in Channel(S) /\ PushWriter(k, t) \in Channel(S)
         /\ SetWriteNotify(k, t).readers = k.readers /\ SetWriteNotify(k, t).wakers = k.wakers
         /\ SetWriteNotify(k, t).store = k.store /\ SetWriteNotify(k, t).data = k.data
         /\ SetWriteNotify(k, t).writers = Append(k.writers, t)
         /\ PushWriter(k, t).readers = k.readers /\ PushWriter(k, t).wakers = k.wakers
         /\ PushWriter(k, t).store = k.store /\ PushWriter(k, t).data = k.data
         /\ PushWriter(k, t).writers = <<t>> \o k.writers
<1>1. k.writers \in Seq(Users)
  BY DEF Channel
<1> DEFINE q == Append(k.writers, t)
           r == <<t>> \o k.writers
<1>2. q \in Seq(Users)
  BY <1>1
<1>3. r \in Seq(Users)
  BY <1>1
<1>4. SetWriteNotify(k, t) = [k EXCEPT !.writers = q]
  BY DEF SetWriteNotify, Channel
<1>5. PushWriter(k, t) = [k EXCEPT !.writers = r]
  BY DEF PushWriter, Channel
<1> HIDE DEF q, r
<1>6. /\ [k EXCEPT !.writers = q] \in Channel(S) /\ [k EXCEPT !.writers = q].readers = k.readers
      /\ [k EXCEPT !.writers = q].wakers = k.wakers /\ [k EXCEPT !.writers = q].store = k.store
      /\ [k EXCEPT !.writers = q].data = k.data /\ [k EXCEPT !.writers = q].writers = q
  BY <1>2 DEF Channel
<1>7. /\ [k EXCEPT !.writers = r] \in Channel(S) /\ [k EXCEPT !.writers = r].readers = k.readers
      /\ [k EXCEPT !.writers = r].wakers = k.wakers /\ [k EXCEPT !.writers = r].store = k.store
      /\ [k EXCEPT !.writers = r].data = k.data /\ [k EXCEPT !.writers = r].writers = r
  BY <1>3 DEF Channel
<1>8. QED
  BY <1>4, <1>5, <1>6, <1>7 DEF q, r

LEMMA StoreUpdate ==
  ASSUME NEW S, NEW k \in Channel(S)
  PROVE  /\ ClearReady(k) \in Channel(S) /\ ClearAll(k) \in Channel(S)
         /\ ClearReady(k).readers = k.readers /\ ClearReady(k).wakers = k.wakers
         /\ ClearReady(k).writers = k.writers /\ ClearReady(k).data = k.data
         /\ ClearReady(k).store = IF k.store = <<>> THEN <<>> ELSE Tail(k.store)
         /\ ClearAll(k).readers = k.readers /\ ClearAll(k).wakers = k.wakers
         /\ ClearAll(k).writers = k.writers /\ ClearAll(k).data = k.data
         /\ ClearAll(k).store = <<>>
<1>1. k.store \in Seq(Item(S))
  BY DEF Channel
<1> DEFINE q == IF k.store = <<>> THEN <<>> ELSE Tail(k.store)
           e == <<>>
<1>2. q \in Seq(Item(S)) /\ e \in Seq(Item(S))
  BY <1>1
<1>3. ClearReady(k) = [k EXCEPT !.store = q]
  BY DEF ClearReady, Channel
<1>5. ClearAll(k) = [k EXCEPT !.store = e]
  BY DEF ClearAll
<1> HIDE DEF q, e
<1>6. QED
  BY <1>2, <1>3, <1>5 DEF Channel, q, e

StoredIs(K, k, y, v, time) ==
  LET i == [v |-> v, at |-> time]
  IN  /\ y.readers = k.readers /\ y.wakers = k.wakers /\ y.writers = k.writers
      /\ OneItem(K) => y.store = <<i>> /\ y.data = v
      /\ ~OneItem(K) => y.store = Append(k.store, i) /\ y.data = k.data
LEMMA StoredUpdate ==
  ASSUME NEW S, NEW k \in Channel(S), NEW K, NEW v \in Value, NEW time \in S
  PROVE  /\ Stored(K, k, v, time) \in Channel(S)
         /\ StoredIs(K, k, Stored(K, k, v, time), v, time)
<1> DEFINE i == [v |-> v, at |-> time]
           y == Stored(K, k, v, time)
<1>1. k.store \in Seq(Item(S)) /\ i \in Item(S)
  BY DEF Channel, Item
<1> HIDE DEF i
<1> DEFINE q == Append(k.store, i)
           e == <<i>>
<1>2. q \in Seq(Item(S)) /\ e \in Seq(Item(S))
  BY <1>1
<1>4. CASE OneItem(K)
  <2>1. y = [k EXCEPT !.store = e, !.data = v]
    BY <1>4 DEF Stored, i
  <2> HIDE DEF q, e
  <2>2. QED
    BY <1>1, <1>2, <1>4, <2>1 DEF Channel, i, e, StoredIs
<1>5. CASE ~OneItem(K)
  <2>1. y = [k EXCEPT !.store = q]
    BY <1>5 DEF Stored, Channel, i
  <2> HIDE DEF q, e
  <2>2. QED
    BY <1>1, <1>2, <1>5, <2>1 DEF Channel, i, q, StoredIs
<1>6. QED
  BY <1>4, <1>5

(* The running thread gives up the processor.                              *)
LEMMA LeftGood ==
  ASSUME NEW S, NEW s, NEW me \in Threads, Good(S, s, me), NEW how \in Status \ {"run"},
         me \in Users \/ how \in Live
  PROVE  Good(S, Left(s, me, how), NULL)
<1>1. PICK x \in World(S) : x = Left(s, me, how) /\ Moved(s, x, me, how)
  BY LeftFacts DEF Good
<1>2. s.st[me] = "run" /\ \A h \in Helpers : x.st[h] \in Live <=> s.st[h] \in Live
  BY <1>1, HelperIds DEF Good, OneRuns, Moved, Live
<1>3. WakersServe(x)
  BY <1>1, <1>2, HelperIds DEF Good, WakersServe, Moved, SameObjects
<1>4. WakersRead(x) /\ WakersClocked(x) /\ OneReader(x)
  BY <1>1 DEF Good, WakersRead, WakersClocked, OneReader, Moved, SameObjects
<1>5. TimersServe(x)
  BY <1>1, <1>2, HelperIds DEF Good, TimersServe, Moved, SameObjects
<1>6. OneRuns(x, NULL)
  BY <1>1, <1>2, HelperIds DEF Good, OneRuns, Moved, Threads
<1>7. QED
  BY <1>1, <1>3, <1>4, <1>5, <1>6 DEF Good

LEMMA WriteNotifyWorld ==
  ASSUME NEW S, Inv(S), NEW t \in Users, WriteNotify(t)
  PROVE  Good(S, w', cur')
<1>1. /\ cur = t /\ cur' = cur /\ f[t].ch \in Chans /\ 0 \in S /\ Good(S, w, t) /\ w \in World(S)
  BY DEF WriteNotify, At, Keeps, Inv, Typed, FrameFits, WritePcs
<1>2. PICK c \in Chans : c = f[t].ch
  BY <1>1
<1>3. CASE w' = w
  BY <1>1, <1>3
<1>4. CASE w' # w
  <2>1. PICK r \in w.ch[c].readers : w' = NotifyReader(w, c, r)
    BY <1>2, <1>4 DEF WriteNotify
  <2>2. r \in Users
    BY <1>1, <2>1 DEF World, Channel
  <2>3. w' \in World(S) /\ Notified(w, w', c, r)
    BY <1>1, <2>1, <2>2, NotifyReaderFacts
  <2>4. QED
    BY <1>1, <2>1, <2>3, NotifiedGood
<1>5. QED
  BY <1>3, <1>4

LEMMA ChanOpWorld ==
  ASSUME NEW S, Inv(S), NEW t \in Users,
         WriteFull(t) \/ WriteStore(t) \/ WriteHeld(t) \/ ReadWriter(t) \/ ReadTake(t)
           \/ ReadReturn(t)
  PROVE  Good(S, w', cur')
<1>1. /\ cur = t /\ cur' = cur /\ f[t].ch \in Chans /\ now \in S /\ Good(S, w, t)
      /\ w \in World(S) /\ f[t].val \in Value
  BY DEF WriteFull, WriteStore, WriteHeld, ReadWriter, ReadTake, ReadReturn, At, Keeps, Inv,
         Typed, FrameFits, WritePcs, ReadPcs, Frame
<1>2. PICK c \in Chans : c = f[t].ch
  BY <1>1
<1>3. PICK k \in Channel(S) : k = w.ch[c]
  BY <1>1, <1>2 DEF World
<1>4. ASSUME NEW y \in Channel(S), y.readers = k.readers, y.wakers = k.wakers,
             w' = [w EXCEPT !.ch[c] = y]
      PROVE  Good(S, w', cur')
  BY <1>1, <1>2, <1>3, <1>4, ChanUpdate
<1>5. CASE w' = w
  BY <1>1, <1>5
<1>6. CASE w' = LetWriterIn(w, c)
  <2>1. w' \in World(S) /\ WriterLetIn(w, w', c)
    BY <1>1, <1>2, <1>6, LetWriterInFacts
  <2>2. QED
    BY <1>1, <1>2, <2>1, WriterLetInGood
<1>7. CASE w' = [w EXCEPT !.ch[c] = SetWriteNotify(@, t)] \/ w' = [w EXCEPT !.ch[c] = PushWriter(@, t)]
  <2>1. w' = [w EXCEPT !.ch[c] = SetWriteNotify(k, t)] \/ w' = [w EXCEPT !.ch[c] = PushWriter(k, t)]
    BY <1>1, <1>2, <1>3, <1>7 DEF World
  <2>2. QED
    BY <1>3, <1>4, <2>1, WritersUpdate
<1>8. CASE w' = [w EXCEPT !.ch[c] = ClearReady(@)]
  <2>1. w' = [w EXCEPT !.ch[c] = ClearReady(k)]
    BY <1>1, <1>2, <1>3, <1>8 DEF World
  <2>2. QED
    BY <1>3, <1>4, <2>1, StoreUpdate
<1>9. CASE w' = Fail(w, "empty_read")
  <2>1. "empty_read" \in Faults
    BY DEF Faults
  <2>2. w' \in World(S) /\ Refused(w, w', "empty_read")
    BY <1>1, <1>9, <2>1, FailFacts DEF Refused, SameObjects
  <2>3. QED
    BY <1>1, <2>2, RefusedGood
<1>10. CASE WriteStore(t)
  <2> DEFINE y == Stored(Class(c), k, f[t].val, now)
             x == [w EXCEPT !.ch[c] = y]
  <2>1. w' = x \/ w' = Fail(x, "assert_size")
    BY <1>1, <1>2, <1>3, <1>10 DEF WriteStore, World
  <2>2. y \in Channel(S) /\ StoredIs(Class(c), k, y, f[t].val, now)
    BY <1>1, <1>3, StoredUpdate
  <2> HIDE DEF y
  <2>3. Good(S, x, t)
    BY <1>1, <1>2, <1>3, <2>2, ChanUpdate DEF StoredIs
  <2> HIDE DEF x
  <2>4. CASE w' = Fail(x, "assert_size")
    <3>1. "assert_size" \in Faults /\ x \in World(S)
      BY <2>3 DEF Faults, Good
    <3>2. w' \in World(S) /\ Refused(x, w', "assert_size")
      BY <2>4, <3>1, FailFacts DEF Refused, SameObjects
    <3>3. QED
      BY <1>1, <2>3, <3>2, RefusedGood
  <2>5. QED
    BY <1>1, <2>1, <2>3, <2>4
<1>11. CASE WriteFull(t)
  BY <1>2, <1>5, <1>7, <1>11 DEF WriteFull
<1>12. CASE WriteHeld(t)
  BY <1>2, <1>6, <1>7, <1>12 DEF WriteHeld
<1>13. CASE ReadWriter(t)
  BY <1>2, <1>5, <1>6, <1>13 DEF ReadWriter
<1>14. CASE ReadReturn(t)
  BY <1>2, <1>5, <1>6, <1>14 DEF ReadReturn
<1>15. CASE ReadTake(t)
  BY <1>2, <1>5, <1>8, <1>9, <1>15 DEF ReadTake
<1>16. QED
  BY <1>10, <1>11, <1>12, <1>13, <1>14, <1>15

LEMMA ReadReadyWorld ==
  ASSUME NEW S, Inv(S), NEW t \in Users, ReadReady(t) \/ ReadWoken(t)
  PROVE  Good(S, w', cur')
<1>1. /\ cur = t /\ cur' = cur /\ f[t].ch \in Chans /\ 0 \in S /\ Good(S, w, t)
      /\ w \in World(S)
  BY DEF ReadReady, ReadWoken, At, Keeps, Inv, Typed, FrameFits, ReadPcs
<1>2. PICK c \in Chans : c = f[t].ch
  BY <1>1
<1>3. Class(c).multi \in BOOLEAN
  BY <1>2, ClassOK DEF Inv
<1>4. CASE w' = w
  BY <1>1, <1>4
<1>5. CASE w' = ChanSetNotify(w, c, t)
  <2>1. /\ w' \in World(S)
        /\ Refused(w, w', "assert_readt") \/ Registered(w, w', c, t)
    BY <1>1, <1>2, <1>3, <1>5, ChanSetNotifyFacts
  <2>2. QED
    BY <1>1, <1>2, <2>1, RefusedGood, RegisteredGood
<1>6. CASE w' = ChanClearNotify(w, c, t)
  <2>1. w' \in World(S) /\ Forgotten(w, w', c, t)
    BY <1>1, <1>2, <1>3, <1>6, ChanClearNotifyFacts DEF Good
  <2>2. QED
    BY <1>1, <1>2, <2>1, ForgottenGood
<1>7. QED
  BY <1>2, <1>4, <1>5, <1>6 DEF ReadReady, ReadWoken

(* A change that no helper and no registration sees.                       *)
SameTimers(s, x) ==
  \A o \in Timeouts : x.to[o].readt = s.to[o].readt /\ x.to[o].writet = s.to[o].writet
LEMMA UnseenGood ==
  ASSUME NEW S, NEW s, NEW me, Good(S, s, me), NEW x \in World(S), x.st = s.st, x.ch = s.ch,
         SameTimers(s, x)
  PROVE  Good(S, x, me)
<1>1. Harmless(s, x)
  BY DEF Harmless, SameTimers, Good, WakersRead
<1>2. QED
  BY <1>1, HarmlessGood

LEMMA SetWaiters ==
  ASSUME NEW S, NEW s \in World(S), NEW t \in Users, NEW q \in Seq(Users)
  PROVE  LET x == [s EXCEPT !.waiters[t] = q]
         IN  /\ x \in World(S) /\ x.st = s.st /\ x.ch = s.ch /\ x.to = s.to /\ x.res = s.res
             /\ x.fault = s.fault /\ x.waiters = [s.waiters EXCEPT ![t] = q]
  BY DEF World

LEMMA SetDue ==
  ASSUME NEW S, NEW s \in World(S), NEW t \in Threads, NEW d \in S
  PROVE  LET x == [s EXCEPT !.due[t] = d]
         IN  x \in World(S) /\ x.st = s.st /\ SameObjects(s, x) /\ x.fault = s.fault
  BY DEF World, SameObjects

LEMMA SetLocked ==
  ASSUME NEW S, NEW s \in World(S), NEW b \in BOOLEAN
  PROVE  LET x == [s EXCEPT !.locked = b]
         IN  x \in World(S) /\ x.st = s.st /\ SameObjects(s, x) /\ x.fault = s.fault
  BY DEF World, SameObjects

LEMMA EndWorld ==
  ASSUME NEW S, Inv(S), NEW t \in Users, End(t)
  PROVE  Good(S, w', cur')
<1>1. cur = t /\ cur' = NULL /\ Good(S, w, t) /\ w \in World(S)
  BY DEF End, At, BlockIn, Inv, Typed
<1> DEFINE T == ToSet(w.waiters[t])
           x == WakeAll(w, T)
           e == <<>>
           y == [x EXCEPT !.waiters[t] = e]
<1>2. T \in SUBSET Users
  BY <1>1 DEF World, ToSet
<1>3. w' = Left(y, t, "done") /\ e \in Seq(Users)
  BY DEF End, BlockIn, Left
<1> HIDE DEF T, e
<1>4. x \in World(S) /\ AllReadied(w, x, T)
  BY <1>1, <1>2, WakeAllFacts
<1> HIDE DEF x
<1>5. Good(S, x, t)
  BY <1>1, <1>2, <1>4, AllReadiedGood
<1>6. y \in World(S) /\ y.st = x.st /\ y.ch = x.ch /\ y.to = x.to
  BY <1>3, <1>4, SetWaiters
<1> HIDE DEF y
<1>7. Good(S, y, t)
  BY <1>5, <1>6, UnseenGood DEF SameTimers
<1>8. "done" \in Status \ {"run"} /\ t \in Threads
  BY HelperIds DEF Status
<1>9. QED
  BY <1>1, <1>3, <1>7, <1>8, LeftGood

(* A thread is suspended until a time that enters S.                       *)
LEMMA DelayGood ==
  ASSUME NEW S, NEW s, NEW me \in Threads, Good(S, s, me), NEW d
  PROVE  Good(S \cup {d}, Left([s EXCEPT !.due[me] = d], me, "delay"), NULL)
<1> DEFINE R == S \cup {d}
           x == [s EXCEPT !.due[me] = d]
<1>1. Good(R, s, me) /\ s \in World(R) /\ d \in R
  BY GrowGood DEF Good
<1> HIDE DEF R
<1>2. x \in World(R) /\ x.st = s.st /\ SameObjects(s, x)
  BY <1>1, SetDue
<1> HIDE DEF x
<1>3. Good(R, x, me)
  BY <1>1, <1>2, UnseenGood DEF SameTimers, SameObjects
<1>4. "delay" \in Status \ {"run"} /\ "delay" \in Live
  BY DEF Status, Live
<1>5. QED
  BY <1>3, <1>4, LeftGood DEF x, R

LEMMA DelayCallWorld ==
  ASSUME NEW S, Inv(S), NEW t \in Users, DelayCall(t)
  PROVE  \E d : Good(S \cup {d}, w', cur')
<1>1. /\ cur = t /\ cur' = NULL /\ Good(S, w, t) /\ t \in Threads
      /\ w' = Left([w EXCEPT !.due[t] = now + f[t].op.d], t, "delay")
  BY HelperIds DEF DelayCall, At, BlockIn, Inv, Left
<1>2. QED
  BY <1>1, DelayGood

LEMMA SleepWorld ==
  ASSUME NEW S, Inv(S), NEW t \in Users, Sleep(t)
  PROVE  Good(S, w', cur')
<1>1. /\ cur = t /\ cur' = NULL /\ Good(S, w, t) /\ t \in Threads
      /\ w' = Left(w, t, "busy") \/ w' = Left(w, t, "sleep")
  BY HelperIds DEF Sleep, At, BlockIn, Inv, Left
<1>2. "busy" \in Status \ {"run"} /\ "sleep" \in Status \ {"run"}
  BY DEF Status, Live
<1>3. QED
  BY <1>1, <1>2, LeftGood

LEMMA ClearChanGood ==
  ASSUME NEW S, NEW s, NEW me \in Users, Good(S, s, me), NEW c \in Chans,
         Class(c).kind \in {"chan", "busy", "queue", "clock"}
  PROVE  Good(S, ClearChan(s, c), me)
<1>1. PICK k \in Channel(S) : k = s.ch[c]
  BY DEF Good, World
<1> DEFINE x == [s EXCEPT !.ch[c] = ClearAll(k)]
<1>2. /\ OneItem(Class(c)) => ClearChan(s, c) = Unlocked(x)
      /\ Class(c).kind = "queue" => ClearChan(s, c) = x
      /\ Class(c).kind = "clock" => ClearChan(s, c) = LetWriterIn(x, c)
  BY <1>1 DEF ClearChan, OneItem, Good, World
<1>3. Good(S, x, me)
  BY <1>1, StoreUpdate, ChanUpdate
<1> HIDE DEF x
<1>4. x \in World(S)
  BY <1>3 DEF Good
<1>5. CASE OneItem(Class(c))
  <2>1. PICK y \in World(S) : y = Unlocked(x) /\ y.st = x.st /\ y.ch = x.ch /\ y.to = x.to
    BY <1>4, UnlockedFacts
  <2>2. QED
    BY <1>2, <1>3, <1>5, <2>1, UnseenGood DEF SameTimers
<1>6. CASE Class(c).kind = "clock"
  <2>1. PICK y \in World(S) : y = LetWriterIn(x, c) /\ WriterLetIn(x, y, c)
    BY <1>4, LetWriterInFacts
  <2>2. QED
    BY <1>2, <1>3, <1>6, <2>1, WriterLetInGood
<1>7. QED
  BY <1>2, <1>3, <1>5, <1>6 DEF OneItem

LEMMA ClearWorld ==
  ASSUME NEW S, Inv(S), NEW t \in Users, Clear(t)
  PROVE  Good(S, w', cur')
<1>1. cur = t /\ cur' = cur /\ f[t].ch \in Chans /\ Good(S, w, t)
  BY DEF Clear, At, Keeps, Inv, Typed, FrameFits
<1>2. PICK c \in Chans : c = f[t].ch
  BY <1>1
<1>3. PICK k \in Channel(S) : k = w.ch[c]
  BY <1>1, <1>2 DEF Good, World
<1>4. CASE w' = ClearChan(w, c)
  BY <1>1, <1>2, <1>4, ClassOK, ClearChanGood DEF Inv
<1>5. CASE w' = [w EXCEPT !.ch[c] = ClearReady(@)]
  <2>1. w' = [w EXCEPT !.ch[c] = ClearReady(k)]
    BY <1>1, <1>2, <1>3, <1>5 DEF Good, World
  <2>2. QED
    BY <1>1, <1>2, <1>3, <2>1, StoreUpdate, ChanUpdate
<1>6. QED
  BY <1>2, <1>4, <1>5 DEF Clear

LEMMA UnlockedGood ==
  ASSUME NEW S, NEW s, NEW me, Good(S, s, me)
  PROVE  Good(S, Unlocked(s), me)
<1>1. PICK y \in World(S) : y = Unlocked(s) /\ y.st = s.st /\ y.ch = s.ch /\ y.to = s.to
  BY UnlockedFacts DEF Good
<1>2. QED
  BY <1>1, UnseenGood DEF SameTimers

LEMMA SetReady ==
  ASSUME NEW S, NEW s \in World(S), NEW o \in Timeouts, NEW b \in BOOLEAN
  PROVE  LET x == [s EXCEPT !.to[o].ready = b]
         IN  /\ x \in World(S) /\ x.st = s.st /\ x.ch = s.ch /\ x.res = s.res
             /\ x.waiters = s.waiters /\ x.fault = s.fault /\ SameTimers(s, x)
             /\ x.to[o].ready = b /\ \A p \in Timeouts \ {o} : x.to[p].ready = s.to[p].ready
<1> DEFINE R == [ready : BOOLEAN, readt : Users \cup {NULL}, writet : BOOLEAN]
           m == [s.to EXCEPT ![o].ready = b]
<1>1. s.to \in [Timeouts -> R]
  BY DEF World
<1>2. /\ m \in [Timeouts -> R] /\ m[o].ready = b
      /\ \A p \in Timeouts : m[p].readt = s.to[p].readt /\ m[p].writet = s.to[p].writet
      /\ \A p \in Timeouts \ {o} : m[p].ready = s.to[p].ready
  BY <1>1
<1> HIDE DEF m
<1>3. PICK x : x = [s EXCEPT !.to = m]
  OBVIOUS
<1>4. /\ x \in World(S) /\ x.st = s.st /\ x.ch = s.ch /\ x.res = s.res
      /\ x.waiters = s.waiters /\ x.fault = s.fault /\ x.to = m
  BY <1>2, <1>3 DEF World
<1>5. x = [s EXCEPT !.to[o].ready = b]
  BY <1>3 DEF m
<1>6. SameTimers(s, x)
  BY <1>2, <1>4 DEF SameTimers
<1>7. QED
  BY <1>2, <1>4, <1>5, <1>6

LEMMA ToSetNotifyGood ==
  ASSUME NEW S, 0 \in S, NEW s, NEW me, Good(S, s, me), NEW o \in Timeouts, NEW t \in Users
  PROVE  Good(S, ToSetNotify(s, o, t), me)
<1> DEFINE x == ToSetNotify(s, o, t)
<1>1. x \in World(S) /\ (Refused(s, x, "assert_writet") \/ Timed(s, x, o, t))
  BY ToSetNotifyFacts DEF Good
<1> HIDE DEF x
<1>2. QED
  BY <1>1, RefusedGood, TimedGood DEF x

LEMMA ToGetWorld ==
  ASSUME NEW S, Inv(S), NEW t \in Users, ToGet(t)
  PROVE  Good(S, w', cur')
<1>1. cur = t /\ cur' = cur /\ f[t].ch \in Timeouts /\ Good(S, w, t) /\ 0 \in S
  BY DEF ToGet, At, Keeps, Inv, Typed, FrameFits
<1>2. PICK o \in Timeouts : o = f[t].ch
  BY <1>1
<1> DEFINE x == IF w.to[o].ready THEN w ELSE ToSetNotify(w, o, t)
           y == Unlocked(x)
<1>3. w' = [y EXCEPT !.to[o].ready = FALSE]
  BY <1>2 DEF ToGet
<1>4. Good(S, x, t)
  BY <1>1, ToSetNotifyGood
<1> HIDE DEF x
<1>5. Good(S, y, t)
  BY <1>4, UnlockedGood
<1> HIDE DEF y
<1>6. w' \in World(S) /\ w'.st = y.st /\ w'.ch = y.ch /\ SameTimers(y, w')
  <2>1. PICK b \in BOOLEAN : b = FALSE
    OBVIOUS
  <2>2. w' = [y EXCEPT !.to[o].ready = b] /\ y \in World(S)
    BY <1>3, <1>5, <2>1 DEF Good
  <2>3. QED
    BY <2>1, <2>2, SetReady
<1>7. QED
  BY <1>1, <1>5, <1>6, UnseenGood

LEMMA SetRead ==
  ASSUME NEW S, NEW s \in World(S), NEW r \in Results, NEW b \in BOOLEAN
  PROVE  LET x == [s EXCEPT !.res[r].read = b]
         IN  /\ x \in World(S) /\ x.st = s.st /\ x.ch = s.ch /\ x.to = s.to
             /\ x.waiters = s.waiters /\ x.fault = s.fault
             /\ \A p \in Results : x.res[p].rt = s.res[p].rt
             /\ \A p \in Results \ {r} : x.res[p].read = s.res[p].read
             /\ x.res[r].read = b
  BY DEF World

LEMMA SetReadGood ==
  ASSUME NEW S, NEW s, NEW me, Good(S, s, me), NEW r \in Results, NEW b \in BOOLEAN
  PROVE  Good(S, [s EXCEPT !.res[r].read = b], me)
<1> DEFINE x == [s EXCEPT !.res[r].read = b]
<1>1. x \in World(S) /\ x.st = s.st /\ x.ch = s.ch /\ x.to = s.to
  BY SetRead DEF Good
<1> HIDE DEF x
<1>2. QED
  BY <1>1, UnseenGood DEF x, SameTimers

LEMMA ResGetWorld ==
  ASSUME NEW S, Inv(S), NEW t \in Users, ResGet(t) \/ ResClear(t)
  PROVE  Good(S, w', cur')
<1>1. /\ cur = t /\ f[t].ch \in Results /\ Good(S, w, t) /\ 0 \in S /\ t \in Threads
      /\ ResClear(t) => cur' = cur
  BY HelperIds DEF ResGet, ResClear, At, Keeps, Inv, Typed, FrameFits, ResOps
<1>2. PICK r \in Results : r = f[t].ch
  BY <1>1
<1>3. ResThread[r] \in Users
  BY ChannelsAssumption
<1> DEFINE x == IF f[t].pc = "res_get" THEN [w EXCEPT !.res[r].read = TRUE] ELSE w
<1>4. Good(S, x, t)
  BY <1>1, SetReadGood
<1>5. CASE ResClear(t)
  <2>1. w' = [w EXCEPT !.res[r].read = FALSE]
    BY <1>2, <1>5 DEF ResClear
  <2>2. QED
    BY <1>1, <1>5, <2>1, SetReadGood
<1>6. CASE ResGet(t) /\ w.st[ResThread[r]] = "done"
  <2>1. w' = Unlocked(x) /\ cur' = cur
    BY <1>2, <1>6 DEF ResGet
  <2> HIDE DEF x
  <2>2. QED
    BY <1>1, <1>4, <2>1, UnlockedGood
<1>7. CASE ResGet(t) /\ w.st[ResThread[r]] # "done"
  <2> DEFINE u == ResThread[r]
             q == Append(x.waiters[u], t)
             y == [x EXCEPT !.waiters[u] = q]
  <2>1. cur' = NULL /\ w' = Left([x EXCEPT !.waiters[u] = Append(@, t)], t, "sleep")
    BY <1>2, <1>7 DEF ResGet, BlockIn, Left
  <2> HIDE DEF x
  <2>2. x.waiters \in [Users -> Seq(Users)]
    BY <1>4 DEF Good, World
  <2>3. q \in Seq(Users) /\ [x EXCEPT !.waiters[u] = Append(@, t)] = y
    <3>1. x.waiters[u] \in Seq(Users)
      BY <1>3, <2>2
    <3>2. q \in Seq(Users)
      BY <3>1
    <3>3. [x EXCEPT !.waiters[u] = Append(@, t)] = y
      BY <1>3, <1>4, <2>2 DEF Good, World
    <3>4. QED
      BY <3>2, <3>3
  <2> HIDE DEF q
  <2>4. y \in World(S) /\ y.st = x.st /\ y.ch = x.ch /\ y.to = x.to
    BY <1>3, <1>4, <2>3, SetWaiters DEF Good
  <2> HIDE DEF y
  <2>5. Good(S, y, t)
    BY <1>4, <2>4, UnseenGood DEF SameTimers
  <2>6. "sleep" \in Status \ {"run"}
    BY DEF Status, Live
  <2>7. QED
    BY <1>1, <2>1, <2>3, <2>5, <2>6, LeftGood
<1>8. QED
  BY <1>5, <1>6, <1>7

LEMMA PortKind ==
  ASSUME NEW S, Typed(S), NEW t \in Users, f[t].pc \in {"a_scan", "a_register", "a_clear"},
         ~AtEnd(t)
  PROVE  Port(t) \in Ports /\ Port(t) \in PortsOf(t) /\ f[t].idx \in 1..Len(AltPorts(t))
<1>1. f[t].op \in Calls /\ f[t].idx \in Nat \ {0}
  BY DEF Typed, FrameFits, Frame, AltPcs, PortPcs
<1>2. AltPorts(t) \in Seq(Ports) /\ Len(AltPorts(t)) \in Nat
  BY <1>1, AltPortsFacts
<1>3. f[t].idx \in 1..Len(AltPorts(t))
  BY <1>1, <1>2 DEF AtEnd
<1>4. QED
  BY <1>1, <1>2, <1>3, AltPortsFacts DEF Port

LEMMA SetNotifyGood ==
  ASSUME NEW S, Typed(S), NEW s, NEW me, Good(S, s, me), NEW p \in Ports, NEW t \in Users
  PROVE  Good(S, SetNotify(s, p, t), me)
<1>1. CASE p \in Chans
  <2> DEFINE x == ChanSetNotify(s, p, t)
  <2>1. SetNotify(s, p, t) = x
    BY <1>1, DistinctObjects DEF SetNotify
  <2>2. x \in World(S) /\ (Refused(s, x, "assert_readt") \/ Registered(s, x, p, t))
    BY <1>1, ClassOK, ChanSetNotifyFacts DEF Good, Typed
  <2> HIDE DEF x
  <2>3. QED
    BY <1>1, <2>1, <2>2, RefusedGood, RegisteredGood
<1>2. CASE p \in Timeouts
  <2>1. SetNotify(s, p, t) = ToSetNotify(s, p, t)
    BY <1>2, DistinctObjects DEF SetNotify
  <2>2. QED
    BY <1>2, <2>1, ToSetNotifyGood DEF Typed
<1>3. CASE p \in Results
  <2> DEFINE x == ResSetNotify(s, p, t)
  <2>0. p \notin Chans /\ p \notin Timeouts
    BY <1>3, DistinctObjects
  <2>1. SetNotify(s, p, t) = x
    BY <1>3, <2>0 DEF SetNotify
  <2>2. x \in World(S) /\ (Refused(s, x, "assert_rt") \/ ResultAwaited(s, x, p, t))
    BY <1>3, ResSetNotifyFacts DEF Good
  <2> HIDE DEF x
  <2>3. QED
    BY <1>3, <2>1, <2>2, RefusedGood, ResultAwaitedGood
<1>4. QED
  BY <1>1, <1>2, <1>3 DEF Ports

LEMMA ClearNotifyGood ==
  ASSUME NEW S, Typed(S), NEW s, NEW me \in Users, Good(S, s, me), NEW p \in Ports, NEW t \in Users
  PROVE  Good(S, ClearNotify(s, p, t), me)
<1>1. CASE p \in Chans
  <2> DEFINE x == ChanClearNotify(s, p, t)
  <2>1. ClearNotify(s, p, t) = x
    BY <1>1, DistinctObjects DEF ClearNotify
  <2>2. x \in World(S) /\ Forgotten(s, x, p, t)
    BY <1>1, ClassOK, ChanClearNotifyFacts DEF Good
  <2> HIDE DEF x
  <2>3. QED
    BY <1>1, <2>1, <2>2, ForgottenGood
<1>2. CASE p \in Timeouts
  <2> DEFINE x == ToClearNotify(s, p)
  <2>1. ClearNotify(s, p, t) = x
    BY <1>2, DistinctObjects DEF ClearNotify
  <2>2. x \in World(S) /\ Untimed(s, x, p)
    BY <1>2, ToClearNotifyFacts DEF Good
  <2> HIDE DEF x
  <2>3. QED
    BY <1>2, <2>1, <2>2, UntimedGood
<1>3. CASE p \in Results
  <2> DEFINE x == ResClearNotify(s, p)
  <2>0. p \notin Chans /\ p \notin Timeouts
    BY <1>3, DistinctObjects
  <2>1. ClearNotify(s, p, t) = x
    BY <1>3, <2>0 DEF ClearNotify
  <2>2. x \in World(S) /\ ResultLeft(s, x, p)
    BY <1>3, ResClearNotifyFacts DEF Good
  <2> HIDE DEF x
  <2>3. QED
    BY <1>3, <2>1, <2>2, ResultAwaitedGood
<1>4. QED
  BY <1>1, <1>2, <1>3 DEF Ports

LEMMA AltWorld ==
  ASSUME NEW S, Inv(S), NEW t \in Users,
         AltLock(t) \/ AltScan(t) \/ AltRegister(t) \/ AltClear(t) \/ AltGet(t) \/ AltUnlock(t)
  PROVE  Good(S, w', cur')
<1>1. cur = t /\ cur' = cur /\ Good(S, w, t) /\ Typed(S)
  BY DEF AltLock, AltScan, AltRegister, AltClear, AltGet, AltUnlock, At, Keeps, Inv
<1>2. CASE w' = w
  BY <1>1, <1>2
<1>3. CASE AltLock(t)
  <2>1. w' = [w EXCEPT !.locked = TRUE]
    BY <1>3 DEF AltLock
  <2>2. w' \in World(S) /\ w'.st = w.st /\ SameObjects(w, w')
    BY <1>1, <2>1, SetLocked DEF Good
  <2>3. QED
    BY <1>1, <2>2, UnseenGood DEF SameTimers, SameObjects
<1>4. CASE AltRegister(t) /\ ~AtEnd(t)
  <2>1. Port(t) \in Ports /\ w' = SetNotify(w, Port(t), t)
    BY <1>1, <1>4, PortKind DEF AltRegister, At
  <2>2. QED
    BY <1>1, <2>1, SetNotifyGood
<1>5. CASE AltClear(t) /\ ~AtEnd(t)
  <2>1. Port(t) \in Ports /\ w' = ClearNotify(w, Port(t), t)
    BY <1>1, <1>5, PortKind DEF AltClear, At
  <2>2. QED
    BY <1>1, <2>1, ClearNotifyGood
<1>6. CASE w' = Unlocked(w)
  BY <1>1, <1>6, UnlockedGood
<1>7. QED
  BY <1>2, <1>3, <1>4, <1>5, <1>6 DEF AltScan, AltRegister, AltClear, AltGet, AltUnlock

LEMMA ReflectWorld ==
  ASSUME NEW S, Inv(S), NEW t \in Users, Reflect(t)
  PROVE  Good(S, w', cur')
<1>1. cur = t /\ cur' = cur /\ Good(S, w, t) /\ Typed(S)
  BY DEF Reflect, At, Keeps, Inv
<1>2. CASE w' = w
  BY <1>1, <1>2
<1>3. CASE w' # w
  <2>1. w' = ClearChan(w, Sink(t)) /\ ~(f[t].pc = "reflect" \/ AtEnd(t))
    BY <1>3 DEF Reflect
  <2>2. PICK c \in Chans : c = Sink(t)
    BY <1>1, <2>1, ReflectFrames
  <2>3. QED
    BY <1>1, <2>1, <2>2, ClassOK, ClearChanGood
<1>4. QED
  BY <1>2, <1>3

-----------------------------------------------------------------------------
(* The helper threads and the scheduler.                                   *)

LEMMA HelperDelayWorld ==
  ASSUME NEW S, Inv(S), NEW h \in Helpers, HelperDelay(h)
  PROVE  \E d : Good(S \cup {d}, w', cur')
<1> DEFINE d == IF h[1] \in Timeouts THEN now + Delay[h[1]] ELSE NextPhi(Class(h[1]), now)
<1>1. /\ cur = h /\ cur' = NULL /\ Good(S, w, h) /\ h \in Threads
      /\ w' = Left([w EXCEPT !.due[h] = d], h, "delay")
  BY HelperIds DEF HelperDelay, Runs, BlockIn, Inv, Left
<1> HIDE DEF d
<1>2. QED
  BY <1>1, DelayGood

TimerFired(s, x, o) ==
  LET r == s.to[o].readt
  IN  /\ x.ch = s.ch /\ x.res = s.res /\ x.waiters = s.waiters
      /\ \A p \in Timeouts : /\ x.to[p].ready = IF p = o THEN TRUE ELSE s.to[p].ready
                             /\ x.to[p].readt = IF p = o THEN NULL ELSE s.to[p].readt
                             /\ x.to[p].writet = s.to[p].writet
      /\ \A u \in Threads : x.st[u] = IF u = TimerOf(o) THEN "done"
                                      ELSE IF u = r /\ s.st[u] = "sleep" THEN "ready" ELSE s.st[u]
      /\ x.fault \in {s.fault, "null_wake", "bad_wake"}
      /\ r # NULL /\ s.st[r] \in {"sleep", "ready", "done"} => x.fault = s.fault
WakerFired(s, x, c, r) ==
  /\ NewReaders(s, x, c, s.ch[c].readers \ {r}, s.ch[c].wakers \ {r})
  /\ \A u \in Threads :
       x.st[u] = IF u = WakerOf(c, r) THEN "done"
                 ELSE IF u = r /\ r \in s.ch[c].readers /\ s.st[u] = "sleep" THEN "ready"
                 ELSE s.st[u]
  /\ x.fault \in {s.fault, "null_wake", "bad_wake"}
  /\ r \in s.ch[c].readers /\ s.st[r] \in {"sleep", "ready", "done"} => x.fault = s.fault

LEMMA TimerFireFacts ==
  ASSUME NEW S, Inv(S), NEW o \in Timeouts, HelperFire(TimerOf(o))
  PROVE  w' \in World(S) /\ TimerFired(w, w', o)
<1> DEFINE h == TimerOf(o)
           r == w.to[o].readt
           y == [w EXCEPT !.to[o].ready = TRUE, !.to[o].readt = NULL]
           x == Wake(y, r)
<1>1. h \in Threads /\ h \in Helpers /\ h # NULL /\ h[1] = o /\ w \in World(S)
  BY HelperIds DEF TimerOf, Inv, Good
<1>2. w' = Left(x, h, "done")
  <2>1. w' = [Unlocked(x) EXCEPT !.st[h] = "done"]
    BY <1>1 DEF HelperFire, BlockIn
  <2>2. QED
    BY <2>1 DEF Left
<1>3. r \in Users \cup {NULL}
  BY <1>1 DEF World
<1>4. /\ y \in World(S) /\ y.st = w.st /\ y.ch = w.ch /\ y.res = w.res /\ y.waiters = w.waiters
      /\ y.fault = w.fault
      /\ \A p \in Timeouts : /\ y.to[p].ready = IF p = o THEN TRUE ELSE w.to[p].ready
                             /\ y.to[p].readt = IF p = o THEN NULL ELSE w.to[p].readt
                             /\ y.to[p].writet = w.to[p].writet
  <2> DEFINE R == [ready : BOOLEAN, readt : Users \cup {NULL}, writet : BOOLEAN]
  <2>1. PICK k \in R : k = w.to[o]
    BY <1>1 DEF World
  <2>2. PICK b \in BOOLEAN, n \in Users \cup {NULL} : b = TRUE /\ n = NULL
    OBVIOUS
  <2> DEFINE m == [k EXCEPT !.ready = b, !.readt = n]
  <2>3. m \in R /\ m.ready = b /\ m.readt = n /\ m.writet = k.writet
    BY <2>1, <2>2
  <2>4. y = [w EXCEPT !.to[o] = m]
    BY <1>1, <2>1, <2>2 DEF World
  <2> HIDE DEF m, y
  <2>5. /\ y \in World(S) /\ y.st = w.st /\ y.ch = w.ch /\ y.res = w.res /\ y.waiters = w.waiters
        /\ y.fault = w.fault
        /\ \A p \in Timeouts : y.to[p] = IF p = o THEN m ELSE w.to[p]
    BY <1>1, <2>3, <2>4 DEF World
  <2>6. QED
    BY <2>1, <2>2, <2>3, <2>5
<1> HIDE DEF y, r
<1>5. x \in World(S) /\ Readied(y, x, r)
  BY <1>3, <1>4, WakeFacts
<1> HIDE DEF x, h
<1>6. w' \in World(S) /\ Moved(x, w', h, "done")
  <2>1. "done" \in Status
    BY DEF Status
  <2>2. QED
    BY <1>1, <1>2, <1>5, <2>1, LeftFacts
<1>7. r # h
  BY <1>1, <1>3, HelperIds
<1>8. /\ w'.ch = w.ch /\ w'.res = w.res /\ w'.waiters = w.waiters /\ w'.to = y.to
      /\ \A u \in Threads : w'.st[u] = IF u = h THEN "done"
                                      ELSE IF u = r /\ w.st[u] = "sleep" THEN "ready" ELSE w.st[u]
      /\ w'.fault \in {w.fault, "null_wake", "bad_wake"}
      /\ r # NULL /\ w.st[r] \in {"sleep", "ready", "done"} => w'.fault = w.fault
  BY <1>4, <1>5, <1>6, <1>7 DEF Readied, Moved, SameObjects, Woke
<1>9. QED
  BY <1>4, <1>6, <1>8 DEF TimerFired, h, r

LEMMA WakerFireFacts ==
  ASSUME NEW S, Inv(S), NEW c \in Chans, NEW r \in Users, HelperFire(WakerOf(c, r))
  PROVE  w' \in World(S) /\ WakerFired(w, w', c, r)
<1> DEFINE h == WakerOf(c, r)
           y == Unregister(w, c, r)
           v == IF r \in w.ch[c].readers THEN r ELSE NULL
           x == Wake(y, v)
<1>1. /\ h \in Threads /\ h \in Helpers /\ h # NULL /\ h[1] = c /\ h[2] = r /\ w \in World(S)
      /\ c \notin Timeouts
  BY HelperIds, DistinctObjects DEF WakerOf, Inv, Good
<1>2. w' = Left(x, h, "done")
  <2>1. w' = [Unlocked(x) EXCEPT !.st[h] = "done"]
    BY <1>1 DEF HelperFire, BlockIn
  <2>2. QED
    BY <2>1 DEF Left
<1>3. v \in Users \cup {NULL} /\ (v # NULL <=> r \in w.ch[c].readers) /\ (v # NULL => v = r)
  BY HelperIds
<1>4. /\ y \in World(S) /\ y.st = w.st /\ y.fault = w.fault
      /\ NewReaders(w, y, c, w.ch[c].readers \ {r}, w.ch[c].wakers \ {r})
  BY <1>1, UnregisterFacts
<1> HIDE DEF y, v
<1>5. x \in World(S) /\ Readied(y, x, v)
  BY <1>3, <1>4, WakeFacts
<1> HIDE DEF x, h
<1>6. w' \in World(S) /\ Moved(x, w', h, "done")
  <2>1. "done" \in Status
    BY DEF Status
  <2>2. QED
    BY <1>1, <1>2, <1>5, <2>1, LeftFacts
<1>7. r # h /\ NULL \notin Threads
  BY <1>1, HelperIds DEF Threads
<1>8. w'.ch = y.ch /\ w'.to = y.to /\ w'.res = y.res /\ w'.waiters = y.waiters
  BY <1>5, <1>6 DEF Readied, Moved, SameObjects
<1>9. NewReaders(w, w', c, w.ch[c].readers \ {r}, w.ch[c].wakers \ {r})
  BY <1>4, <1>8 DEF NewReaders, SameItems, SameWriters, SameOthers
<1>10. /\ \A u \in Threads :
            w'.st[u] = IF u = h THEN "done"
                       ELSE IF u = r /\ r \in w.ch[c].readers /\ w.st[u] = "sleep" THEN "ready"
                       ELSE w.st[u]
       /\ w'.fault \in {w.fault, "null_wake", "bad_wake"}
       /\ r \in w.ch[c].readers /\ w.st[r] \in {"sleep", "ready", "done"} => w'.fault = w.fault
  BY <1>3, <1>4, <1>5, <1>6, <1>7 DEF Readied, Moved, Woke
<1>11. QED
  BY <1>6, <1>9, <1>10 DEF WakerFired, h

LEMMA TimerFireWorld ==
  ASSUME NEW S, Inv(S), NEW o \in Timeouts, HelperFire(TimerOf(o))
  PROVE  Good(S, w', cur')
<1>1. /\ w' \in World(S) /\ TimerFired(w, w', o) /\ cur = TimerOf(o) /\ cur' = NULL
      /\ Good(S, w, cur) /\ w.to[o].readt \in Users \cup {NULL}
  BY TimerFireFacts DEF HelperFire, Runs, BlockIn, Inv, Good, World
<1>2. \A h \in Helpers : w'.st[h] = IF h = TimerOf(o) THEN "done" ELSE w.st[h]
  BY <1>1, HelperIds DEF TimerFired
<1>3. WakersServe(w')
  BY <1>1, <1>2, HelperIds DEF WakersServe, Good, TimerFired
<1>4. WakersRead(w') /\ WakersClocked(w)
  BY <1>1 DEF Good, WakersRead, WakersClocked, TimerFired
<1>5. OneReader(w')
  BY <1>1 DEF Good, OneReader, TimerFired
<1>6. \A c \in Chans : w'.ch[c].wakers # {} => Class(c).kind = "clock"
  BY <1>1 DEF Good, WakersClocked, TimerFired
<1>7. TimersServe(w')
  BY <1>1, <1>2, HelperIds DEF Good, TimersServe, TimerFired, Live
<1>8. OneRuns(w', NULL)
  BY <1>1, <1>2, HelperIds DEF Good, OneRuns, TimerFired, Threads
<1>9. QED
  BY <1>1, <1>3, <1>4, <1>5, <1>6, <1>7, <1>8 DEF Good, WakersClocked

LEMMA WakerFireWorld ==
  ASSUME NEW S, Inv(S), NEW c \in Chans, NEW r \in Users, HelperFire(WakerOf(c, r))
  PROVE  Good(S, w', cur')
<1>1. /\ w' \in World(S) /\ WakerFired(w, w', c, r) /\ cur = WakerOf(c, r) /\ cur' = NULL
      /\ Good(S, w, cur)
  BY WakerFireFacts DEF HelperFire, Runs, BlockIn, Inv, Good
<1>2. \A h \in Helpers : w'.st[h] = IF h = WakerOf(c, r) THEN "done" ELSE w.st[h]
  BY <1>1, HelperIds DEF WakerFired
<1>3. /\ w'.to = w.to
      /\ \A d \in Chans :
           /\ w'.ch[d].readers = IF d = c THEN w.ch[c].readers \ {r} ELSE w.ch[d].readers
           /\ w'.ch[d].wakers = IF d = c THEN w.ch[c].wakers \ {r} ELSE w.ch[d].wakers
  BY <1>1 DEF WakerFired, NewReaders, SameOthers
<1>4. WakersServe(w')
  BY <1>1, <1>2, <1>3, HelperIds DEF WakersServe, Good, Live
<1>5. WakersRead(w')
  BY <1>1, <1>3 DEF Good, WakersRead
<1>6. OneReader(w')
  BY <1>1, <1>3 DEF Good, OneReader
<1>7. \A d \in Chans : w'.ch[d].wakers # {} => Class(d).kind = "clock"
  BY <1>1, <1>3 DEF Good, WakersClocked
<1>8. TimersServe(w')
  BY <1>1, <1>2, <1>3, HelperIds DEF Good, TimersServe
<1>9. OneRuns(w', NULL)
  BY <1>1, <1>2, HelperIds DEF Good, OneRuns, WakerFired, Threads
<1>10. QED
  BY <1>1, <1>4, <1>5, <1>6, <1>7, <1>8, <1>9 DEF Good, WakersClocked

LEMMA DispatchWorld ==
  ASSUME NEW S, Inv(S), NEW t \in Threads, Dispatch(t)
  PROVE  Good(S, w', cur') /\ Moved(w, w', t, "run")
<1>1. /\ cur = NULL /\ cur' = t /\ w' = Left(w, t, "run") /\ Good(S, w, NULL) /\ w.st[t] = "ready"
  BY DEF Dispatch, ReadyThreads, Inv, Left
<1>2. "run" \in Status /\ \A v : v \in {"run", "ready"} => v \in Live
  BY DEF Status, Live
<1>3. w' \in World(S) /\ Moved(w, w', t, "run")
  BY <1>1, <1>2, LeftFacts DEF Good
<1>4. \A h \in Threads : w'.st[h] \in Live <=> w.st[h] \in Live
  BY <1>1, <1>2, <1>3 DEF Moved
<1>5. WakersServe(w') /\ TimersServe(w')
  BY <1>1, <1>3, <1>4, HelperIds DEF Good, WakersServe, TimersServe, Moved, SameObjects
<1>6. WakersRead(w') /\ OneReader(w') /\ \A d \in Chans : w'.ch[d].wakers # {} => Class(d).kind = "clock"
  BY <1>1, <1>3 DEF Good, WakersRead, OneReader, WakersClocked, Moved, SameObjects
<1>7. OneRuns(w', t)
  BY <1>1, <1>3, HelperIds DEF Good, OneRuns, Moved, Threads
<1>8. QED
  BY <1>1, <1>3, <1>5, <1>6, <1>7 DEF Good, WakersClocked

TimePassed(s, x, T) ==
  /\ SameObjects(s, x) /\ x.fault = s.fault
  /\ \A t \in Threads : x.st[t] = IF t \in T /\ s.st[t] = "delay" THEN "ready" ELSE s.st[t]
LEMMA AdvanceWorld ==
  ASSUME NEW S, Inv(S), Advance
  PROVE  Good(S, w', cur') /\ \E T : TimePassed(w, w', T)
<1> DEFINE T == {t \in Threads : w.due[t] = now'}
           st2 == [t \in Threads |-> IF t \in T /\ w.st[t] = "delay" THEN "ready" ELSE w.st[t]]
<1>1. cur' = cur /\ Good(S, w, cur) /\ w \in World(S)
  BY DEF Advance, Inv, Good
<1>2. w' = [w EXCEPT !.st = st2]
  BY DEF Advance, Delayed
<1>3. st2 \in [Threads -> Status]
  BY <1>1 DEF World, Status, Live
<1>4. \A t \in Threads : st2[t] = IF t \in T /\ w.st[t] = "delay" THEN "ready" ELSE w.st[t]
  OBVIOUS
<1> HIDE DEF st2, T
<1>5. w' \in World(S) /\ SameObjects(w, w') /\ w'.fault = w.fault /\ w'.st = st2
  BY <1>1, <1>2, <1>3 DEF World, SameObjects
<1>6. TimePassed(w, w', T)
  BY <1>4, <1>5 DEF TimePassed
<1>7. \A t \in Threads : (w'.st[t] \in Live <=> w.st[t] \in Live) /\ (w'.st[t] = "run" <=> w.st[t] = "run")
  BY <1>6 DEF TimePassed, Live
<1>8. WakersServe(w') /\ TimersServe(w')
  BY <1>1, <1>5, <1>7, HelperIds DEF Good, WakersServe, TimersServe, SameObjects
<1>9. WakersRead(w') /\ OneReader(w') /\ \A d \in Chans : w'.ch[d].wakers # {} => Class(d).kind = "clock"
  BY <1>1, <1>5 DEF Good, WakersRead, OneReader, WakersClocked, SameObjects
<1>10. OneRuns(w', cur)
  BY <1>1, <1>7 DEF Good, OneRuns
<1>11. QED
  BY <1>1, <1>5, <1>6, <1>8, <1>9, <1>10 DEF Good, WakersClocked

-----------------------------------------------------------------------------
(* The inductive invariant: for the set S of times met so far the          *)
(* variables are typed and the helpers serve those that wait.              *)

LEMMA InvInit == Init => \E S : Inv(S)
<1>1. SUFFICES ASSUME Init PROVE Inv({0})
  OBVIOUS
<1> DEFINE S == {0}
<1>2. 0 \in S
  OBVIOUS
<1> HIDE DEF S
<1>3. w \in World(S)
  <2>1. [t \in Threads |-> IF t \in Users THEN "ready" ELSE "none"] \in [Threads -> Status]
    BY DEF Status, Live
  <2>2. Fresh \in Channel(S)
    BY DEF Fresh, Channel, Value
  <2>3. "none" \in Faults
    BY DEF Faults
  <2>4. QED
    BY <1>1, <1>2, <2>1, <2>2, <2>3 DEF Init, World
<1>4. /\ w.st = [t \in Threads |-> IF t \in Users THEN "ready" ELSE "none"]
      /\ \A c \in Chans : w.ch[c].readers = {} /\ w.ch[c].wakers = {}
      /\ cur = NULL
  BY <1>1 DEF Init, Fresh
<1>5. Typed(S)
  <2>1. Rest \in Frame(S) /\ FrameFits(Rest)
    BY <1>2, RestFits
  <2>2. f \in [Users -> Frame(S)] /\ \A t \in Users : FrameFits(f[t])
    BY <1>1, <2>1 DEF Init
  <2>3. left \in [Users -> Nat] /\ got \in [Chans -> Seq(Value)]
    BY <1>1, ChannelsAssumption DEF Init
  <2>4. QED
    BY <1>1, <1>2, <1>3, <2>2, <2>3 DEF Init, Typed
<1>6. \A h \in Helpers : w.st[h] = "none"
  BY <1>4, HelperIds
<1>7. Good(S, w, cur)
  <2>1. WakersServe(w) /\ TimersServe(w)
    BY <1>4, <1>6, HelperIds DEF WakersServe, TimersServe, Live
  <2>2. WakersRead(w) /\ WakersClocked(w) /\ OneReader(w)
    BY <1>4 DEF WakersRead, WakersClocked, OneReader
  <2>3. OneRuns(w, cur)
    BY <1>4, HelperIds DEF OneRuns, Threads
  <2>4. QED
    BY <1>3, <2>1, <2>2, <2>3 DEF Good
<1>8. QED
  BY <1>5, <1>7 DEF Inv, S

LEMMA RunWorld ==
  ASSUME NEW S, Inv(S), NEW t \in Users, Run(t)
  PROVE  \E d : Good(S \cup {d}, w', cur')
<1>1. CASE DelayCall(t)
  BY <1>1, DelayCallWorld
<1>2. CASE ~DelayCall(t)
  <2>1. ASSUME \E o \in prog.menu[t] : Start(t, o) PROVE Good(S, w', cur')
    BY <2>1 DEF Start, Inv
  <2>2. Good(S, w', cur')
    BY <1>2, <2>1, EndWorld, SleepWorld, WriteNotifyWorld, ChanOpWorld, ReadReadyWorld, ClearWorld,
       ToGetWorld, ResGetWorld, AltWorld, ReflectWorld DEF Run
  <2>3. QED
    BY <2>2, GrowGood
<1>3. QED
  BY <1>1, <1>2

LEMMA RunRest ==
  ASSUME NEW S, Inv(S), NEW t \in Users, Run(t)
  PROVE  /\ prog' = prog /\ now' = now /\ cur' \in {cur, NULL}
         /\ left' \in [Users -> Nat] /\ got' \in [Chans -> Seq(Value)]
<1>1. Typed(S)
  BY DEF Inv
<1>2. CASE \E o \in prog.menu[t] : Start(t, o)
  BY <1>1, <1>2 DEF Start, Typed
<1>3. CASE ReadTake(t)
  <2>1. /\ prog' = prog /\ now' = now /\ cur' = cur /\ left' = left
        /\ f[t].ch \in Chans /\ w \in World(S) /\ got \in [Chans -> Seq(Value)]
    BY <1>1, <1>3 DEF ReadTake, At, Typed, FrameFits, ReadPcs
  <2>2. PICK c \in Chans : c = f[t].ch
    BY <2>1
  <2> DEFINE v == IF OneItem(Class(c)) THEN w.ch[c].data ELSE Head(w.ch[c].store).v
  <2>3. \/ got' = got
        \/ /\ got' = [got EXCEPT ![c] = Append(got[c], v)]
           /\ OneItem(Class(c)) \/ w.ch[c].store # <<>>
    <3>1. CASE IsEmpty(w.ch[c]) /\ ~OneItem(Class(c))
      BY <1>3, <2>2, <3>1 DEF ReadTake
    <3>2. CASE ~(IsEmpty(w.ch[c]) /\ ~OneItem(Class(c)))
      <4>1. got' = IF Consumes(t) THEN [got EXCEPT ![c] = Append(got[c], v)] ELSE got
        BY <1>3, <2>2, <3>2 DEF ReadTake
      <4>2. QED
        BY <3>2, <4>1 DEF IsEmpty
    <3>3. QED
      BY <3>1, <3>2
  <2>4. OneItem(Class(c)) \/ w.ch[c].store # <<>> => v \in Value
    BY <2>1, ItemValue
  <2> HIDE DEF v
  <2>5. got' \in [Chans -> Seq(Value)]
    BY <2>1, <2>3, <2>4
  <2>6. QED
    BY <1>1, <2>1, <2>5 DEF Typed
<1>4. CASE ~(\E o \in prog.menu[t] : Start(t, o)) /\ ~ReadTake(t)
  <2>1. Quiet /\ cur' \in {cur, NULL}
    BY <1>4 DEF Run, End, DelayCall, Sleep, WriteNotify, WriteFull, WriteStore, WriteHeld,
       ReadWriter, ReadReady, ReadWoken, ReadReturn, Clear, ToGet, ResGet, ResClear,
       AltLock, AltScan, AltRegister, AltClear, AltGet, AltUnlock, Reflect, Keeps, BlockIn
  <2>2. QED
    BY <1>1, <2>1 DEF Quiet, Typed
<1>5. QED
  BY <1>2, <1>3, <1>4

(* From the parts of the next state to the invariant.                      *)
LEMMA InvNext ==
  ASSUME NEW S, Inv(S), NEW R, S \subseteq R, Good(R, w', cur'), FramesOK(S, f'), prog' = prog,
         now' \in R, left' \in [Users -> Nat], got' \in [Chans -> Seq(Value)],
         cur' \in Threads \cup {NULL}
  PROVE  Inv(R)'
<1>1. 0 \in R /\ prog' \in Programs /\ w' \in World(R)
  BY DEF Inv, Typed, Good
<1>2. f' \in [Users -> Frame(R)] /\ \A t \in Users : FrameFits(f'[t])
  BY GrowItems DEF FramesOK
<1>3. Typed(R)'
  BY <1>1, <1>2 DEF Typed
<1>4. Good(R, w, cur)'
  BY DEF Good, WakersServe, WakersRead, WakersClocked, OneReader, TimersServe, OneRuns, Class
<1>5. QED
  BY <1>3, <1>4 DEF Inv

LEMMA InvStep ==
  ASSUME NEW S, Inv(S), [Next]_vars
  PROVE  \E R : Inv(R)'
<1>0. /\ Typed(S) /\ Good(S, w, cur) /\ FramesOK(S, f) /\ now \in S /\ prog \in Programs
      /\ left \in [Users -> Nat] /\ got \in [Chans -> Seq(Value)] /\ cur \in Threads \cup {NULL}
  BY DEF Inv, Typed, FramesOK
<1>1. ASSUME NEW t \in Users, Run(t) PROVE \E R : Inv(R)'
  <2>1. PICK d : Good(S \cup {d}, w', cur')
    BY <1>1, RunWorld
  <2> DEFINE R == S \cup {d}
  <2>2. S \subseteq R /\ Good(R, w', cur') /\ FramesOK(S, f') /\ now \in R
    BY <1>0, <1>1, <2>1, RunFrames
  <2> HIDE DEF R
  <2>3. /\ prog' = prog /\ now' = now /\ cur' \in Threads \cup {NULL}
        /\ left' \in [Users -> Nat] /\ got' \in [Chans -> Seq(Value)]
    BY <1>0, <1>1, RunRest
  <2>4. Inv(R)'
    BY <2>2, <2>3, InvNext
  <2>5. QED
    BY <2>4
<1>2. ASSUME NEW d, Good(S \cup {d}, w', cur'), Quiet, f' = f, cur' \in Threads \cup {NULL}
      PROVE  \E R : Inv(R)'
  <2> DEFINE R == S \cup {d}
  <2>1. S \subseteq R /\ Good(R, w', cur') /\ FramesOK(S, f') /\ now \in R
    BY <1>0, <1>2
  <2> HIDE DEF R
  <2>2. Inv(R)'
    BY <1>0, <1>2, <2>1, InvNext DEF Quiet
  <2>3. QED
    BY <2>2
<1>3. ASSUME NEW h \in Helpers, HelperDelay(h) PROVE \E R : Inv(R)'
  BY <1>2, <1>3, HelperDelayWorld DEF HelperDelay, BlockIn
<1>4. ASSUME NEW h \in Helpers, HelperFire(h) PROVE \E R : Inv(R)'
  <2>1. Good(S, w', cur')
    BY <1>4, TimerFireWorld, WakerFireWorld DEF Helpers
  <2>2. PICK d : Good(S \cup {d}, w', cur')
    BY <2>1, GrowGood
  <2>3. QED
    BY <1>2, <1>4, <2>2 DEF HelperFire, BlockIn
<1>5. ASSUME NEW t \in Threads, Dispatch(t) PROVE \E R : Inv(R)'
  <2>1. PICK d : Good(S \cup {d}, w', cur')
    BY <1>5, DispatchWorld, GrowGood
  <2>2. QED
    BY <1>2, <1>5, <2>1 DEF Dispatch
<1>6. CASE Advance
  <2>0. PICK d : d = now'
    OBVIOUS
  <2> DEFINE R == S \cup {d}
  <2>1. S \subseteq R /\ Good(R, w', cur') /\ FramesOK(S, f') /\ now' \in R
    <3>1. Good(S, w', cur')
      BY <1>6, AdvanceWorld
    <3>2. QED
      BY <1>0, <1>6, <2>0, <3>1, GrowGood DEF Advance
  <2> HIDE DEF R
  <2>2. Inv(R)'
    BY <1>0, <1>6, <2>1, InvNext DEF Advance
  <2>3. QED
    BY <2>2
<1>7. CASE UNCHANGED vars
  <2>1. Inv(S)'
    BY <1>7 DEF vars, Inv, Typed, Good, WakersServe, WakersRead, WakersClocked, OneReader,
                TimersServe, OneRuns, Class
  <2>2. QED
    BY <2>1
<1>8. QED
  BY <1>1, <1>3, <1>4, <1>5, <1>6, <1>7 DEF Next

Invariant == \E S : Inv(S)

LEMMA InvAccounts == Invariant => HelpersAccounted
<1>1. SUFFICES ASSUME NEW S, Good(S, w, cur) PROVE HelpersAccounted
  BY DEF Invariant, Inv
<1>2. QED
  BY <1>1 DEF Good, WakersServe, WakersRead, TimersServe, HelpersAccounted

(* The inductive invariant of the helper threads holds without preemption, *)
(* where a thread keeps the processor until it blocks (Run, Dispatch).     *)
THEOREM InvariantHolds == Spec => []Invariant
<1>1. Init => Invariant
  BY InvInit DEF Invariant
<1>2. Invariant /\ [Next]_vars => Invariant'
  BY InvStep DEF Invariant
<1>3. QED
  BY <1>1, <1>2, PTL DEF Spec

(* HelpersAccounted, without preemption: a waker or timer thread is under  *)
(* way exactly for the readers it is to wake, in every program, with any   *)
(* number of threads, channels of any class, timeouts and results.         *)
THEOREM HelpersServe == Spec => []HelpersAccounted
  BY InvariantHolds, InvAccounts, PTL

-----------------------------------------------------------------------------
(* What each step does to the world, beyond what the invariant above says. *)

Alike(s, x) == SameObjects(s, x) /\ x.st = s.st /\ x.fault = s.fault

Ended(s, x, t) ==
  LET T == ToSet(s.waiters[t])
  IN  /\ x.ch = s.ch /\ x.to = s.to /\ x.res = s.res
      /\ x.waiters = [s.waiters EXCEPT ![t] = <<>>]
      /\ \/ /\ \E u \in T : s.st[u] \notin {"sleep", "ready", "done"}
            /\ x.fault = "bad_wake"
         \/ /\ x.fault = s.fault
            /\ \A u \in Threads : x.st[u] = IF u = t THEN "done"
                                            ELSE IF u \in T /\ s.st[u] = "sleep" THEN "ready"
                                            ELSE s.st[u]
LEMMA EndFacts ==
  ASSUME NEW S, Inv(S), NEW t \in Users, End(t)
  PROVE  Ended(w, w', t)
<1>1. cur = t /\ cur' = NULL /\ Good(S, w, t) /\ w \in World(S)
  BY DEF End, At, BlockIn, Inv, Typed
<1> DEFINE T == ToSet(w.waiters[t])
           x == WakeAll(w, T)
           e == <<>>
           y == [x EXCEPT !.waiters[t] = e]
<1>2. T \in SUBSET Users
  BY <1>1 DEF World, ToSet
<1>3. w' = Left(y, t, "done") /\ e \in Seq(Users)
  BY DEF End, BlockIn, Left
<1> HIDE DEF T, e
<1>4. x \in World(S) /\ AllReadied(w, x, T)
  BY <1>1, <1>2, WakeAllFacts
<1> HIDE DEF x
<1>6. /\ y \in World(S) /\ y.st = x.st /\ y.ch = x.ch /\ y.to = x.to /\ y.res = x.res
      /\ y.fault = x.fault /\ y.waiters = [x.waiters EXCEPT ![t] = e]
  BY <1>3, <1>4, SetWaiters
<1> HIDE DEF y
<1>8. "done" \in Status /\ t \in Threads
  BY HelperIds DEF Status
<1>9. Moved(y, w', t, "done")
  BY <1>3, <1>6, <1>8, LeftFacts
<1>10. /\ w'.ch = w.ch /\ w'.to = w.to /\ w'.res = w.res
       /\ w'.waiters = [w.waiters EXCEPT ![t] = e]
  BY <1>4, <1>6, <1>9 DEF AllReadied, Moved, SameObjects
<1>11. \/ /\ \E u \in T : w.st[u] \notin {"sleep", "ready", "done"}
          /\ w'.fault = "bad_wake"
       \/ /\ w'.fault = w.fault
          /\ \A u \in Threads : w'.st[u] = IF u = t THEN "done"
                                          ELSE IF u \in T /\ w.st[u] = "sleep" THEN "ready"
                                          ELSE w.st[u]
  BY <1>4, <1>6, <1>9 DEF AllReadied, Moved
<1>12. QED
  BY <1>10, <1>11 DEF Ended, T, e

LEMMA DelayFacts ==
  ASSUME NEW S, NEW s \in World(S), NEW t \in Threads, NEW d
  PROVE  Moved(s, Left([s EXCEPT !.due[t] = d], t, "delay"), t, "delay")
<1> DEFINE R == S \cup {d}
           x == [s EXCEPT !.due[t] = d]
<1>1. s \in World(R) /\ d \in R
  BY GrowItems
<1> HIDE DEF R
<1>2. x \in World(R) /\ x.st = s.st /\ SameObjects(s, x) /\ x.fault = s.fault
  BY <1>1, SetDue
<1> HIDE DEF x
<1>3. "delay" \in Status
  BY DEF Status, Live
<1>4. PICK y : y = Left(x, t, "delay") /\ Moved(x, y, t, "delay")
  BY <1>2, <1>3, LeftFacts
<1>5. Moved(s, y, t, "delay")
  BY <1>2, <1>4 DEF Moved, SameObjects
<1>6. QED
  BY <1>4, <1>5 DEF x

LEMMA BlockFacts ==
  ASSUME NEW S, Inv(S), NEW t \in Users, DelayCall(t) \/ Sleep(t)
  PROVE  Moved(w, w', t, "delay") \/ Moved(w, w', t, "busy") \/ Moved(w, w', t, "sleep")
<1>1. w \in World(S) /\ t \in Threads /\ "busy" \in Status /\ "sleep" \in Status
  BY HelperIds DEF Inv, Typed, Status, Live
<1>2. CASE DelayCall(t)
  <2>1. w' = Left([w EXCEPT !.due[t] = now + f[t].op.d], t, "delay")
    BY <1>2 DEF DelayCall, BlockIn, Left
  <2>2. QED
    BY <1>1, <2>1, DelayFacts
<1>3. CASE Sleep(t)
  <2>1. w' = Left(w, t, "busy") \/ w' = Left(w, t, "sleep")
    BY <1>3 DEF Sleep, BlockIn, Left
  <2>2. QED
    BY <1>1, <2>1, LeftFacts
<1>4. QED
  BY <1>2, <1>3

(* Timeout::get() of a Timeout that is ready, and otherwise.               *)
ToGot(s, x, o) ==
  /\ x.ch = s.ch
  /\ s.to[o].ready = TRUE =>
       /\ x.st = s.st /\ x.res = s.res /\ x.waiters = s.waiters /\ x.fault = s.fault
       /\ SameTimers(s, x)
       /\ x.to[o].ready = FALSE /\ \A p \in Timeouts \ {o} : x.to[p].ready = s.to[p].ready
LEMMA ToGetFacts ==
  ASSUME NEW S, Inv(S), NEW t \in Users, ToGet(t)
  PROVE  f[t].ch \in Timeouts /\ ToGot(w, w', f[t].ch)
<1>1. cur = t /\ f[t].ch \in Timeouts /\ w \in World(S) /\ 0 \in S
  BY DEF ToGet, At, Inv, Typed, FrameFits
<1>2. PICK o \in Timeouts : o = f[t].ch
  BY <1>1
<1>3. PICK b \in BOOLEAN : b = FALSE
  OBVIOUS
<1> DEFINE x == IF w.to[o].ready THEN w ELSE ToSetNotify(w, o, t)
           y == Unlocked(x)
<1>4. w' = [y EXCEPT !.to[o].ready = b]
  BY <1>2, <1>3 DEF ToGet
<1>5. x \in World(S) /\ x.ch = w.ch /\ (w.to[o].ready = TRUE => x = w)
  <2>1. CASE w.to[o].ready
    BY <1>1, <2>1
  <2>2. CASE ~w.to[o].ready
    <3> DEFINE z == ToSetNotify(w, o, t)
    <3>1. z \in World(S) /\ (Refused(w, z, "assert_writet") \/ Timed(w, z, o, t))
      BY <1>1, ToSetNotifyFacts
    <3> HIDE DEF z
    <3>2. z \in World(S) /\ z.ch = w.ch
      BY <3>1 DEF Refused, Timed, SameObjects
    <3>3. QED
      BY <2>2, <3>2 DEF z
  <2>3. QED
    BY <2>1, <2>2
<1> HIDE DEF x
<1>6. y \in World(S) /\ Alike(x, y)
  BY <1>5, UnlockedFacts DEF Alike, SameObjects
<1> HIDE DEF y
<1>7. /\ w'.st = y.st /\ w'.ch = y.ch /\ w'.res = y.res
      /\ w'.waiters = y.waiters /\ w'.fault = y.fault /\ SameTimers(y, w')
      /\ w'.to[o].ready = b /\ \A p \in Timeouts \ {o} : w'.to[p].ready = y.to[p].ready
  BY <1>4, <1>6, SetReady
<1>8. ToGot(w, w', o)
  BY <1>3, <1>5, <1>6, <1>7 DEF ToGot, Alike, SameObjects, SameTimers
<1>9. QED
  BY <1>2, <1>8

(* ResChan::get() and read(), and ResChan::clear_ready().                  *)
SameAwaited(s, x) == \A p \in Results : x.res[p].rt = s.res[p].rt
ResultGot(s, x, r, t) ==
  /\ x.ch = s.ch /\ x.to = s.to /\ x.fault = s.fault /\ SameAwaited(s, x)
  /\ \/ x.st = s.st /\ x.waiters = s.waiters
     \/ /\ \A u \in Threads : x.st[u] = IF u = t THEN "sleep" ELSE s.st[u]
        /\ x.waiters = [s.waiters EXCEPT ![ResThread[r]] = Append(@, t)]
LEMMA ResGetFacts ==
  ASSUME NEW S, Inv(S), NEW t \in Users, ResGet(t) \/ ResClear(t)
  PROVE  /\ f[t].ch \in Results /\ ResultGot(w, w', f[t].ch, t)
         /\ ResClear(t) \/ cur' = cur => w'.st = w.st /\ w'.waiters = w.waiters
         /\ cur' # cur => /\ \A u \in Threads : w'.st[u] = IF u = t THEN "sleep" ELSE w.st[u]
                          /\ w'.waiters = [w.waiters EXCEPT ![ResThread[f[t].ch]] = Append(@, t)]
<1>1. /\ cur = t /\ f[t].ch \in Results /\ w \in World(S) /\ t \in Threads /\ t # NULL
      /\ ResClear(t) => cur' = cur
  BY HelperIds DEF ResGet, ResClear, At, Keeps, Inv, Typed, FrameFits, ResOps
<1>2. PICK r \in Results : r = f[t].ch
  BY <1>1
<1>3. ResThread[r] \in Users
  BY ChannelsAssumption
<1> DEFINE x == IF f[t].pc = "res_get" THEN [w EXCEPT !.res[r].read = TRUE] ELSE w
<1>4. ASSUME NEW b \in BOOLEAN, NEW z, z = [w EXCEPT !.res[r].read = b]
      PROVE  /\ z \in World(S) /\ z.st = w.st /\ z.ch = w.ch /\ z.to = w.to
             /\ z.waiters = w.waiters /\ z.fault = w.fault /\ SameAwaited(w, z)
  BY <1>1, <1>4, SetRead DEF SameAwaited
<1>5. /\ x \in World(S) /\ x.st = w.st /\ x.ch = w.ch /\ x.to = w.to
      /\ x.waiters = w.waiters /\ x.fault = w.fault /\ SameAwaited(w, x)
  <2>1. CASE f[t].pc = "res_get"
    BY <1>4, <2>1
  <2>2. CASE f[t].pc # "res_get"
    BY <1>1, <2>2 DEF SameAwaited
  <2>3. QED
    BY <2>1, <2>2
<1>6. CASE ResClear(t)
  <2>1. w' = [w EXCEPT !.res[r].read = FALSE]
    BY <1>2, <1>6 DEF ResClear
  <2>2. /\ w'.st = w.st /\ w'.ch = w.ch /\ w'.to = w.to
        /\ w'.waiters = w.waiters /\ w'.fault = w.fault /\ SameAwaited(w, w')
    BY <1>4, <2>1
  <2>3. QED
    BY <1>1, <1>2, <1>6, <2>2 DEF ResultGot
<1>7. CASE ResGet(t) /\ w.st[ResThread[r]] = "done"
  <2>1. w' = Unlocked(x) /\ cur' = cur
    BY <1>2, <1>7 DEF ResGet
  <2> HIDE DEF x
  <2>2. Alike(x, w')
    BY <1>5, <2>1, UnlockedFacts DEF Alike, SameObjects
  <2>3. QED
    BY <1>1, <1>2, <1>5, <2>1, <2>2 DEF ResultGot, Alike, SameObjects, SameAwaited
<1>8. CASE ResGet(t) /\ w.st[ResThread[r]] # "done"
  <2> DEFINE u == ResThread[r]
             q == Append(w.waiters[u], t)
             y == [x EXCEPT !.waiters[u] = q]
  <2>1. cur' = NULL /\ w' = Left([x EXCEPT !.waiters[u] = Append(@, t)], t, "sleep")
    BY <1>2, <1>8 DEF ResGet, BlockIn, Left
  <2> HIDE DEF x
  <2>2. w.waiters \in [Users -> Seq(Users)]
    BY <1>1 DEF World
  <2>3. q \in Seq(Users)
    <3>1. w.waiters[u] \in Seq(Users)
      BY <1>3, <2>2
    <3>2. QED
      BY <3>1
  <2>4. [x EXCEPT !.waiters[u] = Append(@, t)] = y
    BY <1>3, <1>5, <2>2 DEF World
  <2>5. [w.waiters EXCEPT ![u] = Append(@, t)] = [w.waiters EXCEPT ![u] = q]
    OBVIOUS
  <2> HIDE DEF q
  <2>6. /\ y \in World(S) /\ y.st = w.st /\ y.ch = w.ch /\ y.to = w.to /\ y.res = x.res
        /\ y.fault = w.fault /\ y.waiters = [w.waiters EXCEPT ![u] = q]
    BY <1>3, <1>5, <2>3, SetWaiters
  <2> HIDE DEF y
  <2>7. Moved(y, w', t, "sleep")
    <3>1. "sleep" \in Status
      BY DEF Status, Live
    <3>2. QED
      BY <1>1, <2>1, <2>4, <2>6, <3>1, LeftFacts
  <2>8. /\ w'.ch = w.ch /\ w'.to = w.to /\ w'.fault = w.fault /\ SameAwaited(w, w')
        /\ \A v \in Threads : w'.st[v] = IF v = t THEN "sleep" ELSE w.st[v]
        /\ w'.waiters = [w.waiters EXCEPT ![u] = Append(@, t)]
    BY <1>5, <2>5, <2>6, <2>7 DEF Moved, SameObjects, SameAwaited
  <2>9. QED
    BY <1>1, <1>2, <1>8, <2>1, <2>8 DEF ResultGot, ResClear, ResGet, At
<1>9. QED
  BY <1>6, <1>7, <1>8

(* One store replaced, and perhaps a writer let in.                        *)
StoreIs(s, x, c, q) ==
  /\ SameReaders(s, x) /\ SameOthers(s, x)
  /\ \A d \in Chans : /\ x.ch[d].store = IF d = c THEN q ELSE s.ch[d].store
                      /\ x.ch[d].data = s.ch[d].data
                      /\ x.ch[d].writers = s.ch[d].writers
  /\ x.st = s.st /\ x.fault = s.fault
StoreThenWriter(s, x, c, q) ==
  StoreIs(s, x, c, q) \/ \E y : StoreIs(s, y, c, q) /\ WriterLetIn(y, x, c)

LEMMA SetStore ==
  ASSUME NEW S, NEW s \in World(S), NEW c \in Chans, NEW y \in Channel(S),
         y.readers = s.ch[c].readers, y.wakers = s.ch[c].wakers, y.writers = s.ch[c].writers,
         y.data = s.ch[c].data
  PROVE  [s EXCEPT !.ch[c] = y] \in World(S) /\ StoreIs(s, [s EXCEPT !.ch[c] = y], c, y.store)
<1> DEFINE x == [s EXCEPT !.ch[c] = y]
<1>1. /\ x \in World(S) /\ x.st = s.st /\ x.fault = s.fault /\ SameOthers(s, x)
      /\ \A d \in Chans : x.ch[d] = IF d = c THEN y ELSE s.ch[d]
  BY SetCh DEF SameOthers
<1> HIDE DEF x
<1>2. StoreIs(s, x, c, y.store)
  BY <1>1 DEF StoreIs, SameReaders
<1>3. QED
  BY <1>1, <1>2 DEF x

LEMMA ClearChanFacts ==
  ASSUME NEW S, NEW s \in World(S), NEW c \in Chans,
         Class(c).kind \in {"chan", "busy", "queue", "clock"}
  PROVE  StoreThenWriter(s, ClearChan(s, c), c, <<>>)
<1>1. PICK k \in Channel(S) : k = s.ch[c]
  BY DEF World
<1>2. PICK z \in Channel(S) : z = ClearAll(k)
  BY <1>1, StoreUpdate
<1>3. z.readers = k.readers /\ z.wakers = k.wakers /\ z.writers = k.writers /\ z.data = k.data
      /\ z.store = <<>>
  BY <1>1, <1>2, StoreUpdate
<1> DEFINE x == [s EXCEPT !.ch[c] = z]
<1>4. /\ OneItem(Class(c)) => ClearChan(s, c) = Unlocked(x)
      /\ Class(c).kind = "queue" => ClearChan(s, c) = x
      /\ Class(c).kind = "clock" => ClearChan(s, c) = LetWriterIn(x, c)
  BY <1>1, <1>2 DEF ClearChan, OneItem, World
<1>5. x \in World(S) /\ StoreIs(s, x, c, z.store)
  BY <1>1, <1>2, <1>3, SetStore
<1> HIDE DEF x
<1>6. StoreIs(s, x, c, <<>>)
  BY <1>3, <1>5
<1>7. CASE OneItem(Class(c))
  <2>1. PICK y : y = Unlocked(x) /\ Alike(x, y)
    BY <1>5, UnlockedFacts DEF Alike, SameObjects
  <2>2. StoreIs(s, y, c, <<>>)
    BY <1>6, <2>1 DEF StoreIs, Alike, SameObjects, SameReaders, SameOthers
  <2>3. QED
    BY <1>4, <1>7, <2>1, <2>2 DEF StoreThenWriter
<1>8. CASE Class(c).kind = "clock"
  <2>1. WriterLetIn(x, LetWriterIn(x, c), c)
    BY <1>5, LetWriterInFacts
  <2>2. QED
    BY <1>4, <1>6, <1>8, <2>1 DEF StoreThenWriter
<1>9. QED
  BY <1>4, <1>6, <1>7, <1>8 DEF OneItem, StoreThenWriter

(* clear() and clear_ready() empty the store or take its first item.       *)
Cut(q) == IF q = <<>> THEN <<>> ELSE Tail(q)
LEMMA ClearReadyFacts ==
  ASSUME NEW S, NEW s \in World(S), NEW c \in Chans
  PROVE  StoreIs(s, [s EXCEPT !.ch[c] = ClearReady(@)], c, Cut(s.ch[c].store))
<1>1. PICK k \in Channel(S) : k = s.ch[c]
  BY DEF World
<1>2. PICK z \in Channel(S) : z = ClearReady(k)
  BY <1>1, StoreUpdate
<1>3. z.readers = k.readers /\ z.wakers = k.wakers /\ z.writers = k.writers /\ z.data = k.data
      /\ z.store = Cut(k.store)
  BY <1>1, <1>2, StoreUpdate DEF Cut
<1> DEFINE x == [s EXCEPT !.ch[c] = z]
<1>4. [s EXCEPT !.ch[c] = ClearReady(@)] = x
  BY <1>1, <1>2 DEF World
<1>5. StoreIs(s, x, c, z.store)
  BY <1>1, <1>2, <1>3, SetStore
<1> HIDE DEF x
<1>6. QED
  BY <1>1, <1>3, <1>4, <1>5

ClearedTo(s, x, c) == StoreThenWriter(s, x, c, <<>>) \/ StoreIs(s, x, c, Cut(s.ch[c].store))
LEMMA ClearFacts ==
  ASSUME NEW S, Inv(S), NEW t \in Users, Clear(t)
  PROVE  f[t].ch \in Chans /\ ClearedTo(w, w', f[t].ch)
<1>1. cur = t /\ f[t].ch \in Chans /\ w \in World(S)
  BY DEF Clear, At, Inv, Typed, FrameFits
<1>2. PICK c \in Chans : c = f[t].ch
  BY <1>1
<1>3. CASE w' = ClearChan(w, c)
  <2>1. StoreThenWriter(w, w', c, <<>>)
    BY <1>1, <1>2, <1>3, ClassOK, ClearChanFacts DEF Inv
  <2>2. QED
    BY <1>2, <2>1 DEF ClearedTo
<1>4. CASE w' = [w EXCEPT !.ch[c] = ClearReady(@)]
  BY <1>1, <1>2, <1>4, ClearReadyFacts DEF ClearedTo
<1>5. QED
  BY <1>2, <1>3, <1>4 DEF Clear

LEMMA ReflectFacts ==
  ASSUME NEW S, Inv(S), NEW t \in Users, Reflect(t)
  PROVE  \/ w' = w
         \/ ~AtEnd(t) /\ f[t].op.bind /\ Sink(t) \in Chans /\ ClearedTo(w, w', Sink(t))
<1>1. Typed(S) /\ w \in World(S)
  BY DEF Inv, Typed
<1>2. CASE w' # w
  <2>1. w' = ClearChan(w, Sink(t)) /\ ~(f[t].pc = "reflect" \/ AtEnd(t)) /\ f[t].op.bind
    BY <1>2 DEF Reflect
  <2>2. PICK c \in Chans : c = Sink(t)
    BY <1>1, <2>1, ReflectFrames
  <2>3. StoreThenWriter(w, w', c, <<>>)
    BY <1>1, <2>1, <2>2, ClassOK, ClearChanFacts
  <2>4. QED
    BY <2>1, <2>2, <2>3 DEF ClearedTo
<1>3. QED
  BY <1>2

(* write() at its store, read() and get() at theirs.                       *)
Wrote(s, x, c, v, time) ==
  LET i == [v |-> v, at |-> time]
      one == OneItem(Class(c))
  IN  /\ SameReaders(s, x) /\ SameOthers(s, x) /\ SameWriters(s, x) /\ x.st = s.st
      /\ \A d \in Chans : d # c => x.ch[d].store = s.ch[d].store /\ x.ch[d].data = s.ch[d].data
      /\ x.ch[c].store = IF one THEN <<i>> ELSE Append(s.ch[c].store, i)
      /\ x.ch[c].data = IF one THEN v ELSE s.ch[c].data
      /\ x.fault = IF SizeOK(Class(c), x.ch[c]) THEN s.fault ELSE "assert_size"
LEMMA WriteStoreFacts ==
  ASSUME NEW S, Inv(S), NEW t \in Users, WriteStore(t)
  PROVE  /\ f[t].ch \in Chans /\ Wrote(w, w', f[t].ch, f[t].val, now)
         /\ [v |-> f[t].val, at |-> now] \in Item(S)
<1>1. f[t].ch \in Chans /\ now \in S /\ w \in World(S) /\ f[t].val \in Value
  BY DEF WriteStore, At, Inv, Typed, FrameFits, WritePcs, Frame
<1>2. PICK c \in Chans : c = f[t].ch
  BY <1>1
<1>3. PICK k \in Channel(S) : k = w.ch[c]
  BY <1>1, <1>2 DEF World
<1>4. PICK v \in Value : v = f[t].val
  BY <1>1
<1>5. PICK y \in Channel(S) : y = Stored(Class(c), k, v, now) /\ StoredIs(Class(c), k, y, v, now)
  BY <1>1, <1>3, StoredUpdate
<1> DEFINE x == [w EXCEPT !.ch[c] = y]
<1>6. w' = IF SizeOK(Class(c), x.ch[c]) THEN x ELSE Fail(x, "assert_size")
  BY <1>1, <1>2, <1>3, <1>4, <1>5 DEF WriteStore, World
<1>7. /\ x \in World(S) /\ x.st = w.st /\ x.fault = w.fault /\ SameOthers(w, x)
      /\ \A d \in Chans : x.ch[d] = IF d = c THEN y ELSE w.ch[d]
  BY <1>1, <1>2, <1>5, SetCh DEF SameOthers
<1> HIDE DEF x
<1>8. /\ w'.st = x.st /\ w'.ch = x.ch /\ SameOthers(w, w')
      /\ w'.fault = IF SizeOK(Class(c), x.ch[c]) THEN w.fault ELSE "assert_size"
  <2>1. "assert_size" \in Faults
    BY DEF Faults
  <2>2. CASE SizeOK(Class(c), x.ch[c])
    BY <1>6, <1>7, <2>2
  <2>3. CASE ~SizeOK(Class(c), x.ch[c])
    BY <1>6, <1>7, <2>1, <2>3, FailFacts DEF SameOthers
  <2>4. QED
    BY <2>2, <2>3
<1>9. Wrote(w, w', c, v, now)
  <2>1. SameReaders(w, w') /\ SameWriters(w, w')
    <3>1. y.readers = k.readers /\ y.wakers = k.wakers /\ y.writers = k.writers
      BY <1>5 DEF StoredIs
    <3>2. \A d \in Chans : w'.ch[d] = IF d = c THEN y ELSE w.ch[d]
      BY <1>7, <1>8
    <3>3. QED
      BY <1>3, <3>1, <3>2 DEF SameReaders, SameWriters
  <2>2. /\ \A d \in Chans : d # c => w'.ch[d].store = w.ch[d].store /\ w'.ch[d].data = w.ch[d].data
        /\ w'.st = w.st /\ w'.ch[c] = y
    BY <1>2, <1>7, <1>8
  <2>3. /\ y.store = IF OneItem(Class(c)) THEN <<[v |-> v, at |-> now]>>
                     ELSE Append(w.ch[c].store, [v |-> v, at |-> now])
        /\ y.data = IF OneItem(Class(c)) THEN v ELSE w.ch[c].data
    BY <1>3, <1>5 DEF StoredIs
  <2>4. QED
    BY <1>2, <1>8, <2>1, <2>2, <2>3 DEF Wrote
<1>10. [v |-> v, at |-> now] \in Item(S)
  BY <1>1, <1>4 DEF Item
<1>11. QED
  BY <1>2, <1>4, <1>9, <1>10

Took(s, x, c, g, h) ==
  LET v == IF OneItem(Class(c)) THEN s.ch[c].data ELSE Head(s.ch[c].store).v
  IN  /\ OneItem(Class(c)) \/ s.ch[c].store # <<>>
      /\ StoreIs(s, x, c, Cut(s.ch[c].store))
      /\ h = [g EXCEPT ![c] = Append(g[c], v)]
LEMMA ReadTakeFacts ==
  ASSUME NEW S, Inv(S), NEW t \in Users, ReadTake(t)
  PROVE  /\ f[t].ch \in Chans
         /\ \/ /\ Refused(w, w', "empty_read") /\ got' = got /\ w.ch[f[t].ch].store = <<>>
               /\ ~OneItem(Class(f[t].ch))
            \/ w' = w /\ got' = got
            \/ Consumes(t) /\ Took(w, w', f[t].ch, got, got')
<1>1. f[t].ch \in Chans /\ w \in World(S)
  BY DEF ReadTake, At, Inv, Typed, FrameFits, ReadPcs
<1>2. PICK c \in Chans : c = f[t].ch
  BY <1>1
<1>3. CASE IsEmpty(w.ch[c]) /\ ~OneItem(Class(c))
  <2>1. w' = Fail(w, "empty_read") /\ got' = got /\ "empty_read" \in Faults
    BY <1>2, <1>3 DEF ReadTake, Faults
  <2>2. Refused(w, w', "empty_read")
    BY <1>1, <2>1, FailFacts DEF Refused, SameObjects
  <2>3. QED
    BY <1>2, <1>3, <2>1, <2>2 DEF IsEmpty
<1>4. CASE ~(IsEmpty(w.ch[c]) /\ ~OneItem(Class(c))) /\ ~Consumes(t)
  BY <1>2, <1>4 DEF ReadTake
<1>5. CASE ~(IsEmpty(w.ch[c]) /\ ~OneItem(Class(c))) /\ Consumes(t)
  <2> DEFINE v == IF OneItem(Class(c)) THEN w.ch[c].data ELSE Head(w.ch[c].store).v
  <2>1. w' = [w EXCEPT !.ch[c] = ClearReady(@)] /\ got' = [got EXCEPT ![c] = Append(got[c], v)]
    BY <1>2, <1>5 DEF ReadTake
  <2> HIDE DEF v
  <2>2. StoreIs(w, w', c, Cut(w.ch[c].store))
    BY <1>1, <2>1, ClearReadyFacts
  <2>3. Took(w, w', c, got, got')
    BY <1>5, <2>1, <2>2 DEF Took, IsEmpty, v
  <2>4. QED
    BY <1>2, <1>5, <2>3
<1>6. QED
  BY <1>3, <1>4, <1>5

(* The steps of write(), read() and the alt block that touch no item.      *)
WritersIs(s, x, c, q) ==
  /\ SameItems(s, x) /\ SameReaders(s, x) /\ SameOthers(s, x)
  /\ \A d \in Chans : x.ch[d].writers = IF d = c THEN q ELSE s.ch[d].writers
  /\ x.st = s.st /\ x.fault = s.fault
LEMMA SetWriters ==
  ASSUME NEW S, NEW s \in World(S), NEW c \in Chans, NEW y \in Channel(S),
         y.readers = s.ch[c].readers, y.wakers = s.ch[c].wakers, y.store = s.ch[c].store,
         y.data = s.ch[c].data
  PROVE  WritersIs(s, [s EXCEPT !.ch[c] = y], c, y.writers)
<1> DEFINE x == [s EXCEPT !.ch[c] = y]
<1>1. /\ x \in World(S) /\ x.st = s.st /\ x.fault = s.fault /\ SameOthers(s, x)
      /\ \A d \in Chans : x.ch[d] = IF d = c THEN y ELSE s.ch[d]
  BY SetCh DEF SameOthers
<1> HIDE DEF x
<1>2. WritersIs(s, x, c, y.writers)
  BY <1>1 DEF WritersIs, SameReaders, SameItems
<1>3. QED
  BY <1>2 DEF x

LEMMA WriteFullFacts ==
  ASSUME NEW S, Inv(S), NEW t \in Users, WriteFull(t)
  PROVE  /\ f[t].ch \in Chans
         /\ IF Full(Class(f[t].ch), w.ch[f[t].ch])
            THEN /\ WritersIs(w, w', f[t].ch, Append(w.ch[f[t].ch].writers, t))
                 /\ Goto(t, "w_sleep")
            ELSE w' = w /\ Goto(t, "w_store")
<1>1. f[t].ch \in Chans /\ w \in World(S)
  BY DEF WriteFull, At, Inv, Typed, FrameFits, WritePcs
<1>2. PICK c \in Chans : c = f[t].ch
  BY <1>1
<1>3. PICK k \in Channel(S) : k = w.ch[c]
  BY <1>1, <1>2 DEF World
<1>4. CASE Full(Class(c), w.ch[c])
  <2>1. PICK y \in Channel(S) : y = SetWriteNotify(k, t)
    BY <1>3, WritersUpdate
  <2>2. w' = [w EXCEPT !.ch[c] = y] /\ Goto(t, "w_sleep")
    BY <1>1, <1>2, <1>3, <1>4, <2>1 DEF WriteFull, World
  <2>3. /\ y.readers = k.readers /\ y.wakers = k.wakers /\ y.store = k.store /\ y.data = k.data
        /\ y.writers = Append(k.writers, t)
    BY <1>3, <2>1, WritersUpdate
  <2>4. WritersIs(w, w', c, y.writers)
    BY <1>1, <1>2, <1>3, <2>1, <2>2, <2>3, SetWriters
  <2>5. QED
    BY <1>2, <1>3, <1>4, <2>2, <2>3, <2>4
<1>5. CASE ~Full(Class(c), w.ch[c])
  BY <1>2, <1>5 DEF WriteFull
<1>6. QED
  BY <1>4, <1>5

LEMMA WriteHeldFacts ==
  ASSUME NEW S, Inv(S), NEW t \in Users, WriteHeld(t)
  PROVE  /\ f[t].ch \in Chans
         /\ \/ /\ WritersIs(w, w', f[t].ch, <<t>> \o w.ch[f[t].ch].writers)
               /\ Goto(t, "held_sleep")
            \/ WriterLetIn(w, w', f[t].ch) /\ Goto(t, f[t].ret)
<1>1. f[t].ch \in Chans /\ w \in World(S)
  BY DEF WriteHeld, At, Inv, Typed, FrameFits, WritePcs
<1>2. PICK c \in Chans : c = f[t].ch
  BY <1>1
<1>3. PICK k \in Channel(S) : k = w.ch[c]
  BY <1>1, <1>2 DEF World
<1>4. CASE ~IsEmpty(w.ch[c])
  <2>1. PICK y \in Channel(S) : y = PushWriter(k, t)
    BY <1>3, WritersUpdate
  <2>2. w' = [w EXCEPT !.ch[c] = y] /\ Goto(t, "held_sleep")
    BY <1>1, <1>2, <1>3, <1>4, <2>1 DEF WriteHeld, World
  <2>3. /\ y.readers = k.readers /\ y.wakers = k.wakers /\ y.store = k.store /\ y.data = k.data
        /\ y.writers = <<t>> \o k.writers
    BY <1>3, <2>1, WritersUpdate
  <2>4. WritersIs(w, w', c, y.writers)
    BY <1>1, <1>2, <1>3, <2>1, <2>2, <2>3, SetWriters
  <2>5. QED
    BY <1>2, <1>3, <2>2, <2>3, <2>4
<1>5. CASE IsEmpty(w.ch[c])
  <2>1. w' = LetWriterIn(w, c) /\ Goto(t, f[t].ret)
    BY <1>2, <1>5 DEF WriteHeld
  <2>2. QED
    BY <1>1, <1>2, <2>1, LetWriterInFacts
<1>6. QED
  BY <1>4, <1>5

LEMMA ReadWriterFacts ==
  ASSUME NEW S, Inv(S), NEW t \in Users, ReadWriter(t) \/ ReadReturn(t)
  PROVE  f[t].ch \in Chans /\ (w' = w \/ WriterLetIn(w, w', f[t].ch))
<1>1. f[t].ch \in Chans /\ w \in World(S)
  BY DEF ReadWriter, ReadReturn, At, Inv, Typed, FrameFits, ReadPcs
<1>2. PICK c \in Chans : c = f[t].ch
  BY <1>1
<1>3. w' = w \/ w' = LetWriterIn(w, c)
  BY <1>2 DEF ReadWriter, ReadReturn
<1>4. QED
  BY <1>1, <1>2, <1>3, LetWriterInFacts

LEMMA WriteNotifyFacts ==
  ASSUME NEW S, Inv(S), NEW t \in Users, WriteNotify(t)
  PROVE  /\ f[t].ch \in Chans
         /\ \/ w' = w /\ w.ch[f[t].ch].readers = {}
            \/ \E r \in w.ch[f[t].ch].readers : r \in Users /\ Notified(w, w', f[t].ch, r)
<1>1. f[t].ch \in Chans /\ w \in World(S) /\ 0 \in S
  BY DEF WriteNotify, At, Inv, Typed, FrameFits, WritePcs
<1>2. PICK c \in Chans : c = f[t].ch
  BY <1>1
<1>3. CASE HaveReader(w.ch[c])
  <2>1. PICK r \in w.ch[c].readers : w' = NotifyReader(w, c, r)
    BY <1>2, <1>3 DEF WriteNotify
  <2>2. r \in Users
    BY <1>1, <2>1 DEF World, Channel
  <2>3. Notified(w, w', c, r)
    BY <1>1, <2>1, <2>2, NotifyReaderFacts
  <2>4. QED
    BY <1>2, <2>1, <2>2, <2>3
<1>4. CASE ~HaveReader(w.ch[c])
  BY <1>2, <1>4 DEF WriteNotify, HaveReader
<1>5. QED
  BY <1>3, <1>4

LEMMA ReadReadyFacts ==
  ASSUME NEW S, Inv(S), NEW t \in Users, ReadReady(t)
  PROVE  /\ f[t].ch \in Chans
         /\ IF Ready(Class(f[t].ch), w.ch[f[t].ch], now) THEN w' = w /\ Goto(t, "r_take")
            ELSE /\ Goto(t, "r_sleep")
                 /\ \/ /\ Refused(w, w', "assert_readt") /\ Class(f[t].ch).multi = FALSE
                       /\ w.ch[f[t].ch].readers # {}
                    \/ Registered(w, w', f[t].ch, t)
<1>1. f[t].ch \in Chans /\ w \in World(S) /\ 0 \in S
  BY DEF ReadReady, At, Inv, Typed, FrameFits, ReadPcs
<1>2. PICK c \in Chans : c = f[t].ch
  BY <1>1
<1>3. CASE Ready(Class(c), w.ch[c], now)
  BY <1>2, <1>3 DEF ReadReady
<1>4. CASE ~Ready(Class(c), w.ch[c], now)
  <2>1. w' = ChanSetNotify(w, c, t) /\ Goto(t, "r_sleep") /\ Class(c).multi \in BOOLEAN
    BY <1>2, <1>4, ClassOK DEF ReadReady, Inv
  <2>2. \/ Refused(w, w', "assert_readt") /\ Class(c).multi = FALSE /\ w.ch[c].readers # {}
        \/ Registered(w, w', c, t)
    BY <1>1, <1>2, <2>1, ChanSetNotifyFacts
  <2>3. QED
    BY <1>2, <1>4, <2>1, <2>2
<1>5. QED
  BY <1>3, <1>4

LEMMA ReadWokenFacts ==
  ASSUME NEW S, Inv(S), NEW t \in Users, ReadWoken(t)
  PROVE  /\ f[t].ch \in Chans
         /\ LET k == Class(f[t].ch)
            IN  /\ IF k.kind = "chan" \/ (k.kind = "clock" /\ k.multi)
                   THEN Forgotten(w, w', f[t].ch, t) ELSE w' = w
                /\ Goto(t, IF k.kind \in {"chan", "clock"} THEN "r_ready" ELSE "r_take")
<1>1. f[t].ch \in Chans /\ w \in World(S) /\ WakersRead(w) /\ OneReader(w)
  BY DEF ReadWoken, At, Inv, Typed, FrameFits, ReadPcs, Good
<1>2. PICK c \in Chans : c = f[t].ch
  BY <1>1
<1>3. CASE Class(c).kind = "chan" \/ (Class(c).kind = "clock" /\ Class(c).multi)
  <2>1. w' = ChanClearNotify(w, c, t) /\ Class(c).multi \in BOOLEAN
    BY <1>2, <1>3, ClassOK DEF ReadWoken, Inv
  <2>2. Forgotten(w, w', c, t)
    BY <1>1, <1>2, <2>1, ChanClearNotifyFacts
  <2>3. QED
    BY <1>2, <1>3, <2>2 DEF ReadWoken
<1>4. CASE ~(Class(c).kind = "chan" \/ (Class(c).kind = "clock" /\ Class(c).multi))
  BY <1>2, <1>4 DEF ReadWoken
<1>5. QED
  BY <1>3, <1>4

(* set_notify() and clear_notify() of a port p, by t.                      *)
SetNotified(s, x, p, t) ==
  \/ /\ p \in Chans
     /\ \/ Refused(s, x, "assert_readt") /\ Class(p).multi = FALSE /\ s.ch[p].readers # {}
        \/ Registered(s, x, p, t)
  \/ /\ p \in Timeouts
     /\ (Refused(s, x, "assert_writet") /\ s.to[p].writet = TRUE) \/ Timed(s, x, p, t)
  \/ /\ p \in Results
     /\ (Refused(s, x, "assert_rt") /\ s.res[p].rt # NULL) \/ ResultAwaited(s, x, p, t)
ClearNotified(s, x, p, t) ==
  \/ p \in Chans /\ Forgotten(s, x, p, t)
  \/ p \in Timeouts /\ Untimed(s, x, p)
  \/ p \in Results /\ ResultLeft(s, x, p)

LEMMA SetNotifyFacts ==
  ASSUME NEW S, Inv(S), NEW p \in Ports, NEW t \in Users
  PROVE  SetNotified(w, SetNotify(w, p, t), p, t)
<1>0. w \in World(S) /\ 0 \in S /\ Typed(S)
  BY DEF Inv, Typed
<1>1. CASE p \in Chans
  <2> DEFINE x == ChanSetNotify(w, p, t)
  <2>1. SetNotify(w, p, t) = x /\ Class(p).multi \in BOOLEAN
    BY <1>0, <1>1, ClassOK, DistinctObjects DEF SetNotify
  <2>2. \/ Refused(w, x, "assert_readt") /\ Class(p).multi = FALSE /\ w.ch[p].readers # {}
        \/ Registered(w, x, p, t)
    BY <1>0, <1>1, <2>1, ChanSetNotifyFacts
  <2> HIDE DEF x
  <2>3. QED
    BY <1>1, <2>1, <2>2 DEF SetNotified
<1>2. CASE p \in Timeouts
  <2> DEFINE x == ToSetNotify(w, p, t)
  <2>0. p \notin Chans /\ p \notin Results
    BY <1>2, DistinctObjects
  <2>1. SetNotify(w, p, t) = x
    BY <1>2, <2>0 DEF SetNotify
  <2>2. (Refused(w, x, "assert_writet") /\ w.to[p].writet = TRUE) \/ Timed(w, x, p, t)
    BY <1>0, <1>2, ToSetNotifyFacts
  <2> HIDE DEF x
  <2>3. QED
    BY <1>2, <2>1, <2>2 DEF SetNotified
<1>3. CASE p \in Results
  <2> DEFINE x == ResSetNotify(w, p, t)
  <2>0. p \notin Chans /\ p \notin Timeouts
    BY <1>3, DistinctObjects
  <2>1. SetNotify(w, p, t) = x
    BY <1>3, <2>0 DEF SetNotify
  <2>2. (Refused(w, x, "assert_rt") /\ w.res[p].rt # NULL) \/ ResultAwaited(w, x, p, t)
    BY <1>0, <1>3, ResSetNotifyFacts
  <2> HIDE DEF x
  <2>3. QED
    BY <1>3, <2>1, <2>2 DEF SetNotified
<1>4. QED
  BY <1>1, <1>2, <1>3 DEF Ports

LEMMA ClearNotifyFacts ==
  ASSUME NEW S, Inv(S), NEW p \in Ports, NEW t \in Users
  PROVE  ClearNotified(w, ClearNotify(w, p, t), p, t)
<1>0. w \in World(S) /\ Typed(S) /\ WakersRead(w) /\ OneReader(w)
  BY DEF Inv, Typed, Good
<1>1. CASE p \in Chans
  <2> DEFINE x == ChanClearNotify(w, p, t)
  <2>1. ClearNotify(w, p, t) = x /\ Class(p).multi \in BOOLEAN
    BY <1>0, <1>1, ClassOK, DistinctObjects DEF ClearNotify
  <2>2. Forgotten(w, x, p, t)
    BY <1>0, <1>1, <2>1, ChanClearNotifyFacts
  <2> HIDE DEF x
  <2>3. QED
    BY <1>1, <2>1, <2>2 DEF ClearNotified
<1>2. CASE p \in Timeouts
  <2> DEFINE x == ToClearNotify(w, p)
  <2>0. p \notin Chans /\ p \notin Results
    BY <1>2, DistinctObjects
  <2>1. ClearNotify(w, p, t) = x
    BY <1>2, <2>0 DEF ClearNotify
  <2>2. Untimed(w, x, p)
    BY <1>0, <1>2, ToClearNotifyFacts
  <2> HIDE DEF x
  <2>3. QED
    BY <1>2, <2>1, <2>2 DEF ClearNotified
<1>3. CASE p \in Results
  <2> DEFINE x == ResClearNotify(w, p)
  <2>0. p \notin Chans /\ p \notin Timeouts
    BY <1>3, DistinctObjects
  <2>1. ClearNotify(w, p, t) = x
    BY <1>3, <2>0 DEF ClearNotify
  <2>2. ResultLeft(w, x, p)
    BY <1>0, <1>3, ResClearNotifyFacts
  <2> HIDE DEF x
  <2>3. QED
    BY <1>3, <2>1, <2>2 DEF ClearNotified
<1>4. QED
  BY <1>1, <1>2, <1>3 DEF Ports

LEMMA AltFacts ==
  ASSUME NEW S, Inv(S), NEW t \in Users,
         AltLock(t) \/ AltScan(t) \/ AltRegister(t) \/ AltClear(t) \/ AltGet(t) \/ AltUnlock(t)
  PROVE  \/ Alike(w, w')
         \/ /\ AltRegister(t) /\ ~AtEnd(t) /\ Port(t) \in PortsOf(t) /\ NextPort(t)
            /\ SetNotified(w, w', Port(t), t)
         \/ /\ AltClear(t) /\ ~AtEnd(t) /\ Port(t) \in PortsOf(t) /\ NextPort(t)
            /\ ClearNotified(w, w', Port(t), t)
<1>1. Typed(S) /\ w \in World(S)
  BY DEF Inv, Typed
<1>2. CASE w' = w
  BY <1>2 DEF Alike, SameObjects
<1>3. CASE AltLock(t)
  <2>1. w' = [w EXCEPT !.locked = TRUE]
    BY <1>3 DEF AltLock
  <2>2. QED
    BY <1>1, <2>1, SetLocked DEF Alike
<1>4. CASE AltRegister(t) /\ ~AtEnd(t)
  <2>1. Port(t) \in Ports /\ Port(t) \in PortsOf(t) /\ w' = SetNotify(w, Port(t), t) /\ NextPort(t)
    BY <1>1, <1>4, PortKind DEF AltRegister, At
  <2>2. SetNotified(w, w', Port(t), t)
    BY <2>1, SetNotifyFacts
  <2>3. QED
    BY <1>4, <2>1, <2>2
<1>5. CASE AltClear(t) /\ ~AtEnd(t)
  <2>1. Port(t) \in Ports /\ Port(t) \in PortsOf(t) /\ w' = ClearNotify(w, Port(t), t) /\ NextPort(t)
    BY <1>1, <1>5, PortKind DEF AltClear, At
  <2>2. ClearNotified(w, w', Port(t), t)
    BY <2>1, ClearNotifyFacts
  <2>3. QED
    BY <1>5, <2>1, <2>2
<1>6. CASE w' = Unlocked(w)
  BY <1>1, <1>6, UnlockedFacts DEF Alike, SameObjects
<1>7. QED
  BY <1>2, <1>3, <1>4, <1>5, <1>6 DEF AltScan, AltRegister, AltClear, AltGet, AltUnlock

-----------------------------------------------------------------------------
(* Where a step leads the thread that makes it.                            *)
NewFrame(t, p, c, o, i, r) ==
  /\ \A u \in Users \ {t} : f'[u] = f[u]
  /\ f'[t].pc = p /\ f'[t].ch = c /\ f'[t].op = o /\ f'[t].idx = i /\ f'[t].ret = r
Went(t, p) == IF p = "idle" THEN NewFrame(t, "idle", NULL, NoOp, 0, "idle")
              ELSE NewFrame(t, p, f[t].ch, f[t].op, f[t].idx, f[t].ret)

LEMMA FrameSet ==
  ASSUME NEW S, FramesOK(S, f), NEW t \in Users, NEW y, f' = [f EXCEPT ![t] = y]
  PROVE  NewFrame(t, y.pc, y.ch, y.op, y.idx, y.ret)
  BY DEF FramesOK, NewFrame

LEMMA GotoFacts ==
  ASSUME NEW S, FramesOK(S, f), NEW t \in Users, NEW p, Goto(t, p)
  PROVE  Went(t, p)
<1>1. PICK k \in Frame(S) : k = f[t]
  BY DEF FramesOK
<1>2. CASE p = "idle"
  <2>1. f' = [f EXCEPT ![t] = Rest]
    BY <1>2 DEF Goto
  <2>2. NewFrame(t, Rest.pc, Rest.ch, Rest.op, Rest.idx, Rest.ret)
    BY <2>1, FrameSet
  <2>3. QED
    BY <1>2, <2>2 DEF Went, Rest
<1>3. CASE p # "idle"
  <2> DEFINE y == [k EXCEPT !.pc = p]
  <2>1. f' = [f EXCEPT ![t] = y]
    BY <1>1, <1>3 DEF Goto, FramesOK
  <2>2. y.pc = p /\ y.ch = k.ch /\ y.op = k.op /\ y.idx = k.idx /\ y.ret = k.ret
    BY <1>1 DEF Frame
  <2> HIDE DEF y
  <2>3. NewFrame(t, y.pc, y.ch, y.op, y.idx, y.ret)
    BY <2>1, FrameSet
  <2>4. QED
    BY <1>1, <1>3, <2>2, <2>3 DEF Went
<1>4. QED
  BY <1>2, <1>3

LEMMA StartFacts ==
  ASSUME NEW S, Inv(S), NEW t \in Users, NEW o \in prog.menu[t], Start(t, o)
  PROVE  NewFrame(t, Entry(o), o.ch, o, 1, "idle") /\ w' = w
<1> DEFINE v == IF o.op = "write" THEN <<t, left[t]>> ELSE NULL
           n == IF o.ports # <<>> THEN now ELSE 0
           y == [Rest EXCEPT !.pc = Entry(o), !.op = o, !.ch = o.ch, !.idx = 1, !.val = v, !.since = n]
<1>1. f' = [f EXCEPT ![t] = y] /\ w' = w
  BY DEF Start
<1> HIDE DEF v, n
<1>2. y.pc = Entry(o) /\ y.ch = o.ch /\ y.op = o /\ y.idx = 1 /\ y.ret = "idle"
  BY DEF Rest
<1> HIDE DEF y
<1>3. FramesOK(S, f)
  BY DEF Inv, Typed, FramesOK
<1>4. QED
  BY <1>1, <1>2, <1>3, FrameSet

LEMMA JumpFacts ==
  ASSUME NEW S, FramesOK(S, f), NEW t \in Users, NEW p, NEW i,
         f' = [f EXCEPT ![t].pc = p, ![t].idx = i]
  PROVE  NewFrame(t, p, f[t].ch, f[t].op, i, f[t].ret)
<1>1. PICK k \in Frame(S) : k = f[t]
  BY DEF FramesOK
<1> DEFINE y == [k EXCEPT !.pc = p, !.idx = i]
<1>2. f' = [f EXCEPT ![t] = y]
  BY <1>1 DEF FramesOK
<1>3. y.pc = p /\ y.ch = k.ch /\ y.op = k.op /\ y.idx = i /\ y.ret = k.ret
  BY <1>1 DEF Frame
<1> HIDE DEF y
<1>4. QED
  BY <1>1, <1>2, <1>3, FrameSet

LEMMA NextPortFacts ==
  ASSUME NEW S, FramesOK(S, f), NEW t \in Users, NextPort(t)
  PROVE  NewFrame(t, f[t].pc, f[t].ch, f[t].op, f[t].idx + 1, f[t].ret)
<1>1. PICK k \in Frame(S) : k = f[t]
  BY DEF FramesOK
<1> DEFINE i == k.idx + 1
           y == [k EXCEPT !.idx = i]
<1>2. f' = [f EXCEPT ![t] = y]
  BY <1>1 DEF FramesOK, NextPort
<1> HIDE DEF i
<1>3. y.pc = k.pc /\ y.ch = k.ch /\ y.op = k.op /\ y.idx = i /\ y.ret = k.ret
  BY <1>1 DEF Frame
<1> HIDE DEF y
<1>4. NewFrame(t, y.pc, y.ch, y.op, y.idx, y.ret)
  BY <1>2, FrameSet
<1>5. QED
  BY <1>1, <1>3, <1>4 DEF i

(* An alt block from port to port.                                         *)
LEMMA AltMoves ==
  ASSUME NEW S, Inv(S), NEW t \in Users
  PROVE  /\ AltLock(t) => \/ /\ f[t].pc = "a_lock"
                             /\ NewFrame(t, "a_scan", f[t].ch, f[t].op, 1, f[t].ret)
                          \/ /\ f[t].pc = "a_relock"
                             /\ NewFrame(t, "a_clear", f[t].ch, f[t].op, 1, f[t].ret)
         /\ AltScan(t) => /\ w' = w
                          /\ \/ /\ AtEnd(t)
                                /\ \/ NewFrame(t, "a_unlock", f[t].ch, f[t].op, 1, f[t].ret)
                                   \/ NewFrame(t, "a_register", f[t].ch, f[t].op, 1, f[t].ret)
                             \/ ~AtEnd(t) /\ PortReady(Port(t)) /\ Went(t, "a_get")
                             \/ /\ ~AtEnd(t)
                                /\ NewFrame(t, "a_scan", f[t].ch, f[t].op, f[t].idx + 1, f[t].ret)
         /\ AltRegister(t) => \/ AtEnd(t) /\ w' = w /\ Went(t, "a_sleep")
                              \/ /\ ~AtEnd(t)
                                 /\ NewFrame(t, "a_register", f[t].ch, f[t].op, f[t].idx + 1, f[t].ret)
         /\ AltClear(t) => \/ /\ AtEnd(t) /\ w' = w
                              /\ NewFrame(t, "a_scan", f[t].ch, f[t].op, 1, f[t].ret)
                           \/ /\ ~AtEnd(t)
                              /\ NewFrame(t, "a_clear", f[t].ch, f[t].op, f[t].idx + 1, f[t].ret)
         /\ AltUnlock(t) => Went(t, "idle")
<1>1. FramesOK(S, f)
  BY DEF Inv, Typed, FramesOK
<1>2. ASSUME NEW p, FirstPort(t, p) PROVE NewFrame(t, p, f[t].ch, f[t].op, 1, f[t].ret)
  BY <1>1, <1>2, JumpFacts DEF FirstPort
<1>3. ASSUME NEW p, Goto(t, p) PROVE Went(t, p)
  BY <1>1, <1>3, GotoFacts
<1>4. NextPort(t) => NewFrame(t, f[t].pc, f[t].ch, f[t].op, f[t].idx + 1, f[t].ret)
  BY <1>1, NextPortFacts
<1>5. ASSUME AltLock(t)
      PROVE  \/ f[t].pc = "a_lock" /\ NewFrame(t, "a_scan", f[t].ch, f[t].op, 1, f[t].ret)
             \/ f[t].pc = "a_relock" /\ NewFrame(t, "a_clear", f[t].ch, f[t].op, 1, f[t].ret)
  BY <1>2, <1>5 DEF AltLock, At
<1>6. ASSUME AltScan(t)
      PROVE  /\ w' = w
             /\ \/ /\ AtEnd(t)
                   /\ \/ NewFrame(t, "a_unlock", f[t].ch, f[t].op, 1, f[t].ret)
                      \/ NewFrame(t, "a_register", f[t].ch, f[t].op, 1, f[t].ret)
                \/ ~AtEnd(t) /\ PortReady(Port(t)) /\ Went(t, "a_get")
                \/ ~AtEnd(t) /\ NewFrame(t, "a_scan", f[t].ch, f[t].op, f[t].idx + 1, f[t].ret)
  BY <1>2, <1>3, <1>4, <1>6 DEF AltScan, At
<1>7. ASSUME AltRegister(t)
      PROVE  \/ AtEnd(t) /\ w' = w /\ Went(t, "a_sleep")
             \/ ~AtEnd(t) /\ NewFrame(t, "a_register", f[t].ch, f[t].op, f[t].idx + 1, f[t].ret)
  BY <1>3, <1>4, <1>7 DEF AltRegister, At
<1>8. ASSUME AltClear(t)
      PROVE  \/ AtEnd(t) /\ w' = w /\ NewFrame(t, "a_scan", f[t].ch, f[t].op, 1, f[t].ret)
             \/ ~AtEnd(t) /\ NewFrame(t, "a_clear", f[t].ch, f[t].op, f[t].idx + 1, f[t].ret)
  BY <1>2, <1>4, <1>8 DEF AltClear, At
<1>9. AltUnlock(t) => Went(t, "idle")
  BY <1>3 DEF AltUnlock
<1>10. QED
  BY <1>5, <1>6, <1>7, <1>8, <1>9

LEMMA AltGetMoves ==
  ASSUME NEW S, Inv(S), NEW t \in Users, AltGet(t)
  PROVE  /\ Port(t) \in PortsOf(t) /\ w' = w
         /\ \E p : /\ NewFrame(t, p, Port(t), f[t].op, f[t].idx, "a_unlock")
                   /\ \/ Port(t) \in Chans /\ p = "r_writer"
                      \/ Port(t) \in Timeouts /\ p = "to_get"
                      \/ Port(t) \in Results /\ p = "res_get"
<1>1. FramesOK(S, f) /\ Typed(S) /\ Port(t) \in Ports /\ w' = w
  BY AltGetFrames DEF Inv, Typed, FramesOK, AltGet
<1>2. PICK k \in Frame(S) : k = f[t]
  BY <1>1 DEF FramesOK
<1>3. Port(t) \in PortsOf(t)
  <2>1. f[t].op \in Calls /\ f[t].idx \in Nat \ {0} /\ f[t].idx <= Len(f[t].op.ports)
    BY <1>1, <1>2 DEF AltGet, At, FramesOK, FrameFits, AltPcs, PortPcs, Frame
  <2>2. f[t].idx \in 1..Len(AltPorts(t))
    <3>1. Len(AltPorts(t)) = Len(f[t].op.ports) /\ Len(AltPorts(t)) \in Nat
      BY <2>1, AltPortsFacts
    <3>2. QED
      BY <2>1, <3>1
  <2>3. QED
    BY <2>1, <2>2, AltPortsFacts DEF Port
<1>4. PICK p : p = CASE Port(t) \in Chans    -> "r_writer"
                     [] Port(t) \in Timeouts -> "to_get"
                     [] Port(t) \in Results  -> "res_get"
  OBVIOUS
<1>5. \/ Port(t) \in Chans /\ p = "r_writer"
      \/ Port(t) \in Timeouts /\ p = "to_get"
      \/ Port(t) \in Results /\ p = "res_get"
  BY <1>1, <1>4, DistinctObjects DEF Ports
<1> DEFINE c == Port(t)
           y == [k EXCEPT !.ch = c, !.ret = "a_unlock", !.pc = p]
<1>6. f' = [f EXCEPT ![t] = y]
  <2>1. f' = [f EXCEPT ![t].ch = c, ![t].ret = "a_unlock", ![t].pc = p]
    BY <1>4 DEF AltGet
  <2> HIDE DEF c
  <2>2. QED
    BY <1>1, <1>2, <2>1 DEF FramesOK, Frame
<1> HIDE DEF c
<1>7. y.pc = p /\ y.ch = c /\ y.op = k.op /\ y.idx = k.idx /\ y.ret = "a_unlock"
  BY <1>2 DEF Frame
<1> HIDE DEF y
<1>8. NewFrame(t, y.pc, y.ch, y.op, y.idx, y.ret)
  BY <1>1, <1>6, FrameSet
<1>9. NewFrame(t, p, Port(t), f[t].op, f[t].idx, "a_unlock")
  BY <1>2, <1>7, <1>8 DEF c
<1>10. QED
  BY <1>1, <1>3, <1>5, <1>9

LEMMA ReflectMoves ==
  ASSUME NEW S, Inv(S), NEW t \in Users, Reflect(t)
  PROVE  \/ /\ w' = w /\ f[t].op.ch \in Chans
            /\ NewFrame(t, "r_writer", f[t].op.ch, f[t].op, 1, "b_next")
         \/ /\ Sink(t) \in Chans /\ ~AtEnd(t) /\ f[t].pc = "b_next"
            /\ NewFrame(t, "w_notify", Sink(t), f[t].op, f[t].idx + 1, f[t].ret)
<1>1. FramesOK(S, f) /\ Typed(S)
  BY DEF Inv, Typed, FramesOK
<1>2. PICK k \in Frame(S) : k = f[t]
  BY <1>1 DEF FramesOK
<1>3. CASE f[t].pc = "reflect" \/ AtEnd(t)
  <2> DEFINE y == [k EXCEPT !.pc = "r_writer", !.ch = k.op.ch, !.ret = "b_next", !.idx = 1]
  <2>1. f' = [f EXCEPT ![t] = y] /\ w' = w
    BY <1>1, <1>2, <1>3 DEF Reflect, FramesOK, Frame
  <2>2. y.pc = "r_writer" /\ y.ch = k.op.ch /\ y.op = k.op /\ y.idx = 1 /\ y.ret = "b_next"
    BY <1>2 DEF Frame
  <2> HIDE DEF y
  <2>3. NewFrame(t, y.pc, y.ch, y.op, y.idx, y.ret)
    BY <1>1, <2>1, FrameSet
  <2>4. f[t].op.ch \in Chans
    BY <1>1 DEF FramesOK, FrameFits, Reflect, At, Calls, ChanOps
  <2>5. QED
    BY <1>2, <2>1, <2>2, <2>3, <2>4
<1>4. CASE ~(f[t].pc = "reflect" \/ AtEnd(t))
  <2>1. Sink(t) \in Chans
    BY <1>1, <1>4, ReflectFrames
  <2> DEFINE c == Sink(t)
             i == k.idx + 1
             y == [k EXCEPT !.pc = "w_notify", !.ch = c, !.idx = i]
  <2>2. f' = [f EXCEPT ![t] = y] /\ f[t].pc = "b_next"
    BY <1>1, <1>2, <1>4 DEF Reflect, FramesOK, Frame, At
  <2> HIDE DEF c, i
  <2>3. y.pc = "w_notify" /\ y.ch = c /\ y.op = k.op /\ y.idx = i /\ y.ret = k.ret
    BY <1>2 DEF Frame
  <2> HIDE DEF y
  <2>4. NewFrame(t, y.pc, y.ch, y.op, y.idx, y.ret)
    BY <1>1, <2>2, FrameSet
  <2>5. NewFrame(t, "w_notify", Sink(t), f[t].op, f[t].idx + 1, f[t].ret)
    BY <1>2, <2>3, <2>4 DEF c, i
  <2>6. QED
    BY <1>4, <2>1, <2>2, <2>5
<1>5. QED
  BY <1>3, <1>4

LEMMA TakeMoves ==
  ASSUME NEW S, Inv(S), NEW t \in Users, ReadTake(t) \/ ReadReturn(t)
  PROVE  /\ ReadTake(t) => Went(t, "r_again") \/ (f' = f /\ w'.fault = "empty_read")
         /\ ReadReturn(t) => Went(t, f[t].ret)
<1>1. FramesOK(S, f) /\ Typed(S) /\ w \in World(S)
  BY DEF Inv, Typed, FramesOK
<1>2. PICK k \in Frame(S) : k = f[t]
  BY <1>1 DEF FramesOK
<1>3. ASSUME NEW v, NEW p, p # "idle", f' = [f EXCEPT ![t].pc = p, ![t].val = v]
      PROVE  Went(t, p)
  <2> DEFINE y == [k EXCEPT !.pc = p, !.val = v]
  <2>1. f' = [f EXCEPT ![t] = y]
    BY <1>1, <1>2, <1>3 DEF FramesOK, Frame
  <2>2. y.pc = p /\ y.ch = k.ch /\ y.op = k.op /\ y.idx = k.idx /\ y.ret = k.ret
    BY <1>2 DEF Frame
  <2> HIDE DEF y
  <2>3. NewFrame(t, y.pc, y.ch, y.op, y.idx, y.ret)
    BY <1>1, <2>1, FrameSet
  <2>4. QED
    BY <1>2, <1>3, <2>2, <2>3 DEF Went
<1>4. ASSUME ReadTake(t) PROVE Went(t, "r_again") \/ (f' = f /\ w'.fault = "empty_read")
  <2>1. \/ w' = Fail(w, "empty_read") /\ f' = f
        \/ \E v : f' = [f EXCEPT ![t].pc = "r_again", ![t].val = v]
    BY <1>4 DEF ReadTake
  <2>2. "empty_read" \in Faults
    BY DEF Faults
  <2>3. w' = Fail(w, "empty_read") => w'.fault = "empty_read"
    BY <1>1, <2>2, FailFacts
  <2>4. QED
    BY <1>3, <2>1, <2>3
<1>5. ASSUME ReadReturn(t) PROVE Went(t, f[t].ret)
  <2>1. \/ Goto(t, f[t].ret)
        \/ f[t].ret # "idle" /\ \E v : f' = [f EXCEPT ![t].pc = f[t].ret, ![t].val = v]
    BY <1>5 DEF ReadReturn
  <2>2. QED
    BY <1>1, <1>3, <2>1, GotoFacts
<1>6. QED
  BY <1>4, <1>5

-----------------------------------------------------------------------------
(* Channels are bounded FIFOs.  Without preemption the thread that found   *)
(* room, or an item, is still running when it stores or takes.             *)
RestPcs == {"idle", "w_full", "w_held", "r_woken", "a_relock", "a_unlock", "b_next"}

(* Only the running thread moves; it gives up the processor at few places, *)
(* and comes to the store and the taking of an item only from the test.    *)
Moves(t) ==
  /\ \A u \in Users \ {t} : f'[u] = f[u]
  /\ cur' = NULL => f'[t].pc \in RestPcs
  /\ f'[t].pc = "w_store" =>
       w' = w /\ f'[t].ch = f[t].ch /\ WriteFull(t) /\ ~Full(Class(f[t].ch), w.ch[f[t].ch])
  /\ f'[t].pc = "r_take" =>
       \/ /\ w' = w /\ f'[t].ch = f[t].ch /\ ReadReady(t)
          /\ Ready(Class(f[t].ch), w.ch[f[t].ch], now)
       \/ /\ f'[t].ch = f[t].ch /\ ReadWoken(t) /\ Class(f[t].ch).kind \notin {"chan", "clock"}
       \/ /\ ReadTake(t) /\ f' = f /\ ~OneItem(Class(f[t].ch))

LEMMA WentMoves ==
  ASSUME NEW t \in Users, NEW p, Went(t, p), p \notin {"w_store", "r_take"},
         cur' = NULL => p \in RestPcs
  PROVE  Moves(t)
<1>1. f'[t].pc = p /\ \A u \in Users \ {t} : f'[u] = f[u]
  BY DEF Went, NewFrame
<1>2. QED
  BY <1>1 DEF Moves

LEMMA NewFrameMoves ==
  ASSUME NEW t \in Users, NEW p, NEW c, NEW o, NEW i, NEW r, NewFrame(t, p, c, o, i, r),
         p \notin {"w_store", "r_take"}, cur' # NULL
  PROVE  Moves(t)
  BY DEF NewFrame, Moves

LEMMA RunMoves ==
  ASSUME NEW S, Inv(S), NEW t \in Users, Run(t)
  PROVE  cur = t /\ cur' \in {t, NULL} /\ t # NULL /\ Moves(t)
<1>0. /\ FramesOK(S, f) /\ Typed(S) /\ t # NULL /\ FrameFits(f[t]) /\ f[t] \in Frame(S)
      /\ f[t].ret \in {"idle", "a_unlock", "b_next"}
  BY HelperIds DEF Inv, Typed, FramesOK, Frame
<1>1. cur = t /\ w.fault = "none"
  BY DEF Run, Start, End, DelayCall, Sleep, WriteNotify, WriteFull, WriteStore, WriteHeld,
       ReadWriter, ReadReady, ReadWoken, ReadTake, ReadReturn, Clear, ToGet, ResGet, ResClear,
       AltLock, AltScan, AltRegister, AltClear, AltGet, AltUnlock, Reflect, At
<1>2. cur' \in {t, NULL}
  BY <1>1, RunRest
<1> SUFFICES Moves(t)
  BY <1>0, <1>1, <1>2
<1>3. ASSUME NEW p, Goto(t, p), p \notin {"w_store", "r_take"}, cur' = NULL => p \in RestPcs
      PROVE  Moves(t)
  BY <1>0, <1>3, GotoFacts, WentMoves
<1>4. f[t].ret \notin {"w_store", "r_take"} /\ f[t].ret \in RestPcs
  BY <1>0 DEF RestPcs
<1>5. ASSUME NEW o \in prog.menu[t], Start(t, o) PROVE Moves(t)
  <2>1. NewFrame(t, Entry(o), o.ch, o, 1, "idle") /\ cur' = t
    BY <1>1, <1>5, StartFacts DEF Start
  <2>2. o \in Calls
    BY <1>0, ChannelsAssumption DEF Typed
  <2>3. o.op \in ChanOps \cup ResOps \cup AltOps \cup {"to_get", "delay"}
    BY <2>2 DEF Calls
  <2>4. Entry(o) \notin {"w_store", "r_take"}
    BY <2>3 DEF Entry, ChanOps, ResOps, AltOps
  <2>5. QED
    BY <1>0, <2>1, <2>4, NewFrameMoves
<1>6. CASE End(t)
  BY <1>6 DEF End, At, Moves, RestPcs
<1>7. CASE DelayCall(t)
  BY <1>3, <1>7 DEF DelayCall, RestPcs
<1>8. CASE Sleep(t)
  <2>1. Goto(t, Woken(f[t].pc)) /\ Woken(f[t].pc) \in {"w_full", "w_held", "r_woken", "a_relock"}
    BY <1>8 DEF Sleep, At, Sleeps, Woken
  <2>2. QED
    BY <1>3, <2>1 DEF RestPcs
<1>9. CASE WriteNotify(t)
  <2>1. PICK p : /\ Goto(t, p) /\ p \in {"w_full", "w_held", f[t].ret}
    BY <1>9 DEF WriteNotify
  <2>2. QED
    BY <1>3, <1>4, <2>1 DEF RestPcs
<1>10. CASE WriteFull(t)
  <2>1. CASE ~Full(Class(f[t].ch), w.ch[f[t].ch])
    <3>1. w' = w /\ Goto(t, "w_store") /\ cur' # NULL
      BY <1>0, <1>1, <1>10, <2>1, WriteFullFacts DEF WriteFull, Keeps
    <3>2. Went(t, "w_store")
      BY <1>0, <3>1, GotoFacts
    <3>3. QED
      BY <1>10, <2>1, <3>1, <3>2 DEF Went, NewFrame, Moves
  <2>2. CASE Full(Class(f[t].ch), w.ch[f[t].ch])
    BY <1>0, <1>1, <1>3, <1>10, <2>2, WriteFullFacts DEF WriteFull, Keeps
  <2>3. QED
    BY <2>1, <2>2
<1>11. CASE WriteStore(t)
  BY <1>0, <1>1, <1>3, <1>11 DEF WriteStore, Keeps
<1>12. CASE WriteHeld(t)
  <2>1. PICK p : Goto(t, p) /\ p \in {"held_sleep", f[t].ret}
    BY <1>12 DEF WriteHeld
  <2>2. QED
    BY <1>0, <1>1, <1>3, <1>4, <1>12, <2>1 DEF WriteHeld, Keeps
<1>13. CASE ReadWriter(t)
  BY <1>0, <1>1, <1>3, <1>13 DEF ReadWriter, Keeps
<1>14. CASE ReadReady(t)
  <2>1. CASE Ready(Class(f[t].ch), w.ch[f[t].ch], now)
    <3>1. w' = w /\ Goto(t, "r_take") /\ cur' # NULL
      BY <1>0, <1>1, <1>14, <2>1, ReadReadyFacts DEF ReadReady, Keeps
    <3>2. Went(t, "r_take")
      BY <1>0, <3>1, GotoFacts
    <3>3. QED
      BY <1>14, <2>1, <3>1, <3>2 DEF Went, NewFrame, Moves
  <2>2. CASE ~Ready(Class(f[t].ch), w.ch[f[t].ch], now)
    BY <1>0, <1>1, <1>3, <1>14, <2>2, ReadReadyFacts DEF ReadReady, Keeps
  <2>3. QED
    BY <2>1, <2>2
<1>15. CASE ReadWoken(t)
  <2>1. CASE Class(f[t].ch).kind \in {"chan", "clock"}
    BY <1>0, <1>1, <1>3, <1>15, <2>1 DEF ReadWoken, Keeps
  <2>2. CASE Class(f[t].ch).kind \notin {"chan", "clock"}
    <3>1. Goto(t, "r_take") /\ cur' # NULL
      BY <1>0, <1>1, <1>15, <2>2 DEF ReadWoken, Keeps
    <3>2. Went(t, "r_take")
      BY <1>0, <3>1, GotoFacts
    <3>3. QED
      BY <1>15, <2>2, <3>1, <3>2 DEF Went, NewFrame, Moves
  <2>3. QED
    BY <2>1, <2>2
<1>16. CASE ReadTake(t)
  <2>1. cur' # NULL /\ f[t].pc = "r_take" /\ (f' = f => ~OneItem(Class(f[t].ch)) \/ Went(t, "r_again"))
    <3>1. cur' # NULL /\ f[t].pc = "r_take"
      BY <1>0, <1>1, <1>16 DEF ReadTake, At
    <3>2. CASE OneItem(Class(f[t].ch))
      <4>1. PICK v : f' = [f EXCEPT ![t].pc = "r_again", ![t].val = v]
        BY <1>16, <3>2 DEF ReadTake
      <4>2. f'[t].pc = "r_again"
        BY <1>0, <4>1 DEF FramesOK, Frame
      <4>3. QED
        BY <3>1, <4>2
    <3>3. QED
      BY <3>1, <3>2
  <2>2. Went(t, "r_again") \/ f' = f
    BY <1>16, TakeMoves
  <2>3. CASE Went(t, "r_again")
    BY <2>1, <2>3, WentMoves
  <2>4. CASE f' = f /\ ~Went(t, "r_again")
    BY <1>16, <2>1, <2>4 DEF Moves
  <2>5. QED
    BY <2>2, <2>3, <2>4
<1>17. CASE ReadReturn(t)
  <2>1. Went(t, f[t].ret)
    BY <1>17, TakeMoves
  <2>2. QED
    BY <1>4, <2>1, WentMoves
<1>18. CASE Clear(t) \/ ToGet(t) \/ ResGet(t)
  BY <1>3, <1>4, <1>18 DEF Clear, ToGet, ResGet
<1>19. CASE ResClear(t)
  BY <1>3, <1>19 DEF ResClear, RestPcs
<1>20. CASE AltLock(t) \/ AltScan(t) \/ AltRegister(t) \/ AltClear(t) \/ AltUnlock(t)
  <2>1. cur' # NULL
    BY <1>0, <1>1, <1>20 DEF AltLock, AltScan, AltRegister, AltClear, AltUnlock, Keeps
  <2>2. CASE AltLock(t)
    BY <2>1, <2>2, AltMoves, NewFrameMoves
  <2>3. CASE AltScan(t)
    BY <2>1, <2>3, AltMoves, NewFrameMoves, WentMoves
  <2>4. CASE AltRegister(t)
    BY <2>1, <2>4, AltMoves, NewFrameMoves, WentMoves
  <2>5. CASE AltClear(t)
    BY <2>1, <2>5, AltMoves, NewFrameMoves
  <2>6. CASE AltUnlock(t)
    BY <2>1, <2>6, AltMoves, WentMoves
  <2>7. QED
    BY <1>20, <2>2, <2>3, <2>4, <2>5, <2>6
<1>21. CASE AltGet(t)
  <2>1. cur' # NULL
    BY <1>0, <1>1, <1>21 DEF AltGet, Keeps
  <2>2. PICK p : /\ NewFrame(t, p, Port(t), f[t].op, f[t].idx, "a_unlock")
                 /\ p \in {"r_writer", "to_get", "res_get"}
    BY <1>21, AltGetMoves
  <2>3. QED
    BY <2>1, <2>2, NewFrameMoves
<1>22. CASE Reflect(t)
  <2>1. cur' # NULL
    BY <1>0, <1>1, <1>22 DEF Reflect, Keeps
  <2>2. QED
    BY <1>22, <2>1, ReflectMoves, NewFrameMoves
<1>23. QED
  BY <1>0, <1>1, <1>2, <1>5, <1>6, <1>7, <1>8, <1>9, <1>10, <1>11, <1>12, <1>13, <1>14, <1>15,
     <1>16, <1>17, <1>18, <1>19, <1>20, <1>21, <1>22 DEF Run

(* What a step does to the items of channel c.                             *)
Kept(c) == /\ w'.ch[c].store = w.ch[c].store /\ w'.ch[c].data = w.ch[c].data
           /\ got'[c] = got[c]
Stores(t, c) ==
  /\ f[t].pc = "w_store" /\ f[t].ch = c /\ got'[c] = got[c]
  /\ Wrote(w, w', c, f[t].val, now)
Takes(t, c) ==
  /\ f[t].pc = "r_take" /\ f[t].ch = c /\ Took(w, w', c, got, got')
Drops(c) ==
  /\ w'.ch[c].data = w.ch[c].data /\ got'[c] = got[c]
  /\ w'.ch[c].store \in {<<>>, Cut(w.ch[c].store)}

LEMMA SameKept ==
  ASSUME SameItems(w, w'), got' = got, NEW c \in Chans
  PROVE  Kept(c)
  BY DEF SameItems, Kept

LEMMA AlikeItems ==
  /\ \A s, x : SameObjects(s, x) => SameItems(s, x)
  /\ \A s, x : Alike(s, x) => SameItems(s, x)
  /\ \A s, x, t, how : Moved(s, x, t, how) => SameItems(s, x)
  /\ \A s, x, why : Refused(s, x, why) => SameItems(s, x)
  /\ \A s, x, c, r : Notified(s, x, c, r) => SameItems(s, x)
  /\ \A s, x, c, t : Registered(s, x, c, t) => SameItems(s, x)
  /\ \A s, x, c, t : Forgotten(s, x, c, t) => SameItems(s, x)
  /\ \A s, x, c : WriterLetIn(s, x, c) => SameItems(s, x)
  /\ \A s, x, p, t : SetNotified(s, x, p, t) => SameItems(s, x)
  /\ \A s, x, p, t : ClearNotified(s, x, p, t) => SameItems(s, x)
<1>1. \A s, x : x.ch = s.ch => SameItems(s, x)
  BY DEF SameItems
<1>2. \A s, x : SameObjects(s, x) => SameItems(s, x)
  BY <1>1 DEF SameObjects
<1>3. \A s, x : Alike(s, x) => SameItems(s, x)
  BY <1>2 DEF Alike
<1>4. \A s, x, t, how : Moved(s, x, t, how) => SameItems(s, x)
  BY <1>2 DEF Moved
<1>5. \A s, x, why : Refused(s, x, why) => SameItems(s, x)
  BY <1>2 DEF Refused
<1>6. \A s, x, c, r : Notified(s, x, c, r) => SameItems(s, x)
  BY DEF Notified, WakerStarted, ReaderWoken, NewReaders
<1>7. \A s, x, c, t : Registered(s, x, c, t) => SameItems(s, x)
  BY DEF Registered, NewReaders
<1>8. \A s, x, c, t : Forgotten(s, x, c, t) => SameItems(s, x)
  BY DEF Forgotten, NewReaders
<1>9. \A s, x, c : WriterLetIn(s, x, c) => SameItems(s, x)
  BY DEF WriterLetIn
<1>10. \A s, x, p, t : Timed(s, x, p, t) \/ ResultAwaited(s, x, p, t) => SameItems(s, x)
  BY <1>1 DEF Timed, ResultAwaited
<1>11. \A s, x, p : Untimed(s, x, p) \/ ResultLeft(s, x, p) => SameItems(s, x)
  BY <1>1 DEF Untimed, ResultLeft
<1>12. \A s, x, p, t : SetNotified(s, x, p, t) => SameItems(s, x)
  BY <1>5, <1>7, <1>10 DEF SetNotified
<1>13. \A s, x, p, t : ClearNotified(s, x, p, t) => SameItems(s, x)
  BY <1>8, <1>11 DEF ClearNotified
<1>14. QED
  BY <1>2, <1>3, <1>4, <1>5, <1>6, <1>7, <1>8, <1>9, <1>12, <1>13

LEMMA OtherItems ==
  ASSUME NEW S, Inv(S), NEW t \in Users, Run(t),
         ~WriteStore(t), ~ReadTake(t), ~Clear(t), ~Reflect(t)
  PROVE  SameItems(w, w') /\ got' = got
<1>1. got' = got
  BY DEF Run, Start, End, DelayCall, Sleep, WriteNotify, WriteFull, WriteHeld,
       ReadWriter, ReadReady, ReadWoken, ReadReturn, ToGet, ResGet, ResClear,
       AltLock, AltScan, AltRegister, AltClear, AltGet, AltUnlock, Keeps, Quiet
<1> SUFFICES SameItems(w, w')
  BY <1>1
<1>2. CASE w' = w
  BY <1>2 DEF SameItems
<1>3. CASE \E o \in prog.menu[t] : Start(t, o)
  BY <1>2, <1>3 DEF Start
<1>4. CASE End(t)
  BY <1>4, EndFacts DEF Ended, SameItems
<1>5. CASE DelayCall(t) \/ Sleep(t)
  BY <1>5, BlockFacts, AlikeItems
<1>6. CASE WriteNotify(t)
  BY <1>2, <1>6, WriteNotifyFacts, AlikeItems
<1>7. CASE WriteFull(t)
  BY <1>2, <1>7, WriteFullFacts DEF WritersIs
<1>8. CASE WriteHeld(t)
  BY <1>8, WriteHeldFacts, AlikeItems DEF WritersIs
<1>9. CASE ReadWriter(t) \/ ReadReturn(t)
  BY <1>2, <1>9, ReadWriterFacts, AlikeItems
<1>10. CASE ReadReady(t)
  BY <1>2, <1>10, ReadReadyFacts, AlikeItems
<1>11. CASE ReadWoken(t)
  BY <1>2, <1>11, ReadWokenFacts, AlikeItems
<1>12. CASE ToGet(t)
  BY <1>12, ToGetFacts DEF ToGot, SameItems
<1>13. CASE ResGet(t) \/ ResClear(t)
  BY <1>13, ResGetFacts DEF ResultGot, SameItems
<1>14. CASE AltLock(t) \/ AltScan(t) \/ AltRegister(t) \/ AltClear(t) \/ AltGet(t) \/ AltUnlock(t)
  BY <1>14, AltFacts, AlikeItems
<1>15. QED
  BY <1>3, <1>4, <1>5, <1>6, <1>7, <1>8, <1>9, <1>10, <1>11, <1>12, <1>13, <1>14 DEF Run

LEMMA ClearedItems ==
  ASSUME NEW c \in Chans, ClearedTo(w, w', c), got' = got, NEW d \in Chans
  PROVE  Kept(d) \/ Drops(d)
<1>1. PICK y, q : /\ StoreIs(w, y, c, q) /\ q \in {<<>>, Cut(w.ch[c].store)}
                  /\ SameItems(y, w')
  <2>1. CASE \E q \in {<<>>, Cut(w.ch[c].store)} : StoreIs(w, w', c, q)
    BY <2>1 DEF SameItems
  <2>2. CASE \E y : StoreIs(w, y, c, <<>>) /\ WriterLetIn(y, w', c)
    BY <2>2, AlikeItems
  <2>3. QED
    BY <2>1, <2>2 DEF ClearedTo, StoreThenWriter
<1>2. CASE d # c
  BY <1>1, <1>2 DEF StoreIs, SameItems, Kept
<1>3. CASE d = c
  BY <1>1, <1>3 DEF StoreIs, SameItems, Drops
<1>4. QED
  BY <1>2, <1>3

LEMMA RunItems ==
  ASSUME NEW S, Inv(S), NEW t \in Users, Run(t), NEW c \in Chans
  PROVE  Kept(c) \/ Stores(t, c) \/ Takes(t, c) \/ Drops(c)
<1>1. CASE WriteStore(t)
  <2>1. /\ f[t].pc = "w_store" /\ got' = got /\ f[t].ch \in Chans
        /\ Wrote(w, w', f[t].ch, f[t].val, now)
    BY <1>1, WriteStoreFacts DEF WriteStore, At, Keeps, Quiet
  <2>2. CASE f[t].ch = c
    BY <2>1, <2>2 DEF Stores
  <2>3. CASE f[t].ch # c
    BY <2>1, <2>3 DEF Wrote, Kept
  <2>4. QED
    BY <2>2, <2>3
<1>2. CASE ReadTake(t)
  <2>1. f[t].pc = "r_take"
    BY <1>2 DEF ReadTake, At
  <2>2. CASE Refused(w, w', "empty_read") /\ got' = got
    BY <2>2, AlikeItems, SameKept
  <2>3. CASE w' = w /\ got' = got
    BY <2>3 DEF Kept
  <2>4. CASE Took(w, w', f[t].ch, got, got') /\ f[t].ch \in Chans
    <3>1. CASE f[t].ch = c
      BY <2>1, <2>4, <3>1 DEF Takes
    <3>2. CASE f[t].ch # c
      <4>1. got'[c] = got[c]
        <5>1. got \in [Chans -> Seq(Value)]
          BY DEF Inv, Typed
        <5>2. QED
          BY <2>4, <3>2, <5>1 DEF Took
      <4>2. QED
        BY <2>4, <3>2, <4>1 DEF Took, StoreIs, Kept
    <3>3. QED
      BY <3>1, <3>2
  <2>5. QED
    BY <1>2, <2>2, <2>3, <2>4, ReadTakeFacts
<1>3. CASE Clear(t)
  BY <1>3, ClearFacts, ClearedItems DEF Clear, Keeps, Quiet
<1>4. CASE Reflect(t)
  <2>1. got' = got
    BY <1>4 DEF Reflect, Keeps, Quiet
  <2>2. CASE w' = w
    BY <2>1, <2>2 DEF Kept
  <2>3. QED
    BY <1>4, <2>1, <2>2, ReflectFacts, ClearedItems
<1>5. CASE ~WriteStore(t) /\ ~ReadTake(t) /\ ~Clear(t) /\ ~Reflect(t)
  BY <1>5, OtherItems, SameKept
<1>6. QED
  BY <1>1, <1>2, <1>3, <1>4, <1>5

LEMMA SchedulerItems ==
  ASSUME NEW S, Inv(S), NEW c \in Chans,
         \/ \E h \in Helpers : HelperDelay(h) \/ HelperFire(h)
         \/ \E t \in Threads : Dispatch(t)
         \/ Advance
  PROVE  Kept(c) /\ f' = f
<1>1. got' = got /\ f' = f
  BY DEF HelperDelay, HelperFire, Dispatch, Advance, Quiet
<1>2. w \in World(S) /\ Good(S, w, cur)
  BY DEF Inv, Good
<1>3. ASSUME NEW h \in Helpers, HelperDelay(h) PROVE SameItems(w, w')
  <2>1. \E d : w' = Left([w EXCEPT !.due[h] = d], h, "delay")
    BY <1>3 DEF HelperDelay, BlockIn, Left
  <2>2. h \in Threads
    BY HelperIds
  <2>3. QED
    BY <1>2, <2>1, <2>2, DelayFacts, AlikeItems
<1>4. ASSUME NEW o \in Timeouts, HelperFire(TimerOf(o)) PROVE SameItems(w, w')
  BY <1>4, TimerFireFacts DEF TimerFired, SameItems
<1>5. ASSUME NEW d \in Chans, NEW r \in Users, HelperFire(WakerOf(d, r)) PROVE SameItems(w, w')
  BY <1>5, WakerFireFacts DEF WakerFired, NewReaders
<1>6. ASSUME NEW t \in Threads, Dispatch(t) PROVE SameItems(w, w')
  BY <1>6, DispatchWorld, AlikeItems
<1>7. CASE Advance
  <2>1. SameItems(w, w')
    BY <1>7, AdvanceWorld, AlikeItems DEF TimePassed
  <2>2. QED
    BY <1>1, <2>1, SameKept
<1>8. QED
  BY <1>1, <1>3, <1>4, <1>5, <1>6, <1>7, SameKept DEF Helpers

Parked == \A t \in Users : t # cur => f[t].pc \in RestPcs
HasRoom == \A t \in Users : f[t].pc = "w_store" => ~Full(Class(f[t].ch), w.ch[f[t].ch])
OneFits ==
  \A c \in Chans : OneItem(Class(c)) =>
    w.ch[c].store = <<>> \/ (Len(w.ch[c].store) = 1 /\ Head(w.ch[c].store).v = w.ch[c].data)
Fifo == Parked /\ HasRoom /\ OneFits

(* A one-item channel has its item when it is taken.                       *)
HasItemIn(kinds) ==
  \A t \in Users : f[t].pc = "r_take" /\ Class(f[t].ch).kind \in kinds => w.ch[f[t].ch].store # <<>>

LEMMA FifoInit == Init => Fifo
<1>1. SUFFICES ASSUME Init PROVE Fifo
  OBVIOUS
<1>2. \A t \in Users : f[t].pc = "idle"
  BY <1>1 DEF Init, Rest
<1>3. \A c \in Chans : w.ch[c].store = <<>>
  BY <1>1 DEF Init, Fresh
<1>4. QED
  BY <1>2, <1>3 DEF Fifo, Parked, HasRoom, OneFits, RestPcs

(* The steps that are not of a thread of the program.                      *)
Scheduler == \/ \E h \in Helpers : HelperDelay(h) \/ HelperFire(h)
             \/ \E t \in Threads : Dispatch(t)
             \/ Advance
LEMMA SchedulerIdle ==
  ASSUME NEW S, Inv(S), Parked, Scheduler
  PROVE  /\ f' = f /\ prog' = prog /\ \A c \in Chans : Kept(c)
         /\ cur \notin Users /\ \A t \in Users : f[t].pc \in RestPcs
<1>1. f' = f /\ \A c \in Chans : Kept(c)
  <2>1. f' = f
    BY DEF Scheduler, HelperDelay, HelperFire, Dispatch, Advance
  <2>2. ASSUME NEW c \in Chans PROVE Kept(c)
    BY SchedulerItems DEF Scheduler
  <2>3. QED
    BY <2>1, <2>2
<1>2. prog' = prog
  BY DEF Scheduler, HelperDelay, HelperFire, Dispatch, Advance, Quiet
<1>3. cur \notin Users
  BY HelperIds DEF Scheduler, HelperDelay, HelperFire, Runs, Dispatch, Advance
<1>4. QED
  BY <1>1, <1>2, <1>3 DEF Parked

LEMMA OneFitsStep ==
  ASSUME NEW S, Inv(S), OneFits, prog' = prog, NEW t,
         \A c \in Chans : Kept(c) \/ Stores(t, c) \/ Takes(t, c) \/ Drops(c)
  PROVE  OneFits'
<1>1. SUFFICES ASSUME NEW c \in Chans, OneItem(Class(c))
               PROVE  \/ w'.ch[c].store = <<>>
                      \/ Len(w'.ch[c].store) = 1 /\ Head(w'.ch[c].store).v = w'.ch[c].data
  BY DEF OneFits, Class
<1> DEFINE q == w.ch[c].store
<1>2. q = <<>> \/ (Len(q) = 1 /\ Head(q).v = w.ch[c].data)
  BY <1>1 DEF OneFits
<1>3. q \in Seq(Item(S))
  BY DEF Inv, Typed, World, Channel
<1>4. Cut(q) = <<>>
  <2> HIDE DEF q
  <2>1. QED
    BY <1>2, <1>3 DEF Cut
<1>5. CASE Kept(c)
  BY <1>2, <1>5 DEF Kept
<1>6. CASE Stores(t, c)
  <2>1. PICK v, i : i = [v |-> v, at |-> now] /\ w'.ch[c].store = <<i>> /\ w'.ch[c].data = v
    BY <1>1, <1>6 DEF Stores, Wrote
  <2>2. i.v = v
    BY <2>1
  <2>3. Len(<<i>>) = 1 /\ Head(<<i>>) = i
    OBVIOUS
  <2>4. QED
    BY <2>1, <2>2, <2>3
<1>7. CASE Takes(t, c)
  BY <1>4, <1>7 DEF Takes, Took, StoreIs
<1>8. CASE Drops(c)
  BY <1>4, <1>8 DEF Drops
<1>9. QED
  BY <1>5, <1>6, <1>7, <1>8

LEMMA FifoStep ==
  ASSUME NEW S, Inv(S), Fifo, Next \/ UNCHANGED vars
  PROVE  Fifo'
<1>1. ASSUME NEW t \in Users, Run(t) PROVE Fifo'
  <2>1. /\ cur = t /\ cur' \in {t, NULL} /\ Moves(t) /\ prog' = prog
        /\ \A u \in Users \ {t} : f'[u] = f[u] /\ f[u].pc \in RestPcs
    BY <1>1, RunMoves, RunRest DEF Fifo, Parked, Moves
  <2>2. Parked'
    <3>1. SUFFICES ASSUME NEW u \in Users, u # cur' PROVE f'[u].pc \in RestPcs
      BY DEF Parked
    <3>2. QED
      BY <2>1, <3>1 DEF Moves
  <2>3. HasRoom'
    <3>1. SUFFICES ASSUME NEW u \in Users, f'[u].pc = "w_store"
                   PROVE  ~Full(Class(f'[u].ch), w'.ch[f'[u].ch])
      BY <2>1 DEF HasRoom, Class
    <3>2. u = t
      BY <2>1, <3>1 DEF RestPcs
    <3>3. QED
      BY <2>1, <3>1, <3>2 DEF Moves
  <2>4. OneFits'
    <3>1. \A c \in Chans : Kept(c) \/ Stores(t, c) \/ Takes(t, c) \/ Drops(c)
      BY <1>1, RunItems
    <3>2. QED
      BY <2>1, <3>1, OneFitsStep DEF Fifo
  <2>5. QED
    BY <2>2, <2>3, <2>4 DEF Fifo
<1>2. CASE Scheduler
  <2>1. /\ f' = f /\ prog' = prog /\ \A c \in Chans : Kept(c)
        /\ \A t \in Users : f[t].pc \in RestPcs
    BY <1>2, SchedulerIdle DEF Fifo
  <2>2. Parked' /\ HasRoom'
    BY <2>1 DEF Parked, HasRoom, RestPcs
  <2>3. OneFits'
    BY <2>1, OneFitsStep DEF Fifo
  <2>4. QED
    BY <2>2, <2>3 DEF Fifo
<1>3. CASE UNCHANGED vars
  BY <1>3 DEF vars, Fifo, Parked, HasRoom, OneFits, Class
<1>4. QED
  BY <1>1, <1>2, <1>3 DEF Next, Scheduler

-----------------------------------------------------------------------------
(* The steps of BoundedChan.                                               *)
VSeq(q) == [i \in DOMAIN q |-> q[i].v]

LEMMA ValuesSeq ==
  ASSUME NEW S, NEW q \in Seq(Item(S))
  PROVE  /\ VSeq(q) \in Seq(Value) /\ Len(VSeq(q)) = Len(q) /\ (VSeq(q) = <<>> <=> q = <<>>)
         /\ \A i \in 1..Len(q) : VSeq(q)[i] = q[i].v
<1>1. Len(q) \in Nat /\ DOMAIN q = 1..Len(q) /\ \A i \in 1..Len(q) : q[i] \in Item(S)
  OBVIOUS
<1>2. \A i \in 1..Len(q) : q[i].v \in Value
  BY <1>1 DEF Item
<1>3. VSeq(q) = [i \in 1..Len(q) |-> q[i].v]
  BY <1>1 DEF VSeq
<1>4. VSeq(q) \in [1..Len(q) -> Value]
  BY <1>2, <1>3
<1>5. VSeq(q) \in Seq(Value) /\ Len(VSeq(q)) = Len(q)
  BY <1>1, <1>4, <1>3
<1>6. VSeq(q) = <<>> <=> q = <<>>
  BY <1>5
<1>7. QED
  BY <1>3, <1>5, <1>6

LEMMA ValuesTail ==
  ASSUME NEW S, NEW q \in Seq(Item(S)), q # <<>>
  PROVE  Head(VSeq(q)) = Head(q).v /\ VSeq(Tail(q)) = Tail(VSeq(q))
<1> DEFINE n == Len(q)
           v == VSeq(q)
           r == Tail(q)
<1>1. n \in Nat /\ n > 0 /\ r \in Seq(Item(S)) /\ Len(r) = n - 1 /\ \A i \in 1..(n - 1) : r[i] = q[i + 1]
  OBVIOUS
<1>2. v \in Seq(Value) /\ Len(v) = n /\ \A i \in 1..n : v[i] = q[i].v
  BY ValuesSeq
<1>3. VSeq(r) \in Seq(Value) /\ Len(VSeq(r)) = n - 1 /\ \A i \in 1..(n - 1) : VSeq(r)[i] = r[i].v
  BY <1>1, ValuesSeq
<1> HIDE DEF v, r, n
<1>4. /\ Tail(v) \in Seq(Value) /\ Len(Tail(v)) = n - 1
      /\ \A i \in 1..(n - 1) : Tail(v)[i] = v[i + 1]
  BY <1>1, <1>2
<1>5. \A i \in 1..(n - 1) : VSeq(r)[i] = Tail(v)[i]
  <2>1. SUFFICES ASSUME NEW i \in 1..(n - 1) PROVE VSeq(r)[i] = Tail(v)[i]
    OBVIOUS
  <2>2. i + 1 \in 1..n
    BY <1>1
  <2>3. QED
    BY <1>1, <1>2, <1>3, <1>4, <2>2
<1>6. VSeq(r) = Tail(v)
  BY <1>1, <1>3, <1>4, <1>5
<1>7. Head(v) = v[1] /\ Head(q) = q[1] /\ 1 \in 1..n
  BY <1>1, <1>2 DEF n
<1>8. QED
  BY <1>2, <1>6, <1>7 DEF v, r

LEMMA ValuesAppend ==
  ASSUME NEW S, NEW q \in Seq(Item(S)), NEW i \in Item(S)
  PROVE  LET x == VSeq(Append(q, i))
         IN  Len(x) = Len(VSeq(q)) + 1 /\ SubSeq(x, 1, Len(VSeq(q))) = VSeq(q)
<1> DEFINE n == Len(q)
           v == VSeq(q)
           r == Append(q, i)
           x == VSeq(r)
<1>1. n \in Nat /\ r \in Seq(Item(S)) /\ Len(r) = n + 1 /\ \A j \in 1..n : r[j] = q[j]
  OBVIOUS
<1>2. v \in Seq(Value) /\ Len(v) = n /\ \A j \in 1..n : v[j] = q[j].v
  BY ValuesSeq
<1> HIDE DEF r
<1>3. x \in Seq(Value) /\ Len(x) = n + 1 /\ \A j \in 1..(n + 1) : x[j] = r[j].v
  BY <1>1, ValuesSeq
<1> HIDE DEF v, x, n
<1> DEFINE y == SubSeq(x, 1, n)
<1>4. y \in Seq(Value) /\ Len(y) = n /\ \A j \in 1..n : y[j] = x[j]
  BY <1>1, <1>3
<1> HIDE DEF y
<1>5. \A j \in 1..n : y[j] = v[j]
  BY <1>1, <1>2, <1>3, <1>4
<1>6. y = v
  BY <1>1, <1>2, <1>4, <1>5
<1>7. QED
  BY <1>2, <1>3, <1>6 DEF y, v, x, r

LEMMA StepOfKept ==
  ASSUME NEW c \in Chans, prog' = prog, Kept(c)
  PROVE  Bounded(c)!Step
<1>1. Capacity(c)' = Capacity(c)
  BY DEF Capacity, Class
<1>2. Values(c)' = Values(c)
  BY DEF Kept, Values
<1>3. QED
  BY <1>1, <1>2 DEF Bounded!Step, Kept

LEMMA StepOfDrop ==
  ASSUME NEW S, Inv(S), NEW c \in Chans, prog' = prog, Drops(c)
  PROVE  Bounded(c)!Step
<1>1. Capacity(c)' = Capacity(c)
  BY DEF Capacity, Class
<1> DEFINE q == w.ch[c].store
<1>2. q \in Seq(Item(S))
  BY DEF Inv, Typed, World, Channel
<1>3. Values(c) = VSeq(q) /\ Values(c)' = VSeq(w'.ch[c].store) /\ VSeq(<<>>) = <<>>
  BY DEF Values, VSeq
<1>4. w'.ch[c].store \in {<<>>, Cut(q)} /\ got'[c] = got[c]
  BY DEF Drops
<1> HIDE DEF q
<1>5. CASE q = <<>>
  <2>1. Values(c)' = Values(c)
    BY <1>3, <1>4, <1>5 DEF Cut
  <2>2. QED
    BY <1>1, <1>4, <2>1 DEF Bounded!Step
<1>6. CASE q # <<>>
  <2>1. Values(c)' \in {<<>>, Tail(Values(c))} /\ Values(c) # <<>>
    BY <1>2, <1>3, <1>4, <1>6, ValuesTail, ValuesSeq DEF Cut
  <2>2. QED
    BY <1>1, <1>4, <2>1 DEF Bounded!Step, Bounded!Next, Bounded!Drop
<1>7. QED
  BY <1>5, <1>6

LEMMA StepOfTake ==
  ASSUME NEW S, Inv(S), Fifo, HasItemIn({"chan", "busy"}), NEW c \in Chans, prog' = prog,
         NEW t \in Users, Takes(t, c)
  PROVE  Bounded(c)!Step
<1>1. Capacity(c)' = Capacity(c)
  BY DEF Capacity, Class
<1> DEFINE q == w.ch[c].store
           v == IF OneItem(Class(c)) THEN w.ch[c].data ELSE Head(q).v
<1>2. q \in Seq(Item(S)) /\ got \in [Chans -> Seq(Value)]
  BY DEF Inv, Typed, World, Channel
<1>3. Values(c) = VSeq(q) /\ Values(c)' = VSeq(w'.ch[c].store)
  BY DEF Values, VSeq
<1>4. w'.ch[c].store = Cut(q) /\ got'[c] = Append(got[c], v)
  BY <1>2 DEF Takes, Took, StoreIs
<1>5. q # <<>>
  BY DEF Takes, Took, HasItemIn, OneItem
<1>6. v = Head(q).v
  <2>1. CASE OneItem(Class(c))
    BY <1>5, <2>1 DEF Fifo, OneFits
  <2>2. QED
    BY <2>1
<1> HIDE DEF q, v
<1>7. Values(c)' = Tail(Values(c)) /\ Values(c) # <<>> /\ v = Head(Values(c))
  BY <1>2, <1>3, <1>4, <1>5, <1>6, ValuesTail, ValuesSeq DEF Cut
<1>8. QED
  BY <1>1, <1>4, <1>7 DEF Bounded!Step, Bounded!Next, Bounded!Take

LEMMA RoomCapacity ==
  ASSUME NEW S, Inv(S), NEW c \in Chans, ~Full(Class(c), w.ch[c])
  PROVE  /\ Capacity(c) = 0 \/ Len(w.ch[c].store) < Capacity(c)
         /\ OneItem(Class(c)) => w.ch[c].store = <<>>
<1>1. Class(c).kind \in {"chan", "busy", "queue", "clock"} /\ Class(c).size \in Nat
  BY ClassOK DEF Inv
<1>2. w.ch[c].store \in Seq(Item(S))
  BY DEF Inv, Typed, World, Channel
<1>3. Len(w.ch[c].store) \in Nat /\ (w.ch[c].store = <<>> => Len(w.ch[c].store) = 0)
  BY <1>2
<1>4. CASE OneItem(Class(c))
  <2>1. Full(Class(c), w.ch[c]) = ~IsEmpty(w.ch[c])
    BY <1>4 DEF Full, OneItem
  <2>2. w.ch[c].store = <<>>
    BY <2>1 DEF IsEmpty
  <2>3. Capacity(c) = 1
    BY <1>4 DEF Capacity
  <2>4. QED
    BY <1>3, <2>2, <2>3
<1>5. CASE Class(c).kind = "queue"
  BY <1>1, <1>3, <1>5 DEF Full, OneItem, Capacity, Interlocked
<1>6. CASE Class(c).kind = "clock"
  BY <1>1, <1>3, <1>6 DEF Full, OneItem, Capacity, Interlocked
<1>7. QED
  BY <1>1, <1>4, <1>5, <1>6 DEF OneItem

LEMMA StepOfStore ==
  ASSUME NEW S, Inv(S), Fifo, NEW c \in Chans, prog' = prog, NEW t \in Users, Stores(t, c),
         WriteStore(t)
  PROVE  Bounded(c)!Step
<1>1. Capacity(c)' = Capacity(c) /\ got'[c] = got[c]
  BY DEF Capacity, Class, Stores
<1> DEFINE q == w.ch[c].store
           i == [v |-> f[t].val, at |-> now]
<1>2. q \in Seq(Item(S)) /\ i \in Item(S)
  BY WriteStoreFacts DEF Inv, Typed, World, Channel
<1>3. Values(c) = VSeq(q) /\ Values(c)' = VSeq(w'.ch[c].store)
  BY DEF Values, VSeq
<1>4. /\ Capacity(c) = 0 \/ Len(q) < Capacity(c)
      /\ OneItem(Class(c)) => q = <<>>
  BY RoomCapacity DEF Stores, Fifo, HasRoom
<1>5. w'.ch[c].store = IF OneItem(Class(c)) THEN <<i>> ELSE Append(q, i)
  BY DEF Stores, Wrote
<1> HIDE DEF q, i
<1>6. w'.ch[c].store = Append(q, i)
  BY <1>4, <1>5
<1>7. Len(Values(c)') = Len(Values(c)) + 1 /\ SubSeq(Values(c)', 1, Len(Values(c))) = Values(c)
  BY <1>2, <1>3, <1>6, ValuesAppend
<1>8. Capacity(c) = 0 \/ Len(Values(c)) < Capacity(c)
  BY <1>2, <1>3, <1>4, ValuesSeq
<1>9. QED
  BY <1>1, <1>7, <1>8 DEF Bounded!Step, Bounded!Next, Bounded!Put

LEMMA FifoRefines ==
  ASSUME NEW S, Inv(S), Fifo, HasItemIn({"chan", "busy"}), [Next]_vars, NEW c \in Chans
  PROVE  Bounded(c)!Step
<1>1. ASSUME NEW t \in Users, Run(t) PROVE Bounded(c)!Step
  <2>1. prog' = prog
    BY <1>1, RunRest
  <2>2. CASE Stores(t, c)
    <3>1. f[t].pc = "w_store"
      BY <2>2 DEF Stores
    <3>2. WriteStore(t)
      BY <1>1, <3>1 DEF Run, Start, End, DelayCall, Sleep, Sleeps, WriteNotify, WriteFull, WriteHeld,
       ReadWriter, ReadReady, ReadWoken, ReadTake, ReadReturn, Clear, ToGet, ResGet, ResClear,
       AltLock, AltScan, AltRegister, AltClear, AltGet, AltUnlock, Reflect, At
    <3>3. QED
      BY <2>1, <2>2, <3>2, StepOfStore
  <2>3. QED
    BY <1>1, <2>1, <2>2, RunItems, StepOfKept, StepOfTake, StepOfDrop
<1>2. CASE Scheduler
  BY <1>2, SchedulerIdle, StepOfKept DEF Fifo
<1>3. CASE UNCHANGED vars
  <2>1. Kept(c) /\ prog' = prog
    BY <1>3 DEF vars, Kept
  <2>2. QED
    BY <2>1, StepOfKept
<1>4. QED
  BY <1>1, <1>2, <1>3 DEF Next, Scheduler

LEMMA BoundedInit == Init => \A c \in Chans : Bounded(c)!Init
<1>1. SUFFICES ASSUME Init, NEW c \in Chans PROVE Bounded(c)!Init
  OBVIOUS
<1>2. PICK S : Inv(S)
  BY <1>1, InvInit
<1>3. Capacity(c) \in Nat
  BY <1>2, ClassOK DEF Capacity, Inv
<1>4. Values(c) = <<>> /\ got[c] = <<>>
  BY <1>1 DEF Init, Values, Fresh
<1>5. QED
  BY <1>3, <1>4 DEF Bounded!Init

-----------------------------------------------------------------------------
(***************************************************************************)
(* Programs that keep to the rules of the classes.  Sound is the inductive *)
(* invariant: what a thread does is in its menu (Does), what the running   *)
(* thread has found out still holds when it uses it (Found), the threads   *)
(* that do not run are registered with the ports they wait for, once and   *)
(* nowhere else (Settled), and a reader that does not look again when it   *)
(* is woken finds an item (Served).                                        *)
(***************************************************************************)

(* The ports an alt block goes through, the ones behind it and the ones to *)
(* come.                                                                   *)
Order(x) == IF x.op.op = "alt" THEN Reverse(x.op.ports) ELSE x.op.ports
Behind(x) == {Order(x)[i] : i \in {j \in 1..Len(Order(x)) : j < x.idx}}
Ahead(x) == {Order(x)[i] : i \in {j \in 1..Len(Order(x)) : j >= x.idx}}

(* The ports a thread may be registered with, from where it stands.        *)
Held(x) == IF x.pc \in {"r_sleep", "r_woken"} THEN {x.ch}
           ELSE IF x.pc \in {"a_sleep", "a_relock"} THEN ToSet(x.op.ports)
           ELSE IF x.pc = "a_register" THEN Behind(x)
           ELSE IF x.pc = "a_clear" THEN Ahead(x)
           ELSE {}

(* Thread u is registered with port p.                                     *)
Owes(p, u) == \/ p \in Chans /\ u \in w.ch[p].readers
              \/ p \in Timeouts /\ w.to[p].readt = u
              \/ p \in Results /\ w.res[p].rt = u

(* What a thread does is a call of its menu.                               *)
Doing(t) ==
  /\ f[t].pc # "idle" => f[t].op \in prog.menu[t]
  /\ f[t].pc \in ReadPcs => f[t].ch \in ReadsFrom(f[t].op)
  /\ f[t].pc \in {"clear", "clear_ready"} => f[t].ch \in Empties(f[t].op)
  /\ f[t].pc = "to_get" => f[t].ret = "a_unlock"
  /\ f[t].pc = "res_read" => f[t].ret = "idle"
Does == \A t \in Users : Doing(t)

(* What the running thread has found out and not yet used.                 *)
FoundBy(t) ==
  /\ f[t].pc = "a_get" => PortReady(Port(t))
  /\ f[t].pc = "to_get" => w.to[f[t].ch].ready = TRUE
  /\ f[t].pc = "res_get" /\ f[t].ret # "idle" => w.st[ResThread[f[t].ch]] = "done"
  /\ f[t].pc = "r_sleep" => t \in w.ch[f[t].ch].readers
  /\ f[t].pc = "w_again" => w.ch[f[t].ch].store # <<>>
  /\ f[t].pc = "r_take" => w.ch[f[t].ch].store # <<>>
Found == \A t \in Users : FoundBy(t)

(* Where the threads that do not run are.                                  *)
Waits == {"idle", "w_full", "w_held", "r_woken", "a_relock"}
StandsBy(u) ==
  /\ f[u].pc \in Waits
  /\ f[u].pc = "a_relock" => w.st[u] \in {"sleep", "ready"}
  /\ f[u].pc = "r_woken" => w.st[u] \in {"ready", WakesFrom(f[u].ch)}
Stands == \A u \in Users : u # cur => StandsBy(u)

(* Whoever is registered with a port, on the list of a thread's waiters or *)
(* of a channel's writers is where it waits for that.                      *)
Registers == \A p \in Ports, u \in Users : Owes(p, u) => p \in Held(f[u])
TimersHeld == \A o \in Timeouts : w.to[o].writet = TRUE => \E u \in Users : o \in Held(f[u])
AwaitsEnd(u, x) == \/ w.st[u] = "sleep" /\ f[u].pc = "idle"
                   \/ \E p \in Results : ResThread[p] = x /\ w.res[p].rt = u
WaitersHeld == \A u, x \in Users : Holds(w.waiters[x], u) => AwaitsEnd(u, x)
WaitersOnce ==
  /\ \A x \in Users : NoRepeat(w.waiters[x])
  /\ \A u, x, y \in Users :
       f[u].pc = "idle" /\ Holds(w.waiters[x], u) /\ Holds(w.waiters[y], u) => x = y
AwaitsRoom(u, c) == /\ f[u].ch = c
                    /\ \/ f[u].pc \in {"w_sleep", "held_sleep"}
                       \/ f[u].pc \in {"w_full", "w_held"} /\ w.st[u] = "sleep"
WritersHeld == \A c \in Chans, u \in Users : Holds(w.ch[c].writers, u) => AwaitsRoom(u, c)
WritersOnce == \A c \in Chans : NoRepeat(w.ch[c].writers)

(* A reader that does not deregister itself sleeps while it is registered, *)
(* and one that takes it that there is data is right.                      *)
Trusts(k) == k.kind \in {"queue", "busy"} \/ (k.kind = "clock" /\ ~k.multi)
AsleepBy(u) ==
  f[u].pc = "r_woken" /\ Trusts(Class(f[u].ch)) /\ u \in w.ch[f[u].ch].readers =>
    w.st[u] \in {"sleep", "busy"}
AsleepHeld == \A u \in Users : AsleepBy(u)
Supplied(c) == \/ w.ch[c].store # <<>>
               \/ cur \in Users /\ f[cur].pc \in {"w_full", "w_store"} /\ f[cur].ch = c
ServedBy(u) ==
  f[u].pc = "r_woken" /\ ~LooksAgain(Class(f[u].ch)) /\ u \notin w.ch[f[u].ch].readers =>
    Supplied(f[u].ch)
Served == \A u \in Users : ServedBy(u)

Settled == /\ Stands /\ Registers /\ TimersHeld /\ WaitersHeld /\ WaitersOnce
           /\ WritersHeld /\ WritersOnce /\ AsleepHeld

-----------------------------------------------------------------------------
(* Where Goto leads from each place.                                       *)
Edge(x, p) ==
  \/ x.pc = "delay" /\ p = "idle"
  \/ x.pc = "w_sleep" /\ p = "w_full"
  \/ x.pc = "held_sleep" /\ p = "w_held"
  \/ x.pc = "r_sleep" /\ p = "r_woken"
  \/ x.pc = "a_sleep" /\ p = "a_relock"
  \/ x.pc = "w_notify" /\ p = "w_full"
  \/ x.pc = "w_again" /\ p \in {"w_held", x.ret}
  \/ x.pc = "w_full" /\ p \in {"w_sleep", "w_store"}
  \/ x.pc = "w_store" /\ p = "w_again"
  \/ x.pc = "w_held" /\ p \in {"held_sleep", x.ret}
  \/ x.pc = "r_writer" /\ p = "r_ready"
  \/ x.pc = "r_ready" /\ p \in {"r_take", "r_sleep"}
  \/ x.pc = "r_woken" /\ p \in {"r_ready", "r_take"}
  \/ x.pc = "r_take" /\ p = "r_again"
  \/ x.pc \in {"r_again", "clear", "clear_ready", "to_get", "res_get", "res_read"} /\ p = x.ret
  \/ x.pc = "res_clear" /\ p = "idle"
  \/ x.pc = "a_unlock" /\ p = "idle"
  \/ x.pc = "a_scan" /\ p = "a_get"
  \/ x.pc = "a_register" /\ p = "a_sleep"

(* The ways of thread t: along an edge, or with a change of its frame.     *)
Ways(t) ==
  \/ \E p : Edge(f[t], p) /\ Went(t, p) /\ (f[t].pc = "a_register" => AtEnd(t))
  \/ End(t) /\ f' = f
  \/ ReadTake(t) /\ f' = f
  \/ \E o \in prog.menu[t] : Start(t, o) /\ NewFrame(t, Entry(o), o.ch, o, 1, "idle")
  \/ f[t].pc = "a_lock" /\ NewFrame(t, "a_scan", f[t].ch, f[t].op, 1, f[t].ret)
  \/ f[t].pc = "a_relock" /\ NewFrame(t, "a_clear", f[t].ch, f[t].op, 1, f[t].ret)
  \/ /\ f[t].pc = "a_scan" /\ AtEnd(t)
     /\ \/ NewFrame(t, "a_unlock", f[t].ch, f[t].op, 1, f[t].ret)
        \/ NewFrame(t, "a_register", f[t].ch, f[t].op, 1, f[t].ret)
  \/ /\ f[t].pc \in {"a_scan", "a_register", "a_clear"} /\ ~AtEnd(t)
     /\ NewFrame(t, f[t].pc, f[t].ch, f[t].op, f[t].idx + 1, f[t].ret)
  \/ f[t].pc = "a_clear" /\ AtEnd(t) /\ NewFrame(t, "a_scan", f[t].ch, f[t].op, 1, f[t].ret)
  \/ /\ AltGet(t) /\ Port(t) \in PortsOf(t)
     /\ \E p : /\ NewFrame(t, p, Port(t), f[t].op, f[t].idx, "a_unlock")
               /\ \/ Port(t) \in Chans /\ p = "r_writer"
                  \/ Port(t) \in Timeouts /\ p = "to_get"
                  \/ Port(t) \in Results /\ p = "res_get"
  \/ /\ f[t].pc \in {"reflect", "b_next"}
     /\ \/ NewFrame(t, "r_writer", f[t].op.ch, f[t].op, 1, "b_next")
        \/ NewFrame(t, "w_notify", Sink(t), f[t].op, f[t].idx + 1, f[t].ret)

LEMMA RunWays ==
  ASSUME NEW S, Inv(S), NEW t \in Users, Run(t)
  PROVE  Ways(t)
<1>0. FramesOK(S, f)
  BY DEF Inv, Typed, FramesOK
<1>1. ASSUME NEW p, Goto(t, p), Edge(f[t], p), f[t].pc # "a_register" PROVE Ways(t)
  BY <1>0, <1>1, GotoFacts DEF Ways
<1>2. CASE DelayCall(t) \/ Sleep(t) \/ WriteStore(t) \/ ReadWriter(t) \/ ResClear(t) \/ AltUnlock(t)
  <2>1. \/ f[t].pc = "delay" /\ Goto(t, "idle")
        \/ f[t].pc = "w_sleep" /\ Goto(t, "w_full")
        \/ f[t].pc = "held_sleep" /\ Goto(t, "w_held")
        \/ f[t].pc = "r_sleep" /\ Goto(t, "r_woken")
        \/ f[t].pc = "a_sleep" /\ Goto(t, "a_relock")
        \/ f[t].pc = "w_store" /\ Goto(t, "w_again")
        \/ f[t].pc = "r_writer" /\ Goto(t, "r_ready")
        \/ f[t].pc = "res_clear" /\ Goto(t, "idle")
        \/ f[t].pc = "a_unlock" /\ Goto(t, "idle")
    BY <1>2 DEF DelayCall, Sleep, WriteStore, ReadWriter, ResClear, AltUnlock, At, Sleeps, Woken
  <2>2. QED
    BY <1>1, <2>1 DEF Edge
<1>3. CASE WriteNotify(t) \/ WriteFull(t) \/ WriteHeld(t) \/ ReadReady(t) \/ ReadWoken(t)
  <2>1. \/ f[t].pc = "w_notify" /\ Goto(t, "w_full")
        \/ f[t].pc = "w_again" /\ (Goto(t, "w_held") \/ Goto(t, f[t].ret))
        \/ f[t].pc = "w_full" /\ (Goto(t, "w_sleep") \/ Goto(t, "w_store"))
        \/ f[t].pc = "w_held" /\ (Goto(t, "held_sleep") \/ Goto(t, f[t].ret))
        \/ f[t].pc = "r_ready" /\ (Goto(t, "r_take") \/ Goto(t, "r_sleep"))
        \/ f[t].pc = "r_woken" /\ (Goto(t, "r_ready") \/ Goto(t, "r_take"))
    BY <1>3 DEF WriteNotify, WriteFull, WriteHeld, ReadReady, ReadWoken, At
  <2>2. QED
    BY <1>1, <2>1 DEF Edge
<1>4. CASE Clear(t) \/ ToGet(t) \/ ResGet(t)
  <2>1. /\ f[t].pc \in {"r_again", "clear", "clear_ready", "to_get", "res_get", "res_read"}
        /\ Goto(t, f[t].ret)
    BY <1>4 DEF Clear, ToGet, ResGet, At
  <2>2. QED
    BY <1>1, <2>1 DEF Edge
<1>5. CASE ReadTake(t) \/ ReadReturn(t)
  <2>1. ReadTake(t) => f[t].pc = "r_take"
    BY DEF ReadTake, At
  <2>2. ReadReturn(t) => f[t].pc = "r_again"
    BY DEF ReadReturn, At
  <2>3. QED
    BY <1>5, <2>1, <2>2, TakeMoves DEF Ways, Edge
<1>6. CASE \E o \in prog.menu[t] : Start(t, o)
  BY <1>6, StartFacts DEF Ways
<1>7. CASE End(t)
  BY <1>7 DEF End, Ways
<1>8. CASE AltLock(t)
  BY <1>8, AltMoves DEF Ways
<1>9. CASE AltScan(t)
  <2>1. f[t].pc = "a_scan"
    BY <1>9 DEF AltScan, At
  <2>2. QED
    BY <1>9, <2>1, AltMoves DEF Ways, Edge
<1>10. CASE AltRegister(t)
  <2>1. f[t].pc = "a_register"
    BY <1>10 DEF AltRegister, At
  <2>2. QED
    BY <1>10, <2>1, AltMoves DEF Ways, Edge
<1>11. CASE AltClear(t)
  <2>1. f[t].pc = "a_clear"
    BY <1>11 DEF AltClear, At
  <2>2. QED
    BY <1>11, <2>1, AltMoves DEF Ways
<1>12. CASE AltGet(t)
  BY <1>12, AltGetMoves DEF Ways
<1>13. CASE Reflect(t)
  <2>1. f[t].pc \in {"reflect", "b_next"}
    BY <1>13 DEF Reflect, At
  <2>2. QED
    BY <1>13, <2>1, ReflectMoves DEF Ways
<1>14. QED
  BY <1>2, <1>3, <1>4, <1>5, <1>6, <1>7, <1>8, <1>9, <1>10, <1>11, <1>12, <1>13 DEF Run

-----------------------------------------------------------------------------
(* Lists of threads.                                                       *)
LEMMA ListFacts ==
  ASSUME NEW U, NEW q \in Seq(U)
  PROVE  /\ \A u : ~Holds(<<>>, u)
         /\ \A u : u \in ToSet(q) <=> Holds(q, u)
         /\ q # <<>> => Holds(q, Head(q))
         /\ q # <<>> /\ NoRepeat(q) => NoRepeat(Tail(q)) /\ ~Holds(Tail(q), Head(q))
         /\ q # <<>> => \A u : Holds(Tail(q), u) => Holds(q, u)
<1>1. \A u : ~Holds(<<>>, u)
  BY DEF Holds
<1>2. \A u : u \in ToSet(q) <=> Holds(q, u)
  BY DEF Holds, ToSet
<1>3. ASSUME q # <<>>
      PROVE  /\ Holds(q, Head(q)) /\ \A u : Holds(Tail(q), u) => Holds(q, u)
             /\ NoRepeat(q) => NoRepeat(Tail(q)) /\ ~Holds(Tail(q), Head(q))
  <2>1. /\ Len(q) \in Nat /\ Len(q) >= 1 /\ Head(q) = q[1] /\ Len(Tail(q)) = Len(q) - 1
        /\ \A i \in 1..Len(Tail(q)) : Tail(q)[i] = q[i + 1]
    BY <1>3
  <2> DEFINE r == Tail(q)
             n == Len(q)
             e == Head(q)
  <2>2. n \in Nat /\ n >= 1 /\ e = q[1] /\ Len(r) = n - 1 /\ \A i \in 1..(n - 1) : r[i] = q[i + 1]
    BY <2>1
  <2> HIDE DEF r, e
  <2>3. Holds(q, e) /\ \A u : Holds(r, u) => Holds(q, u)
    <3>1. 1 \in 1..n /\ \A i \in 1..(n - 1) : i + 1 \in 1..n
      BY <2>2
    <3>2. QED
      BY <2>2, <3>1 DEF Holds
  <2>4. ASSUME NoRepeat(q) PROVE NoRepeat(r) /\ ~Holds(r, e)
    BY <2>2, <2>4 DEF NoRepeat, Holds
  <2>5. QED
    BY <2>3, <2>4 DEF r, e
<1>4. QED
  BY <1>1, <1>2, <1>3

LEMMA GrownFacts ==
  ASSUME NEW U, NEW q \in Seq(U), NEW e \in U
  PROVE  /\ \A u : Holds(Append(q, e), u) <=> Holds(q, u) \/ u = e
         /\ \A u : Holds(<<e>> \o q, u) <=> Holds(q, u) \/ u = e
         /\ NoRepeat(q) /\ ~Holds(q, e) => NoRepeat(Append(q, e)) /\ NoRepeat(<<e>> \o q)
<1> DEFINE r == Append(q, e)
           z == <<e>> \o q
           n == Len(q)
<1>1. n \in Nat /\ Len(r) = n + 1 /\ r[n + 1] = e /\ \A i \in 1..n : r[i] = q[i]
  OBVIOUS
<1>2. Len(z) = n + 1 /\ z[1] = e /\ \A i \in 1..n : z[i + 1] = q[i]
  OBVIOUS
<1> HIDE DEF r, z
<1>3. \A u : Holds(r, u) <=> Holds(q, u) \/ u = e
  <2>1. n + 1 \in 1..(n + 1) /\ \A i \in 1..n : i \in 1..(n + 1)
    BY <1>1
  <2>2. \A i \in 1..(n + 1) : i = n + 1 \/ i \in 1..n
    BY <1>1
  <2>3. QED
    BY <1>1, <2>1, <2>2 DEF Holds
<1>4. \A u : Holds(z, u) <=> Holds(q, u) \/ u = e
  <2>1. 1 \in 1..(n + 1) /\ \A i \in 1..n : i + 1 \in 1..(n + 1)
    BY <1>1
  <2>2. \A i \in 1..(n + 1) : i = 1 \/ (i - 1 \in 1..n /\ z[i] = q[i - 1])
    BY <1>1, <1>2
  <2>3. QED
    BY <1>1, <1>2, <2>1, <2>2 DEF Holds
<1>5. ASSUME NoRepeat(q), ~Holds(q, e) PROVE NoRepeat(r)
  <2>1. \A i \in 1..(n + 1) : (i = n + 1 /\ r[i] = e) \/ (i \in 1..n /\ r[i] = q[i] /\ r[i] # e)
    BY <1>1, <1>5 DEF Holds
  <2>2. QED
    BY <1>1, <1>5, <2>1 DEF NoRepeat
<1>6. ASSUME NoRepeat(q), ~Holds(q, e) PROVE NoRepeat(z)
  <2>1. \A i \in 1..(n + 1) : (i = 1 /\ z[i] = e) \/ (i - 1 \in 1..n /\ z[i] = q[i - 1] /\ z[i] # e)
    BY <1>1, <1>2, <1>6 DEF Holds
  <2>2. SUFFICES ASSUME NEW i \in 1..(n + 1), NEW j \in 1..(n + 1), z[i] = z[j] PROVE i = j
    BY <1>2 DEF NoRepeat
  <2>3. CASE i = 1 \/ j = 1
    BY <1>2, <2>1, <2>2, <2>3
  <2>4. CASE i # 1 /\ j # 1
    <3>1. i - 1 \in 1..n /\ j - 1 \in 1..n /\ q[i - 1] = q[j - 1]
      BY <2>1, <2>2, <2>4
    <3>2. i - 1 = j - 1
      BY <1>6, <3>1 DEF NoRepeat
    <3>3. QED
      BY <3>2
  <2>5. QED
    BY <2>3, <2>4
<1>7. QED
  BY <1>3, <1>4, <1>5, <1>6 DEF r, z

-----------------------------------------------------------------------------
(* What a step by thread t, or by none of the users, does to the others:   *)
(* they do not move, and who is made ready was waiting for it.             *)
Others(t) == \A u \in Users \ {t} : f'[u] = f[u]
Alone(t) == \A u \in Users \ {t} : u # cur
Cause(t, u) ==
  \/ w.st[u] = "delay"
  \/ \E c \in Chans : u \in w.ch[c].readers /\ u \notin w'.ch[c].readers
  \/ \E c \in Chans : /\ w.ch[c].writers # <<>> /\ u = Head(w.ch[c].writers)
                      /\ w'.ch[c].writers = Tail(w.ch[c].writers)
  \/ t \in Users /\ Holds(w.waiters[t], u) /\ w'.waiters[t] = <<>>
  \/ \E o \in Timeouts : w.to[o].readt = u
Rouses(t) == \A u \in Users \ {t} : \/ w'.st[u] = w.st[u]
                                    \/ w'.st[u] = "ready" /\ Cause(t, u)
(* Only t registers.                                                       *)
Enrols(t) == /\ \A p \in Ports, u \in Users \ {t} : Owes(p, u)' => Owes(p, u)
             /\ \A p \in Ports : t \in Users /\ Owes(p, t)' => p \in Held(f'[t])
Timing(t) == \A o \in Timeouts : w'.to[o].writet = TRUE =>
               \/ t \in Users /\ o \in Held(f'[t])
               \/ w.to[o].writet = TRUE /\ (t \in Users => o \notin Held(f[t]))
Lists(t) ==
  /\ \A x \in Users : NoRepeat(w'.waiters[x])
  /\ \A x, u \in Users : Holds(w'.waiters[x], u) =>
       \/ /\ Holds(w.waiters[x], u)
          /\ \A p \in Results : ResThread[p] = x /\ w.res[p].rt = u => w'.res[p].rt = u
       \/ u = t /\ AwaitsEnd(t, x)'
Lines(t) ==
  /\ \A c \in Chans : NoRepeat(w'.ch[c].writers)
  /\ \A c \in Chans, u \in Users \ {t} : Holds(w'.ch[c].writers, u) => Holds(w.ch[c].writers, u)
(* The thread itself: where it stops, and what it is entered in.           *)
Itself(t) ==
  t \in Users =>
    /\ w.st[t] # "sleep"
    /\ cur' # t => StandsBy(t)'
    /\ AsleepBy(t)'
    /\ \A c \in Chans : Holds(w'.ch[c].writers, t) => AwaitsRoom(t, c)'
    /\ f'[t].pc = "idle" =>
         \A x, y \in Users : Holds(w'.waiters[x], t) /\ Holds(w'.waiters[y], t) => x = y

Roused(t, u) ==
  \/ w.st[u] = "delay"
  \/ \E c \in Chans : c \in Held(f[u]) /\ u \notin w'.ch[c].readers
  \/ \E p \in Ports \ Chans : p \in Held(f[u])
  \/ t \in Users /\ f[u].pc = "idle" /\ Holds(w.waiters[t], u) /\ w'.waiters[t] = <<>>
  \/ \E c \in Chans : AwaitsRoom(u, c) /\ ~Holds(w'.ch[c].writers, u)

LEMMA CauseHeld ==
  ASSUME NEW S, Inv(S), Settled, NEW t, NEW u \in Users, Cause(t, u)
  PROVE  Roused(t, u)
<1>0. w \in World(S) /\ Registers /\ WaitersHeld /\ WritersHeld /\ WritersOnce
  BY DEF Inv, Typed, Settled
<1>1. CASE w.st[u] = "delay"
  BY <1>1 DEF Roused
<1>2. ASSUME NEW c \in Chans, u \in w.ch[c].readers, u \notin w'.ch[c].readers PROVE Roused(t, u)
  <2>1. c \in Held(f[u])
    BY <1>0, <1>2 DEF Registers, Owes, Ports
  <2>2. QED
    BY <1>2, <2>1 DEF Roused
<1>3. ASSUME NEW c \in Chans, w.ch[c].writers # <<>>, u = Head(w.ch[c].writers),
             w'.ch[c].writers = Tail(w.ch[c].writers)
      PROVE  Roused(t, u)
  <2>1. w.ch[c].writers \in Seq(Users) /\ NoRepeat(w.ch[c].writers)
    BY <1>0 DEF World, Channel, WritersOnce
  <2>2. Holds(w.ch[c].writers, u) /\ ~Holds(w'.ch[c].writers, u)
    BY <1>3, <2>1, ListFacts
  <2>3. QED
    BY <1>0, <2>2 DEF WritersHeld, Roused
<1>4. CASE t \in Users /\ Holds(w.waiters[t], u) /\ w'.waiters[t] = <<>>
  <2>1. AwaitsEnd(u, t)
    BY <1>0, <1>4 DEF WaitersHeld
  <2>2. CASE f[u].pc = "idle"
    BY <1>4, <2>2 DEF Roused
  <2>3. ASSUME NEW p \in Results, w.res[p].rt = u PROVE Roused(t, u)
    <3>1. p \in Ports \ Chans
      BY DistinctObjects DEF Ports
    <3>2. p \in Held(f[u])
      BY <1>0, <2>3, <3>1 DEF Registers, Owes
    <3>3. QED
      BY <3>1, <3>2 DEF Roused
  <2>4. QED
    BY <2>1, <2>2, <2>3 DEF AwaitsEnd
<1>5. ASSUME NEW o \in Timeouts, w.to[o].readt = u PROVE Roused(t, u)
  <2>1. o \in Ports \ Chans
    BY DistinctObjects DEF Ports
  <2>2. o \in Held(f[u])
    BY <1>0, <1>5, <2>1 DEF Registers, Owes
  <2>3. QED
    BY <2>1, <2>2 DEF Roused
<1>6. QED
  BY <1>1, <1>2, <1>3, <1>4, <1>5 DEF Cause

LEMMA StandsStep ==
  ASSUME Stands, prog' = prog, NEW t, Others(t), Alone(t), Rouses(t), Itself(t)
  PROVE  Stands'
<1>1. SUFFICES ASSUME NEW u \in Users, u # cur' PROVE StandsBy(u)'
  BY DEF Stands
<1>2. CASE u = t
  BY <1>1, <1>2 DEF Itself
<1>3. CASE u # t
  <2>1. f'[u] = f[u] /\ StandsBy(u) /\ (w'.st[u] = w.st[u] \/ w'.st[u] = "ready")
    BY <1>1, <1>3 DEF Stands, Others, Alone, Rouses
  <2>2. QED
    BY <2>1 DEF StandsBy, WakesFrom, Class
<1>4. QED
  BY <1>2, <1>3

LEMMA RegistersStep ==
  ASSUME Registers, TimersHeld, NEW t, Others(t), Enrols(t), Timing(t)
  PROVE  Registers' /\ TimersHeld'
<1>1. Registers'
  <2>1. SUFFICES ASSUME NEW p \in Ports, NEW u \in Users, Owes(p, u)' PROVE p \in Held(f'[u])
    BY DEF Registers
  <2>2. QED
    BY <2>1 DEF Registers, Others, Enrols
<1>2. TimersHeld'
  <2>1. SUFFICES ASSUME NEW o \in Timeouts, w'.to[o].writet = TRUE
                 PROVE  \E u \in Users : o \in Held(f'[u])
    BY DEF TimersHeld
  <2>2. CASE t \in Users /\ o \in Held(f'[t])
    BY <2>2
  <2>3. CASE w.to[o].writet = TRUE /\ (t \in Users => o \notin Held(f[t]))
    <3>1. PICK u \in Users : o \in Held(f[u])
      BY <2>3 DEF TimersHeld
    <3>2. u # t
      BY <2>3, <3>1
    <3>3. QED
      BY <3>1, <3>2 DEF Others
  <2>4. QED
    BY <2>1, <2>2, <2>3 DEF Timing
<1>3. QED
  BY <1>1, <1>2

LEMMA WaitersStep ==
  ASSUME NEW S, Inv(S), Settled, NEW t, Others(t), Rouses(t), Lists(t), Itself(t)
  PROVE  WaitersHeld' /\ WaitersOnce'
<1>0. WaitersHeld /\ WaitersOnce /\ w \in World(S)
  BY DEF Settled, Inv, Typed
<1>1. WaitersHeld'
  <2>1. SUFFICES ASSUME NEW u \in Users, NEW x \in Users, Holds(w'.waiters[x], u)
                 PROVE  AwaitsEnd(u, x)'
    BY DEF WaitersHeld
  <2>2. CASE u = t /\ AwaitsEnd(t, x)'
    BY <2>2
  <2>3. CASE /\ Holds(w.waiters[x], u)
             /\ \A p \in Results : ResThread[p] = x /\ w.res[p].rt = u => w'.res[p].rt = u
    <3>1. AwaitsEnd(u, x)
      BY <1>0, <2>3 DEF WaitersHeld
    <3>2. CASE \E p \in Results : ResThread[p] = x /\ w.res[p].rt = u
      BY <2>3, <3>2 DEF AwaitsEnd
    <3>3. CASE w.st[u] = "sleep" /\ f[u].pc = "idle"
      <4>1. u # t /\ f'[u] = f[u]
        BY <3>3 DEF Itself, Others
      <4>2. CASE w'.st[u] = w.st[u]
        BY <3>3, <4>1, <4>2 DEF AwaitsEnd
      <4>3. CASE Cause(t, u)
        <5>1. Roused(t, u) /\ Held(f[u]) = {} /\ \A c \in Chans : ~AwaitsRoom(u, c)
          BY <3>3, <4>3, CauseHeld DEF Held, AwaitsRoom
        <5>2. t \in Users /\ Holds(w.waiters[t], u) /\ w'.waiters[t] = <<>>
          BY <3>3, <5>1 DEF Roused
        <5>3. x = t
          BY <1>0, <2>3, <3>3, <5>2 DEF WaitersOnce
        <5>4. QED
          BY <2>1, <5>2, <5>3 DEF Holds
      <4>4. QED
        BY <4>1, <4>2, <4>3 DEF Rouses
    <3>4. QED
      BY <3>1, <3>2, <3>3 DEF AwaitsEnd
  <2>4. QED
    BY <2>1, <2>2, <2>3 DEF Lists
<1>2. WaitersOnce'
  <2>1. SUFFICES ASSUME NEW u \in Users, NEW x \in Users, NEW y \in Users, f'[u].pc = "idle",
                        Holds(w'.waiters[x], u), Holds(w'.waiters[y], u)
                 PROVE  x = y
    BY DEF WaitersOnce, Lists
  <2>2. CASE u = t
    BY <2>1, <2>2 DEF Itself
  <2>3. CASE u # t
    <3>1. f'[u] = f[u] /\ Holds(w.waiters[x], u) /\ Holds(w.waiters[y], u)
      BY <2>1, <2>3 DEF Others, Lists
    <3>2. QED
      BY <1>0, <2>1, <3>1 DEF WaitersOnce
  <2>4. QED
    BY <2>2, <2>3
<1>3. QED
  BY <1>1, <1>2

LEMMA WritersStep ==
  ASSUME NEW S, Inv(S), Settled, NEW t, Others(t), Rouses(t), Lines(t), Itself(t)
  PROVE  WritersHeld' /\ WritersOnce'
<1>0. WritersHeld
  BY DEF Settled
<1>1. WritersOnce'
  BY DEF WritersOnce, Lines
<1>2. SUFFICES ASSUME NEW c \in Chans, NEW u \in Users, Holds(w'.ch[c].writers, u)
               PROVE  AwaitsRoom(u, c)'
  BY <1>1 DEF WritersHeld
<1>3. CASE u = t
  BY <1>2, <1>3 DEF Itself
<1>4. CASE u # t
  <2>1. f'[u] = f[u] /\ AwaitsRoom(u, c)
    BY <1>0, <1>2, <1>4 DEF Others, Lines, WritersHeld
  <2>2. CASE w'.st[u] = w.st[u] \/ w.st[u] # "sleep"
    BY <2>1, <2>2 DEF AwaitsRoom
  <2>3. CASE Cause(t, u) /\ w.st[u] = "sleep"
    <3>1. Roused(t, u) /\ Held(f[u]) = {} /\ f[u].pc # "idle"
      BY <2>1, <2>3, CauseHeld DEF Held, AwaitsRoom
    <3>2. PICK d \in Chans : AwaitsRoom(u, d) /\ ~Holds(w'.ch[d].writers, u)
      BY <2>3, <3>1 DEF Roused
    <3>3. d = c
      BY <2>1, <3>2 DEF AwaitsRoom
    <3>4. QED
      BY <1>2, <3>2, <3>3
  <2>4. QED
    BY <1>4, <2>2, <2>3 DEF Rouses
<1>5. QED
  BY <1>3, <1>4

LEMMA AsleepStep ==
  ASSUME NEW S, Inv(S), Settled, prog' = prog, NEW t, Others(t), Rouses(t), Enrols(t), Itself(t)
  PROVE  AsleepHeld'
<1>1. SUFFICES ASSUME NEW u \in Users PROVE AsleepBy(u)'
  BY DEF AsleepHeld
<1>2. CASE u = t
  BY <1>2 DEF Itself
<1>3. CASE u # t
  <2>1. f'[u] = f[u]
    BY <1>3 DEF Others
  <2>2. SUFFICES ASSUME f[u].pc = "r_woken", Trusts(Class(f[u].ch)), u \in w'.ch[f[u].ch].readers
                 PROVE  w'.st[u] \in {"sleep", "busy"}
    BY <2>1 DEF AsleepBy, Class
  <2>3. PICK c \in Chans : c = f[u].ch
    BY <2>2 DEF Inv, Typed, FrameFits, ReadPcs
  <2>4. c \in Ports /\ Owes(c, u)'
    BY <2>2, <2>3 DEF Owes, Ports
  <2>5. u \in w.ch[c].readers
    BY <1>3, <2>4, DistinctObjects DEF Enrols, Owes
  <2>6. w.st[u] \in {"sleep", "busy"}
    BY <2>2, <2>3, <2>5 DEF Settled, AsleepHeld, AsleepBy
  <2>7. ASSUME Cause(t, u) PROVE FALSE
    <3>1. Roused(t, u) /\ Held(f[u]) = {c} /\ \A d \in Chans : ~AwaitsRoom(u, d)
      BY <2>2, <2>3, <2>7, CauseHeld DEF Held, AwaitsRoom
    <3>2. QED
      BY <2>2, <2>3, <2>6, <3>1 DEF Roused
  <2>8. QED
    BY <1>3, <2>6, <2>7 DEF Rouses
<1>4. QED
  BY <1>2, <1>3

(* A step with these effects leaves every thread where it waits.           *)
StepOK(t) == /\ Others(t) /\ Alone(t) /\ Rouses(t) /\ Enrols(t) /\ Timing(t) /\ Lists(t)
             /\ Lines(t) /\ Itself(t)
LEMMA SettledStep ==
  ASSUME NEW S, Inv(S), Settled, prog' = prog, NEW t, StepOK(t)
  PROVE  Settled'
<1>1. Stands' /\ Registers' /\ TimersHeld'
  BY StandsStep, RegistersStep DEF StepOK, Settled
<1>2. WaitersHeld' /\ WaitersOnce'
  BY WaitersStep DEF StepOK
<1>3. WritersHeld' /\ WritersOnce'
  BY WritersStep DEF StepOK
<1>4. AsleepHeld'
  BY AsleepStep DEF StepOK
<1>5. QED
  BY <1>1, <1>2, <1>3, <1>4 DEF Settled

-----------------------------------------------------------------------------
(* The ports a thread is registered with change by one at a time.          *)
LEMMA OrderFacts ==
  ASSUME NEW t \in Users, f[t].op \in Calls
  PROVE  /\ AltPorts(t) \in Seq(Ports) /\ PortsOf(t) = {AltPorts(t)[i] : i \in 1..Len(AltPorts(t))}
         /\ IsInjective(f[t].op.ports) => NoRepeat(AltPorts(t))
<1>1. PICK q \in Seq(Ports) : q = f[t].op.ports
  BY DEF Calls
<1>2. /\ AltPorts(t) \in Seq(Ports) /\ PortsOf(t) = {AltPorts(t)[i] : i \in 1..Len(AltPorts(t))}
  BY AltPortsFacts
<1>3. ASSUME IsInjective(q) PROVE NoRepeat(AltPorts(t))
  <2>1. Len(q) \in Nat /\ \A i, j \in 1..Len(q) : q[i] = q[j] => i = j
    <3>1. Len(q) \in Nat /\ DOMAIN q = 1..Len(q)
      OBVIOUS
    <3>2. QED
      BY <1>3, <3>1 DEF IsInjective
  <2>2. CASE f[t].op.op = "alt"
    <3> DEFINE r == [i \in 1..Len(q) |-> q[(Len(q) - i) + 1]]
    <3>1. AltPorts(t) = r /\ Len(AltPorts(t)) = Len(q)
      BY <1>1, <2>2, AltPortsFacts DEF AltPorts, Reverse
    <3>2. SUFFICES ASSUME NEW i \in 1..Len(q), NEW j \in 1..Len(q), r[i] = r[j] PROVE i = j
      BY <3>1 DEF NoRepeat
    <3>3. (Len(q) - i) + 1 \in 1..Len(q) /\ (Len(q) - j) + 1 \in 1..Len(q)
      BY <2>1
    <3>4. (Len(q) - i) + 1 = (Len(q) - j) + 1
      BY <2>1, <3>2, <3>3
    <3>5. QED
      BY <2>1, <3>4
  <2>3. CASE f[t].op.op # "alt"
    BY <1>1, <2>1, <2>3 DEF AltPorts, NoRepeat
  <2>4. QED
    BY <2>2, <2>3
<1>4. QED
  BY <1>1, <1>2, <1>3

LEMMA HeldSets ==
  ASSUME NEW t \in Users, f[t].op \in Calls, NEW x, x.op = f[t].op, x.idx \in Nat
  PROVE  /\ x.idx = 1 => Behind(x) = {} /\ Ahead(x) = PortsOf(t)
         /\ x.idx > Len(AltPorts(t)) => Behind(x) = PortsOf(t) /\ Ahead(x) = {}
<1> DEFINE q == AltPorts(t)
<1>1. q \in Seq(Ports) /\ PortsOf(t) = {q[i] : i \in 1..Len(q)}
  BY OrderFacts
<1>2. Order(x) = q
  BY DEF Order, AltPorts
<1> HIDE DEF q
<1>3. Len(q) \in Nat
  BY <1>1
<1>4. CASE x.idx = 1
  <2>1. {j \in 1..Len(q) : j < x.idx} = {} /\ {j \in 1..Len(q) : j >= x.idx} = 1..Len(q)
    BY <1>3, <1>4
  <2>2. QED
    BY <1>1, <1>2, <1>3, <1>4, <2>1 DEF Behind, Ahead, q
<1>5. CASE x.idx > Len(q)
  <2>1. {j \in 1..Len(q) : j >= x.idx} = {} /\ {j \in 1..Len(q) : j < x.idx} = 1..Len(q)
    BY <1>3, <1>5
  <2>2. Behind(x) = PortsOf(t) /\ Ahead(x) = {}
    BY <1>1, <1>2, <2>1 DEF Behind, Ahead
  <2>3. QED
    BY <1>3, <1>5, <2>2, <1>4
<1>6. QED
  BY <1>4, <1>5 DEF q

LEMMA HeldNext ==
  ASSUME NEW t \in Users, f[t].op \in Calls, NEW x, NEW y, x.op = f[t].op, y.op = f[t].op,
         x.idx \in 1..Len(AltPorts(t)), y.idx = x.idx + 1
  PROVE  LET p == AltPorts(t)[x.idx]
         IN  /\ Behind(y) = Behind(x) \cup {p}
             /\ IsInjective(f[t].op.ports) => p \notin Behind(x) /\ Ahead(y) = Ahead(x) \ {p}
<1> DEFINE q == AltPorts(t)
           k == x.idx
<1>1. q \in Seq(Ports) /\ (IsInjective(f[t].op.ports) => NoRepeat(q))
  BY OrderFacts
<1>2. Order(x) = q /\ Order(y) = q
  BY DEF Order, AltPorts
<1>3. k \in 1..Len(q) /\ y.idx = k + 1
  OBVIOUS
<1> HIDE DEF q, k
<1>4. Len(q) \in Nat
  BY <1>1
<1>5. /\ Behind(x) = {q[i] : i \in {j \in 1..Len(q) : j < k}}
      /\ Behind(y) = {q[i] : i \in {j \in 1..Len(q) : j < k + 1}}
      /\ Ahead(x) = {q[i] : i \in {j \in 1..Len(q) : j >= k}}
      /\ Ahead(y) = {q[i] : i \in {j \in 1..Len(q) : j >= k + 1}}
  BY <1>2, <1>3 DEF Behind, Ahead, k
<1>6. /\ {j \in 1..Len(q) : j < k + 1} = {j \in 1..Len(q) : j < k} \cup {k}
      /\ {j \in 1..Len(q) : j >= k} = {j \in 1..Len(q) : j >= k + 1} \cup {k}
  BY <1>3, <1>4
<1>7. Behind(y) = Behind(x) \cup {q[k]}
  BY <1>5, <1>6
<1>8. ASSUME NoRepeat(q) PROVE q[k] \notin Behind(x) /\ Ahead(y) = Ahead(x) \ {q[k]}
  <2>1. \A i \in 1..Len(q) : q[i] = q[k] => i = k
    BY <1>3, <1>8 DEF NoRepeat
  <2>2. \A i \in {j \in 1..Len(q) : j < k} : q[i] # q[k]
    BY <1>3, <1>4, <2>1
  <2>3. \A i \in {j \in 1..Len(q) : j >= k + 1} : q[i] # q[k]
    BY <1>3, <1>4, <2>1
  <2>4. QED
    BY <1>5, <1>6, <2>2, <2>3
<1>9. QED
  BY <1>1, <1>7, <1>8 DEF q, k

HeldMove(t) ==
  \/ Held(f'[t]) = Held(f[t])
  \/ /\ f[t].pc = "r_ready" /\ f'[t].pc = "r_sleep" /\ f'[t].ch = f[t].ch
     /\ Held(f[t]) = {} /\ Held(f'[t]) = {f[t].ch}
  \/ f[t].pc = "r_woken" /\ Held(f[t]) = {f[t].ch} /\ Held(f'[t]) = {}
  \/ /\ f[t].pc = "a_register" /\ ~AtEnd(t)
     /\ Held(f'[t]) = Held(f[t]) \cup {Port(t)} /\ Port(t) \notin Held(f[t])
  \/ f[t].pc = "a_clear" /\ ~AtEnd(t) /\ Held(f'[t]) = Held(f[t]) \ {Port(t)}

LEMMA AltHeld ==
  ASSUME NEW S, Inv(S), NEW t \in Users, IsInjective(f[t].op.ports),
         \/ f[t].pc = "a_relock" /\ NewFrame(t, "a_clear", f[t].ch, f[t].op, 1, f[t].ret)
         \/ f[t].pc = "a_scan" /\ NewFrame(t, "a_register", f[t].ch, f[t].op, 1, f[t].ret)
         \/ /\ f[t].pc \in {"a_scan", "a_register", "a_clear"} /\ ~AtEnd(t)
            /\ NewFrame(t, f[t].pc, f[t].ch, f[t].op, f[t].idx + 1, f[t].ret)
         \/ /\ f[t].pc = "a_clear" /\ AtEnd(t)
            /\ NewFrame(t, "a_scan", f[t].ch, f[t].op, 1, f[t].ret)
         \/ /\ f[t].pc = "a_register" /\ AtEnd(t)
            /\ NewFrame(t, "a_sleep", f[t].ch, f[t].op, f[t].idx, f[t].ret)
  PROVE  HeldMove(t)
<1>1. f[t].op \in Calls /\ f[t].idx \in Nat /\ Typed(S)
  BY DEF Inv, Typed, FrameFits, Frame, AltPcs, PortPcs
<1>2. CASE f[t].pc = "a_relock" /\ NewFrame(t, "a_clear", f[t].ch, f[t].op, 1, f[t].ret)
  <2>1. f'[t].pc = "a_clear" /\ f'[t].op = f[t].op /\ f'[t].idx = 1
    BY <1>2 DEF NewFrame
  <2>2. Ahead(f'[t]) = PortsOf(t)
    BY <1>1, <2>1, HeldSets
  <2>3. QED
    BY <1>2, <2>1, <2>2 DEF HeldMove, Held, PortsOf
<1>3. CASE f[t].pc = "a_scan" /\ NewFrame(t, "a_register", f[t].ch, f[t].op, 1, f[t].ret)
  <2>1. f'[t].pc = "a_register" /\ f'[t].op = f[t].op /\ f'[t].idx = 1
    BY <1>3 DEF NewFrame
  <2>2. Behind(f'[t]) = {}
    BY <1>1, <2>1, HeldSets
  <2>3. QED
    BY <1>3, <2>1, <2>2 DEF HeldMove, Held
<1>4. CASE /\ f[t].pc \in {"a_scan", "a_register", "a_clear"} /\ ~AtEnd(t)
           /\ NewFrame(t, f[t].pc, f[t].ch, f[t].op, f[t].idx + 1, f[t].ret)
  <2>1. f'[t].pc = f[t].pc /\ f'[t].op = f[t].op /\ f'[t].idx = f[t].idx + 1
    BY <1>4 DEF NewFrame
  <2>2. f[t].idx \in 1..Len(AltPorts(t))
    BY <1>1, <1>4, PortKind
  <2>3. /\ Behind(f'[t]) = Behind(f[t]) \cup {Port(t)} /\ Port(t) \notin Behind(f[t])
        /\ Ahead(f'[t]) = Ahead(f[t]) \ {Port(t)}
    BY <1>1, <2>1, <2>2, HeldNext DEF Port
  <2>4. QED
    BY <1>4, <2>1, <2>3 DEF HeldMove, Held
<1>5. CASE /\ f[t].pc = "a_clear" /\ AtEnd(t)
           /\ NewFrame(t, "a_scan", f[t].ch, f[t].op, 1, f[t].ret)
  <2>1. f'[t].pc = "a_scan" /\ Ahead(f[t]) = {}
    BY <1>1, <1>5, HeldSets DEF NewFrame, AtEnd
  <2>2. QED
    BY <1>5, <2>1 DEF HeldMove, Held
<1>6. CASE /\ f[t].pc = "a_register" /\ AtEnd(t)
           /\ NewFrame(t, "a_sleep", f[t].ch, f[t].op, f[t].idx, f[t].ret)
  <2>1. f'[t].pc = "a_sleep" /\ f'[t].op = f[t].op /\ Behind(f[t]) = PortsOf(t)
    BY <1>1, <1>6, HeldSets DEF NewFrame, AtEnd
  <2>2. QED
    BY <1>6, <2>1 DEF HeldMove, Held, PortsOf
<1>7. QED
  BY <1>2, <1>3, <1>4, <1>5, <1>6

LEMMA EdgeHeld ==
  ASSUME NEW S, Inv(S), NEW t \in Users, NEW p, Edge(f[t], p), Went(t, p),
         f[t].pc # "a_register"
  PROVE  /\ HeldMove(t)
         /\ f'[t].pc = "r_woken" => f[t].pc = "r_sleep"
         /\ f'[t].pc = "idle" => Held(f[t]) = {}
<1>1. f[t].ret \in {"idle", "a_unlock", "b_next"}
  BY DEF Inv, Typed, Frame
<1>2. f'[t].pc = p /\ (p # "idle" => f'[t].ch = f[t].ch /\ f'[t].op = f[t].op)
  BY DEF Went, NewFrame
<1>3. CASE f[t].pc \in {"r_sleep", "a_sleep", "r_woken", "r_ready"}
  <2>1. \/ f[t].pc = "r_sleep" /\ p = "r_woken"
        \/ f[t].pc = "a_sleep" /\ p = "a_relock"
        \/ f[t].pc = "r_woken" /\ p \in {"r_ready", "r_take"}
        \/ f[t].pc = "r_ready" /\ p \in {"r_take", "r_sleep"}
    BY <1>3 DEF Edge
  <2>2. QED
    BY <1>2, <2>1 DEF HeldMove, Held
<1>4. CASE f[t].pc \notin {"r_sleep", "a_sleep", "r_woken", "r_ready"}
  <2>1. /\ f[t].pc \notin {"r_sleep", "r_woken", "a_sleep", "a_relock", "a_register", "a_clear"}
        /\ p \notin {"r_sleep", "r_woken", "a_sleep", "a_relock", "a_register", "a_clear"}
    BY <1>1, <1>4 DEF Edge
  <2>2. Held(f[t]) = {} /\ Held(f'[t]) = {}
    BY <1>2, <2>1 DEF Held
  <2>3. QED
    BY <1>2, <2>1, <2>2 DEF HeldMove
<1>5. QED
  BY <1>3, <1>4

LEMMA EdgeDoing ==
  ASSUME NEW S, Inv(S), NEW t \in Users, Doing(t), prog' = prog, NEW p, Edge(f[t], p), Went(t, p)
  PROVE  Doing(t)'
<1>1. f[t].ret \in {"idle", "a_unlock", "b_next"}
  BY DEF Inv, Typed, Frame
<1>2. f'[t].pc = p /\ (p # "idle" => f'[t].ch = f[t].ch /\ f'[t].op = f[t].op)
  BY DEF Went, NewFrame
<1>3. f[t].pc # "idle" /\ (p \in ReadPcs => f[t].pc \in ReadPcs)
  BY <1>1 DEF Edge, ReadPcs
<1>4. p \notin {"clear", "clear_ready", "to_get", "res_read"}
  BY <1>1 DEF Edge
<1>5. CASE p = "idle"
  BY <1>2, <1>5 DEF Doing, ReadPcs
<1>6. CASE p # "idle"
  BY <1>2, <1>3, <1>4, <1>6 DEF Doing
<1>7. QED
  BY <1>5, <1>6

LEMMA AltCalls ==
  ASSUME NEW S, Inv(S), NEW t \in Users, Doing(t), Proper(prog), f[t].pc \in AltPcs
  PROVE  IsInjective(f[t].op.ports) /\ ReadsFrom(f[t].op) = PortsOf(t) /\ f[t].op \in prog.menu[t]
<1>1. f[t].op \in prog.menu[t] /\ f[t].op.op \in AltOps
  BY DEF Doing, Inv, Typed, FrameFits, AltPcs, PortPcs
<1>2. IsInjective(f[t].op.ports)
  BY <1>1 DEF Proper
<1>3. QED
  BY <1>1, <1>2 DEF ReadsFrom, AltOps, PortsOf

LEMMA StartDoing ==
  ASSUME NEW S, Inv(S), NEW t \in Users, Proper(prog), prog' = prog, NEW o \in prog.menu[t],
         NewFrame(t, Entry(o), o.ch, o, 1, "idle")
  PROVE  Doing(t)' /\ f'[t].pc # "r_woken" /\ Held(f'[t]) = {}
<1>1. o \in Calls
  BY ChannelsAssumption DEF Inv, Typed
<1>2. o.op \in ChanOps \cup ResOps \cup AltOps \cup {"to_get", "delay"}
  BY <1>1 DEF Calls
<1>3. o.op # "to_get"
  BY DEF Proper
<1>4. f'[t].pc = Entry(o) /\ f'[t].ch = o.ch /\ f'[t].op = o /\ f'[t].ret = "idle"
  BY DEF NewFrame
<1>5. \/ o.op = "write" /\ Entry(o) = "w_notify"
      \/ o.op \in {"get", "read"} /\ Entry(o) = "r_writer"
      \/ o.op \in AltOps /\ Entry(o) = "a_lock"
      \/ o.op \in ResOps \cup {"delay", "reflect", "clear", "clear_ready"} /\ Entry(o) = o.op
  BY <1>2, <1>3 DEF Entry, ChanOps, ResOps, AltOps
<1>6. o.op \in {"get", "read"} => o.ch \in ReadsFrom(o)
  BY DEF ReadsFrom
<1>7. o.op \in {"clear", "clear_ready"} => o.ch \in Empties(o)
  BY DEF Empties
<1>8. Doing(t)'
  BY <1>4, <1>5, <1>6, <1>7 DEF Doing, ReadPcs, ResOps, AltOps
<1>9. QED
  BY <1>4, <1>5, <1>8 DEF Held, ResOps, AltOps

(* Where a thread goes, what it does there and what it is registered with. *)
Goes(t) == /\ Others(t) /\ HeldMove(t) /\ Doing(t)'
           /\ f'[t].pc = "r_woken" => f[t].pc = "r_sleep" /\ f'[t].ch = f[t].ch
           /\ f'[t].pc = "idle" => Held(f[t]) = {}
LEMMA RunGoes ==
  ASSUME NEW S, Inv(S), NEW t \in Users, Run(t), Doing(t), Proper(prog)
  PROVE  Goes(t)
<1>0. prog' = prog /\ Ways(t)
  BY RunRest, RunWays
<1>1. ASSUME NEW p, Edge(f[t], p), Went(t, p), f[t].pc = "a_register" => AtEnd(t) PROVE Goes(t)
  <2>1. Others(t) /\ Doing(t)' /\ (p # "idle" => f'[t].ch = f[t].ch) /\ f'[t].pc = p
    BY <1>0, <1>1, EdgeDoing DEF Went, NewFrame, Others
  <2>2. CASE f[t].pc # "a_register"
    BY <1>1, <2>1, <2>2, EdgeHeld DEF Goes
  <2>3. CASE f[t].pc = "a_register"
    <3>1. p = "a_sleep"
      BY <1>1, <2>3 DEF Edge
    <3>2. NewFrame(t, "a_sleep", f[t].ch, f[t].op, f[t].idx, f[t].ret)
      BY <1>1, <3>1 DEF Went
    <3>3. IsInjective(f[t].op.ports)
      BY <2>3, AltCalls DEF AltPcs, PortPcs
    <3>4. HeldMove(t)
      BY <1>1, <2>3, <3>2, <3>3, AltHeld
    <3>5. QED
      BY <2>1, <3>1, <3>4 DEF Goes
  <2>4. QED
    BY <2>2, <2>3
<1>2. ASSUME f' = f, End(t) \/ ReadTake(t) PROVE Goes(t)
  <2>1. Others(t) /\ HeldMove(t) /\ Doing(t)' /\ f'[t] = f[t]
    BY <1>0, <1>2 DEF Others, HeldMove, Doing
  <2>2. f[t].pc \in {"idle", "r_take"}
    BY <1>2 DEF End, ReadTake, At
  <2>3. QED
    BY <2>1, <2>2 DEF Goes, Held
<1>3. ASSUME NEW o \in prog.menu[t], Start(t, o), NewFrame(t, Entry(o), o.ch, o, 1, "idle")
      PROVE  Goes(t)
  <2>1. Doing(t)' /\ f'[t].pc # "r_woken" /\ Held(f'[t]) = {}
    BY <1>0, <1>3, StartDoing
  <2>2. Held(f[t]) = {}
    BY <1>3 DEF Start, At, Held
  <2>3. Others(t) /\ HeldMove(t)
    BY <1>3, <2>1, <2>2 DEF NewFrame, Others, HeldMove
  <2>4. QED
    BY <2>1, <2>2, <2>3 DEF Goes
(* Within an alt block.                                                    *)
<1>4. ASSUME NEW p, NEW i, NewFrame(t, p, f[t].ch, f[t].op, i, f[t].ret), f[t].pc \in AltPcs,
             p \in {"a_scan", "a_clear", "a_unlock", "a_register"}, HeldMove(t)
      PROVE  Goes(t)
  <2>1. f[t].pc # "idle" /\ p \notin ReadPcs
    BY <1>4 DEF AltPcs, PortPcs, ReadPcs
  <2>2. Others(t) /\ Doing(t)' /\ f'[t].pc = p
    BY <1>0, <1>4, <2>1 DEF NewFrame, Others, Doing
  <2>3. QED
    BY <1>4, <2>2 DEF Goes
<1>5. ASSUME NEW p, NEW i, NewFrame(t, p, f[t].ch, f[t].op, i, f[t].ret), f[t].pc \in AltPcs,
             f[t].pc \in {"a_lock", "a_scan"}, p \in {"a_scan", "a_unlock"}
      PROVE  Goes(t)
  <2>1. f'[t].pc = p
    BY <1>5 DEF NewFrame
  <2>2. HeldMove(t)
    BY <1>5, <2>1 DEF HeldMove, Held
  <2>3. QED
    BY <1>4, <1>5, <2>2
<1>6. ASSUME f[t].pc \in {"a_relock", "a_scan", "a_register", "a_clear"},
             \/ f[t].pc = "a_relock" /\ NewFrame(t, "a_clear", f[t].ch, f[t].op, 1, f[t].ret)
             \/ f[t].pc = "a_scan" /\ NewFrame(t, "a_register", f[t].ch, f[t].op, 1, f[t].ret)
             \/ /\ f[t].pc \in {"a_scan", "a_register", "a_clear"} /\ ~AtEnd(t)
                /\ NewFrame(t, f[t].pc, f[t].ch, f[t].op, f[t].idx + 1, f[t].ret)
             \/ /\ f[t].pc = "a_clear" /\ AtEnd(t)
                /\ NewFrame(t, "a_scan", f[t].ch, f[t].op, 1, f[t].ret)
      PROVE  Goes(t)
  <2>1. f[t].pc \in AltPcs
    BY <1>6 DEF AltPcs, PortPcs
  <2>2. HeldMove(t)
    BY <1>6, <2>1, AltCalls, AltHeld
  <2>3. PICK p, i : NewFrame(t, p, f[t].ch, f[t].op, i, f[t].ret) /\
                    p \in {"a_scan", "a_clear", "a_unlock", "a_register"}
    BY <1>6
  <2>4. QED
    BY <1>4, <2>1, <2>2, <2>3
<1>7. ASSUME NEW p, NEW c, NEW i, NEW r, NewFrame(t, p, c, f[t].op, i, r), f[t].pc # "idle",
             p \in {"r_writer", "to_get", "res_get", "w_notify"}, Held(f[t]) = {},
             p = "r_writer" => c \in ReadsFrom(f[t].op), p = "to_get" => r = "a_unlock"
      PROVE  Goes(t)
  <2>1. f'[t].pc = p /\ f'[t].ch = c /\ f'[t].op = f[t].op /\ f'[t].ret = r /\ Others(t)
    BY <1>7 DEF NewFrame, Others
  <2>2. Doing(t)'
    BY <1>0, <1>7, <2>1 DEF Doing, ReadPcs
  <2>3. Held(f'[t]) = {}
    BY <1>7, <2>1 DEF Held
  <2>4. QED
    BY <1>7, <2>1, <2>2, <2>3 DEF Goes, HeldMove
<1>8. ASSUME AltGet(t), Port(t) \in PortsOf(t), NEW p,
             NewFrame(t, p, Port(t), f[t].op, f[t].idx, "a_unlock"),
             p \in {"r_writer", "to_get", "res_get"}
      PROVE  Goes(t)
  <2>1. f[t].pc = "a_get"
    BY <1>8 DEF AltGet, At
  <2>2. ReadsFrom(f[t].op) = PortsOf(t)
    BY <2>1, AltCalls DEF AltPcs, PortPcs
  <2>3. Held(f[t]) = {}
    BY <2>1 DEF Held
  <2>4. QED
    BY <1>7, <1>8, <2>1, <2>2, <2>3
<1>9. ASSUME f[t].pc \in {"reflect", "b_next"},
             \/ NewFrame(t, "r_writer", f[t].op.ch, f[t].op, 1, "b_next")
             \/ NewFrame(t, "w_notify", Sink(t), f[t].op, f[t].idx + 1, f[t].ret)
      PROVE  Goes(t)
  <2>1. f[t].op.op = "reflect" /\ Held(f[t]) = {}
    BY <1>9 DEF Inv, Typed, FrameFits, Held
  <2>2. f[t].op.ch \in ReadsFrom(f[t].op)
    BY <2>1 DEF ReadsFrom
  <2>3. QED
    BY <1>7, <1>9, <2>1, <2>2
<1>10. QED
  BY <1>0, <1>1, <1>2, <1>3, <1>5, <1>6, <1>8, <1>9 DEF Ways, AltPcs, PortPcs

-----------------------------------------------------------------------------
(* The running thread is on no list, unless it is about to sleep.          *)
RunsFree(t) ==
  /\ cur = t /\ w.st[t] = "run" /\ Alone(t) /\ w.fault = "none" /\ cur' \in {t, NULL} /\ t # NULL
  /\ Held(f[t]) = {} => \A x \in Users : ~Holds(w.waiters[x], t)
  /\ f[t].pc \notin Sleeps => \A c \in Chans : ~Holds(w.ch[c].writers, t)
LEMMA RunFree ==
  ASSUME NEW S, Inv(S), Settled, NEW t \in Users, Run(t)
  PROVE  RunsFree(t)
<1>1. cur = t /\ cur' \in {t, NULL} /\ t # NULL /\ t \in Threads
  BY RunMoves, HelperIds
<1>2. w.st[t] = "run" /\ Alone(t)
  BY <1>1 DEF Inv, Good, OneRuns, Alone
<1>3. w.fault = "none"
  BY DEF Run, Start, End, DelayCall, Sleep, WriteNotify, WriteFull, WriteStore, WriteHeld,
       ReadWriter, ReadReady, ReadWoken, ReadTake, ReadReturn, Clear, ToGet, ResGet, ResClear,
       AltLock, AltScan, AltRegister, AltClear, AltGet, AltUnlock, Reflect, At
<1>4. ASSUME Held(f[t]) = {}, NEW x \in Users, Holds(w.waiters[x], t) PROVE FALSE
  <2>1. AwaitsEnd(t, x)
    BY <1>4 DEF Settled, WaitersHeld
  <2>2. PICK p \in Results : w.res[p].rt = t
    BY <1>2, <2>1 DEF AwaitsEnd
  <2>3. QED
    BY <1>4, <2>2 DEF Settled, Registers, Owes, Ports
<1>5. ASSUME f[t].pc \notin Sleeps, NEW c \in Chans, Holds(w.ch[c].writers, t) PROVE FALSE
  <2>1. AwaitsRoom(t, c)
    BY <1>5 DEF Settled, WritersHeld
  <2>2. QED
    BY <1>2, <1>5, <2>1 DEF AwaitsRoom, Sleeps
<1>6. QED
  BY <1>1, <1>2, <1>3, <1>4, <1>5 DEF RunsFree

LEMMA ItselfRuns ==
  ASSUME NEW S, Inv(S), Settled, NEW t \in Users, RunsFree(t), Goes(t), cur' = t,
         f[t].pc \notin Sleeps,
         f'[t].pc = "idle" =>
           \A x \in Users : Holds(w'.waiters[x], t) => Holds(w.waiters[x], t),
         \A c \in Chans : Holds(w'.ch[c].writers, t) =>
           Holds(w.ch[c].writers, t) \/ AwaitsRoom(t, c)'
  PROVE  Itself(t)
<1>1. f'[t].pc # "r_woken"
  BY DEF Goes, Sleeps
<1>2. AsleepBy(t)'
  BY <1>1 DEF AsleepBy
<1>3. \A c \in Chans : Holds(w'.ch[c].writers, t) => AwaitsRoom(t, c)'
  BY DEF RunsFree
<1>4. ASSUME f'[t].pc = "idle" PROVE \A x \in Users : ~Holds(w'.waiters[x], t)
  BY <1>4 DEF RunsFree, Goes
<1>5. QED
  BY <1>2, <1>3, <1>4 DEF Itself, RunsFree

(* What may stay as it is.                                                 *)
RegsKept == /\ \A c \in Chans : w'.ch[c].readers = w.ch[c].readers
            /\ \A o \in Timeouts : /\ w'.to[o].readt = w.to[o].readt
                                   /\ w'.to[o].writet = w.to[o].writet
            /\ \A p \in Results : w'.res[p].rt = w.res[p].rt
ListsKept == \A x \in Users : w'.waiters[x] = w.waiters[x]
LinesKept == SameWriters(w, w')
StatusKept(t) == \A u \in Users \ {t} : w'.st[u] = w.st[u]
OwesKept == \A p \in Ports, u \in Users : Owes(p, u)' <=> Owes(p, u)
HeldKept(t) == \A p \in Ports : p \in Held(f[t]) => p \in Held(f'[t]) \/ (p \in Chans /\ ~Owes(p, t))

LEMMA RegsOwes == ASSUME RegsKept PROVE OwesKept
  BY DEF RegsKept, OwesKept, Owes

LEMMA KeptParts ==
  ASSUME NEW S, Inv(S), Settled, NEW t \in Users
  PROVE  /\ StatusKept(t) => Rouses(t)
         /\ RegsKept /\ HeldKept(t) => Enrols(t) /\ Timing(t)
         /\ ListsKept /\ SameAwaited(w, w') => Lists(t)
         /\ LinesKept => Lines(t)
<1>1. StatusKept(t) => Rouses(t)
  BY DEF StatusKept, Rouses
<1>2. ASSUME RegsKept, HeldKept(t) PROVE Enrols(t)
  <2>1. \A p \in Ports : Owes(p, t) => p \in Held(f[t])
    BY DEF Settled, Registers
  <2>2. OwesKept
    BY <1>2, RegsOwes
  <2>3. QED
    BY <1>2, <2>1, <2>2 DEF HeldKept, OwesKept, Enrols
<1>3. ASSUME RegsKept, HeldKept(t) PROVE Timing(t)
  <2>1. \A o \in Timeouts : o \in Ports /\ o \notin Chans
    BY DistinctObjects DEF Ports
  <2>2. QED
    BY <1>3, <2>1 DEF RegsKept, HeldKept, Timing
<1>4. ASSUME ListsKept, SameAwaited(w, w') PROVE Lists(t)
  BY <1>4 DEF ListsKept, SameAwaited, Lists, Settled, WaitersOnce
<1>5. ASSUME LinesKept PROVE Lines(t)
  BY <1>5 DEF LinesKept, SameWriters, Lines, Settled, WritersOnce
<1>6. QED
  BY <1>1, <1>2, <1>3, <1>4, <1>5

(* A step that leaves all of these alone.                                  *)
Calm(t) == RegsKept /\ ListsKept /\ LinesKept /\ StatusKept(t) /\ HeldKept(t)
LEMMA CalmStep ==
  ASSUME NEW S, Inv(S), Settled, NEW t \in Users, RunsFree(t), Goes(t), cur' = t,
         f[t].pc \notin Sleeps, Calm(t)
  PROVE  StepOK(t)
<1>1. SameAwaited(w, w') /\ SameWriters(w, w') /\ \A x \in Users : w'.waiters[x] = w.waiters[x]
  BY DEF Calm, RegsKept, SameAwaited, LinesKept, ListsKept
<1>2. Itself(t)
  <2>1. \A c \in Chans : Holds(w'.ch[c].writers, t) => Holds(w.ch[c].writers, t)
    BY <1>1 DEF SameWriters
  <2>2. \A x \in Users : Holds(w'.waiters[x], t) => Holds(w.waiters[x], t)
    BY <1>1
  <2>3. QED
    BY <2>1, <2>2, ItselfRuns
<1>3. Rouses(t) /\ Enrols(t) /\ Timing(t) /\ Lists(t) /\ Lines(t)
  BY <1>1, KeptParts DEF Calm
<1>4. QED
  BY <1>2, <1>3 DEF StepOK, Goes, RunsFree

(* A writer is let in.                                                     *)
LEMMA LetInStep ==
  ASSUME NEW S, Inv(S), Settled, NEW t \in Users, RunsFree(t), Goes(t), cur' = t,
         f[t].pc \notin Sleeps, HeldKept(t), NEW c \in Chans, NEW y,
         y.st = w.st, SameWriters(w, y), SameReaders(w, y), SameOthers(w, y), WriterLetIn(y, w', c)
  PROVE  StepOK(t)
<1>1. RegsKept /\ ListsKept /\ SameAwaited(w, w')
  BY DEF RegsKept, ListsKept, SameAwaited, SameReaders, SameOthers, WriterLetIn
<1>2. CASE w' = y
  <2>1. Calm(t)
    BY <1>1, <1>2 DEF Calm, LinesKept, StatusKept
  <2>2. QED
    BY <2>1, CalmStep
<1>3. CASE w' # y
  <2> DEFINE q == w.ch[c].writers
  <2>1. y.ch[c].writers = q /\ q \in Seq(Users)
    BY DEF SameWriters, Inv, Typed, World, Channel
  <2>2. /\ q # <<>> /\ Woke(w, w', Head(q), "sleep")
        /\ \A d \in Chans : w'.ch[d].writers = IF d = c THEN Tail(q) ELSE w.ch[d].writers
    BY <1>3, <2>1 DEF WriterLetIn, SameWriters, Woke
  <2> HIDE DEF q
  <2>3. Rouses(t)
    <3>1. SUFFICES ASSUME NEW u \in Users \ {t}, w'.st[u] # w.st[u]
                   PROVE  w'.st[u] = "ready" /\ Cause(t, u)
      BY DEF Rouses
    <3>2. u \in Threads
      BY HelperIds
    <3>3. u = Head(q) /\ w'.st[u] = "ready"
      BY <2>2, <3>1, <3>2 DEF Woke
    <3>4. QED
      BY <2>2, <3>3 DEF Cause, q
  <2>4. \A d \in Chans, u \in Users : Holds(w'.ch[d].writers, u) => Holds(w.ch[d].writers, u)
    BY <2>1, <2>2, ListFacts DEF q
  <2>5. \A d \in Chans : NoRepeat(w'.ch[d].writers)
    BY <2>1, <2>2, ListFacts DEF Settled, WritersOnce, q
  <2>6. Lines(t)
    BY <2>4, <2>5 DEF Lines
  <2>7. Itself(t)
    <3>1. \A x \in Users : Holds(w'.waiters[x], t) => Holds(w.waiters[x], t)
      BY <1>1 DEF ListsKept
    <3>2. QED
      BY <2>4, <3>1, ItselfRuns
  <2>8. Enrols(t) /\ Timing(t) /\ Lists(t)
    BY <1>1, KeptParts
  <2>9. QED
    BY <2>3, <2>6, <2>7, <2>8 DEF StepOK, Goes, RunsFree
<1>4. QED
  BY <1>2, <1>3

(* The thread lines up to write.                                           *)
LEMMA LineUpStep ==
  ASSUME NEW S, Inv(S), Settled, NEW t \in Users, RunsFree(t), Goes(t), cur' = t,
         f[t].pc \notin Sleeps, HeldKept(t), NEW c \in Chans, NEW q, WritersIs(w, w', c, q),
         q \in {Append(w.ch[c].writers, t), <<t>> \o w.ch[c].writers},
         f'[t].pc \in {"w_sleep", "held_sleep"}, f'[t].ch = c
  PROVE  StepOK(t)
<1>1. RegsKept /\ ListsKept /\ SameAwaited(w, w') /\ StatusKept(t)
  BY DEF RegsKept, ListsKept, SameAwaited, SameReaders, SameOthers, WritersIs, StatusKept
<1>2. w.ch[c].writers \in Seq(Users) /\ ~Holds(w.ch[c].writers, t) /\ NoRepeat(w.ch[c].writers)
  BY DEF Inv, Typed, World, Channel, RunsFree, Settled, WritersOnce
<1>3. NoRepeat(q) /\ \A u : Holds(q, u) => Holds(w.ch[c].writers, u) \/ u = t
  <2> DEFINE r == w.ch[c].writers
  <2>1. r \in Seq(Users) /\ ~Holds(r, t) /\ NoRepeat(r) /\ (q = Append(r, t) \/ q = <<t>> \o r)
    BY <1>2
  <2> HIDE DEF r
  <2>2. /\ NoRepeat(Append(r, t)) /\ NoRepeat(<<t>> \o r)
        /\ \A u : Holds(Append(r, t), u) <=> Holds(r, u) \/ u = t
        /\ \A u : Holds(<<t>> \o r, u) <=> Holds(r, u) \/ u = t
    BY <2>1, GrownFacts
  <2>3. QED
    BY <2>1, <2>2 DEF r
<1>4. \A d \in Chans : w'.ch[d].writers = IF d = c THEN q ELSE w.ch[d].writers
  BY DEF WritersIs
<1>5. Lines(t)
  BY <1>3, <1>4 DEF Lines, Settled, WritersOnce
<1>6. Itself(t)
  <2>1. \A d \in Chans : Holds(w'.ch[d].writers, t) => Holds(w.ch[d].writers, t) \/ AwaitsRoom(t, d)'
    BY <1>4 DEF AwaitsRoom
  <2>2. \A x \in Users : Holds(w'.waiters[x], t) => Holds(w.waiters[x], t)
    BY <1>1 DEF ListsKept
  <2>3. QED
    BY <2>1, <2>2, ItselfRuns
<1>7. Rouses(t) /\ Enrols(t) /\ Timing(t) /\ Lists(t)
  BY <1>1, KeptParts
<1>8. QED
  BY <1>5, <1>6, <1>7 DEF StepOK, Goes, RunsFree

(* A reader is notified.                                                   *)
LEMMA NotifiedStep ==
  ASSUME NEW S, Inv(S), Settled, NEW t \in Users, RunsFree(t), Goes(t), cur' = t,
         f[t].pc \notin Sleeps, Held(f[t]) = {}, NEW c \in Chans, NEW r \in Users,
         r \in w.ch[c].readers, Notified(w, w', c, r)
  PROVE  StepOK(t)
<1>1. HeldKept(t)
  BY DEF HeldKept
<1>2. \A u \in Users : u \in Threads /\ u # WakerOf(c, r)
  BY HelperIds
<1>3. CASE WakerStarted(w, w', c, r)
  <2>1. RegsKept /\ ListsKept /\ LinesKept
    BY <1>3 DEF WakerStarted, NewReaders, RegsKept, ListsKept, LinesKept, SameOthers
  <2>2. StatusKept(t)
    BY <1>2, <1>3 DEF WakerStarted, StatusKept
  <2>3. QED
    BY <1>1, <2>1, <2>2, CalmStep DEF Calm
<1>4. CASE ReaderWoken(w, w', c, r)
  <2>1. /\ ListsKept /\ LinesKept /\ SameAwaited(w, w') /\ SameOthers(w, w')
        /\ \A d \in Chans : w'.ch[d].readers = IF d = c THEN w.ch[c].readers \ {r} ELSE w.ch[d].readers
    BY <1>4 DEF ReaderWoken, NewReaders, ListsKept, LinesKept, SameOthers, SameAwaited
  <2>2. Rouses(t)
    <3>1. \A u \in Users : w'.st[u] = w.st[u] \/ (u = r /\ w'.st[u] = "ready")
      BY <1>2, <1>4 DEF ReaderWoken
    <3>2. r \notin w'.ch[c].readers
      BY <2>1
    <3>3. QED
      BY <3>1, <3>2 DEF Rouses, Cause
  <2>3. \A p \in Ports, u \in Users : Owes(p, u)' => Owes(p, u)
    BY <2>1 DEF Owes, SameOthers
  <2>4. Enrols(t)
    BY <2>3 DEF Enrols, Settled, Registers
  <2>5. Timing(t)
    BY <2>1 DEF Timing, SameOthers
  <2>6. Itself(t)
    <3>1. \A x \in Users : Holds(w'.waiters[x], t) => Holds(w.waiters[x], t)
      BY <2>1 DEF ListsKept
    <3>2. \A d \in Chans : Holds(w'.ch[d].writers, t) => Holds(w.ch[d].writers, t)
      BY <2>1 DEF LinesKept, SameWriters
    <3>3. QED
      BY <3>1, <3>2, ItselfRuns
  <2>7. Lists(t) /\ Lines(t)
    BY <2>1, KeptParts
  <2>8. QED
    BY <2>2, <2>4, <2>5, <2>6, <2>7 DEF StepOK, Goes, RunsFree
<1>5. QED
  BY <1>3, <1>4 DEF Notified

(* The thread registers with port p.                                       *)
LEMMA EnrolStep ==
  ASSUME NEW S, Inv(S), Settled, OwnResults, NEW t \in Users, RunsFree(t), Goes(t), cur' = t,
         f[t].pc \notin Sleeps, f'[t].pc # "idle", NEW p \in Ports,
         Held(f'[t]) = Held(f[t]) \cup {p},
         \/ p \in Chans /\ Registered(w, w', p, t)
         \/ p \in Timeouts /\ Timed(w, w', p, t)
         \/ p \in Results /\ ResultAwaited(w, w', p, t)
  PROVE  StepOK(t)
<1>0. /\ \A u \in Users : u \in Threads /\ u # NULL /\ \A c \in Chans : u # WakerOf(c, t)
      /\ \A u \in Users, o \in Timeouts : u # TimerOf(o)
  BY HelperIds
<1>1. \A q \in Ports : Owes(q, t) => q \in Held(f'[t])
  BY DEF Settled, Registers
<1>2. ASSUME Rouses(t), \A q \in Ports, u \in Users : Owes(q, u)' => Owes(q, u) \/ (u = t /\ q = p),
             \A o \in Timeouts : w'.to[o].writet = TRUE => w.to[o].writet = TRUE \/ o = p,
             Lists(t), LinesKept
      PROVE  StepOK(t)
  <2>1. Enrols(t)
    BY <1>1, <1>2 DEF Enrols
  <2>2. Timing(t)
    BY <1>2 DEF Timing
  <2>3. Lines(t)
    BY <1>2, KeptParts
  <2>4. \A d \in Chans : Holds(w'.ch[d].writers, t) => Holds(w.ch[d].writers, t)
    BY <1>2 DEF LinesKept, SameWriters
  <2>5. Itself(t)
    BY <2>4, ItselfRuns
  <2>6. QED
    BY <1>2, <2>1, <2>2, <2>3, <2>5 DEF StepOK, Goes, RunsFree
<1>3. CASE p \in Chans /\ Registered(w, w', p, t)
  <2>1. /\ ListsKept /\ LinesKept /\ SameAwaited(w, w') /\ SameOthers(w, w')
        /\ \A d \in Chans : w'.ch[d].readers =
             IF d = p THEN w.ch[p].readers \cup {t} ELSE w.ch[d].readers
    BY <1>3 DEF Registered, NewReaders, ListsKept, LinesKept, SameOthers, SameAwaited
  <2>2. StatusKept(t)
    BY <1>0, <1>3 DEF Registered, StatusKept
  <2>3. \A q \in Ports, u \in Users : Owes(q, u)' => Owes(q, u) \/ (u = t /\ q = p)
    BY <2>1 DEF Owes, SameOthers
  <2>4. \A o \in Timeouts : w'.to[o].writet = w.to[o].writet
    BY <2>1 DEF SameOthers
  <2>5. QED
    BY <1>2, <2>1, <2>2, <2>3, <2>4, KeptParts
<1>4. CASE p \in Timeouts /\ Timed(w, w', p, t)
  <2>1. w'.ch = w.ch /\ w'.res = w.res /\ w'.waiters = w.waiters
    BY <1>4 DEF Timed
  <2>2. ListsKept /\ LinesKept /\ SameAwaited(w, w')
    BY <2>1 DEF ListsKept, LinesKept, SameWriters, SameAwaited
  <2>3. StatusKept(t)
    BY <1>0, <1>4 DEF Timed, StatusKept
  <2>4. \A o \in Timeouts : o # p => w'.to[o] = w.to[o]
    BY <1>4 DEF Timed
  <2>5. w'.to[p].readt = t
    BY <1>4 DEF Timed
  <2>6. \A q \in Ports, u \in Users : Owes(q, u)' => Owes(q, u) \/ (u = t /\ q = p)
    BY <2>1, <2>4, <2>5 DEF Owes
  <2>7. \A o \in Timeouts : w'.to[o].writet = TRUE => w.to[o].writet = TRUE \/ o = p
    BY <2>4
  <2>8. QED
    BY <1>2, <2>2, <2>3, <2>6, <2>7, KeptParts
<1>5. CASE p \in Results /\ ResultAwaited(w, w', p, t)
  <2>1. /\ w'.ch = w.ch /\ w'.to = w.to /\ w'.st = w.st /\ w.res[p].rt = NULL
        /\ \A q \in Results : w'.res[q].rt = IF q = p THEN t ELSE w.res[q].rt
        /\ \A u \in Users : w'.waiters[u] =
             IF u = ResThread[p] THEN Append(w.waiters[u], t) ELSE w.waiters[u]
    BY <1>5 DEF ResultAwaited
  <2>2. LinesKept /\ StatusKept(t)
    BY <2>1 DEF LinesKept, SameWriters, StatusKept
  <2>3. \A q \in Ports, u \in Users : Owes(q, u)' => Owes(q, u) \/ (u = t /\ q = p)
    BY <2>1 DEF Owes
  <2>4. \A o \in Timeouts : w'.to[o].writet = w.to[o].writet
    BY <2>1
  <2>5. PICK z \in Users : z = ResThread[p]
    BY <1>5, ChannelsAssumption
  <2>6. ~Holds(w.waiters[z], t)
    <3>1. SUFFICES ASSUME Holds(w.waiters[z], t) PROVE FALSE
      OBVIOUS
    <3>2. AwaitsEnd(t, z) /\ w.st[t] = "run"
      BY <3>1 DEF Settled, WaitersHeld, RunsFree
    <3>3. PICK q \in Results : ResThread[q] = z /\ w.res[q].rt = t
      BY <3>2 DEF AwaitsEnd
    <3>4. q = p
      BY <1>5, <2>5, <3>3 DEF OwnResults
    <3>5. QED
      BY <1>0, <2>1, <3>3, <3>4
  <2>7. w.waiters[z] \in Seq(Users) /\ NoRepeat(w.waiters[z])
    BY DEF Inv, Typed, World, Settled, WaitersOnce
  <2>8. /\ NoRepeat(w'.waiters[z])
        /\ \A u : Holds(w'.waiters[z], u) <=> Holds(w.waiters[z], u) \/ u = t
    <3> DEFINE r == w.waiters[z]
    <3>1. r \in Seq(Users) /\ NoRepeat(r) /\ ~Holds(r, t) /\ w'.waiters[z] = Append(r, t)
      BY <2>1, <2>5, <2>6, <2>7
    <3> HIDE DEF r
    <3>2. NoRepeat(Append(r, t)) /\ \A u : Holds(Append(r, t), u) <=> Holds(r, u) \/ u = t
      BY <3>1, GrownFacts
    <3>3. QED
      BY <3>1, <3>2 DEF r
  <2>9. Lists(t)
    <3>1. \A x \in Users : NoRepeat(w'.waiters[x])
      BY <2>1, <2>5, <2>8 DEF Settled, WaitersOnce
    <3>2. ASSUME NEW x \in Users, NEW u \in Users, Holds(w'.waiters[x], u)
          PROVE  Holds(w.waiters[x], u) \/ (u = t /\ x = z)
      BY <2>1, <2>5, <2>8, <3>2
    <3>3. AwaitsEnd(t, z)'
      BY <1>5, <2>1, <2>5 DEF AwaitsEnd
    <3>4. \A u \in Users, q \in Results : w.res[q].rt = u => w'.res[q].rt = u
      BY <1>0, <2>1
    <3>5. QED
      BY <3>1, <3>2, <3>3, <3>4 DEF Lists
  <2>10. QED
    BY <1>2, <2>2, <2>3, <2>4, <2>9, KeptParts
<1>6. QED
  BY <1>3, <1>4, <1>5

(* The thread is registered with port p no more.                           *)
LEMMA LeaveStep ==
  ASSUME NEW S, Inv(S), Settled, NEW t \in Users, RunsFree(t), Goes(t), cur' = t,
         f[t].pc \notin Sleeps, NEW p \in Ports, Held(f'[t]) = Held(f[t]) \ {p},
         ClearNotified(w, w', p, t)
  PROVE  StepOK(t)
<1>0. /\ \A u \in Users : u \in Threads /\ u # NULL
      /\ \A u, r \in Users, c \in Chans : u # WakerOf(c, r)
      /\ \A u \in Users, o \in Timeouts : u # TimerOf(o)
  BY HelperIds
<1>1. \A q \in Ports : Owes(q, t) => q \in Held(f[t])
  BY DEF Settled, Registers
<1>2. ASSUME StatusKept(t), \A q \in Ports, u \in Users : Owes(q, u)' => Owes(q, u),
             ~Owes(p, t)',
             \A o \in Timeouts : w'.to[o].writet = TRUE => w.to[o].writet = TRUE /\ o # p,
             Lists(t), LinesKept,
             \A x \in Users : Holds(w'.waiters[x], t) => Holds(w.waiters[x], t)
      PROVE  StepOK(t)
  <2>1. Enrols(t)
    BY <1>1, <1>2 DEF Enrols
  <2>2. Timing(t)
    BY <1>2 DEF Timing
  <2>3. Lines(t) /\ Rouses(t)
    BY <1>2, KeptParts
  <2>4. \A d \in Chans : Holds(w'.ch[d].writers, t) => Holds(w.ch[d].writers, t)
    BY <1>2 DEF LinesKept, SameWriters
  <2>5. Itself(t)
    BY <1>2, <2>4, ItselfRuns
  <2>6. QED
    BY <1>2, <2>1, <2>2, <2>3, <2>5 DEF StepOK, Goes, RunsFree
<1>3. CASE p \in Chans /\ Forgotten(w, w', p, t)
  <2>1. /\ ListsKept /\ LinesKept /\ SameAwaited(w, w') /\ SameOthers(w, w')
        /\ \A d \in Chans : w'.ch[d].readers =
             IF d = p THEN w.ch[p].readers \ Forgets(w, p, t) ELSE w.ch[d].readers
    BY <1>3 DEF Forgotten, NewReaders, ListsKept, LinesKept, SameOthers, SameAwaited
  <2>2. StatusKept(t)
    <3>1. Forgets(w, p, t) \subseteq Users
      BY <1>3 DEF Forgets, Inv, Typed, World, Channel
    <3>2. QED
      BY <1>0, <1>3, <3>1 DEF Forgotten, StatusKept
  <2>3. t \notin w'.ch[p].readers
    BY <1>3, <2>1 DEF Forgets
  <2>4. ~Owes(p, t)'
    BY <1>3, <2>3, DistinctObjects DEF Owes
  <2>5. \A q \in Ports, u \in Users : Owes(q, u)' => Owes(q, u)
    BY <2>1 DEF Owes, SameOthers
  <2>6. \A o \in Timeouts : w'.to[o].writet = w.to[o].writet /\ o # p
    BY <1>3, <2>1, DistinctObjects DEF SameOthers
  <2>7. \A x \in Users : Holds(w'.waiters[x], t) => Holds(w.waiters[x], t)
    BY <2>1 DEF ListsKept
  <2>8. QED
    BY <1>2, <2>1, <2>2, <2>4, <2>5, <2>6, <2>7, KeptParts
<1>4. CASE p \in Timeouts /\ Untimed(w, w', p)
  <2>1. w'.ch = w.ch /\ w'.res = w.res /\ w'.waiters = w.waiters
    BY <1>4 DEF Untimed
  <2>2. ListsKept /\ LinesKept /\ SameAwaited(w, w')
    BY <2>1 DEF ListsKept, LinesKept, SameWriters, SameAwaited
  <2>3. StatusKept(t)
    BY <1>0, <1>4 DEF Untimed, StatusKept
  <2>4. \A o \in Timeouts : /\ w'.to[o].readt = IF o = p THEN NULL ELSE w.to[o].readt
                            /\ w'.to[o].writet = IF o = p THEN FALSE ELSE w.to[o].writet
    BY <1>4 DEF Untimed
  <2>5. ~Owes(p, t)'
    BY <1>0, <1>4, <2>4, DistinctObjects DEF Owes
  <2>6. \A q \in Ports, u \in Users : Owes(q, u)' => Owes(q, u)
    BY <1>0, <2>1, <2>4 DEF Owes
  <2>7. \A x \in Users : Holds(w'.waiters[x], t) => Holds(w.waiters[x], t)
    BY <2>1
  <2>8. QED
    BY <1>2, <2>2, <2>3, <2>4, <2>5, <2>6, <2>7, KeptParts
<1>5. CASE p \in Results /\ ResultLeft(w, w', p)
  <2>1. /\ w'.ch = w.ch /\ w'.to = w.to /\ w'.st = w.st
        /\ \A q \in Results : w'.res[q].rt = IF q = p THEN NULL ELSE w.res[q].rt
        /\ \A u \in Users : w'.waiters[u] =
             IF u = ResThread[p] THEN RemoveFirst(w.waiters[u], w.res[p].rt) ELSE w.waiters[u]
    BY <1>5 DEF ResultLeft
  <2>2. LinesKept /\ StatusKept(t)
    BY <2>1 DEF LinesKept, SameWriters, StatusKept
  <2>3. \A q \in Ports, u \in Users : Owes(q, u)' => Owes(q, u)
    BY <1>0, <2>1 DEF Owes
  <2>4. ~Owes(p, t)'
    BY <1>0, <1>5, <2>1, DistinctObjects DEF Owes
  <2>5. \A o \in Timeouts : w'.to[o].writet = w.to[o].writet /\ o # p
    BY <1>5, <2>1, DistinctObjects
  <2>6. PICK z \in Users : z = ResThread[p]
    BY <1>5, ChannelsAssumption
  <2>7. w.waiters[z] \in Seq(Users) /\ NoRepeat(w.waiters[z])
    BY DEF Inv, Typed, World, Settled, WaitersOnce
  <2>8. /\ NoRepeat(w'.waiters[z]) /\ ~Holds(w'.waiters[z], w.res[p].rt)
        /\ \A u : Holds(w'.waiters[z], u) => Holds(w.waiters[z], u)
    BY <2>1, <2>6, <2>7, RemoveFirstFacts
  <2>9. \A x, u \in Users : Holds(w'.waiters[x], u) => Holds(w.waiters[x], u)
    BY <2>1, <2>6, <2>8
  <2>10. Lists(t)
    <3>1. \A x \in Users : NoRepeat(w'.waiters[x])
      BY <2>1, <2>6, <2>8 DEF Settled, WaitersOnce
    <3>2. ASSUME NEW x \in Users, NEW u \in Users, Holds(w'.waiters[x], u), NEW q \in Results,
                 ResThread[q] = x, w.res[q].rt = u
          PROVE  w'.res[q].rt = u
      BY <2>1, <2>6, <2>8, <3>2
    <3>3. QED
      BY <2>9, <3>1, <3>2 DEF Lists
  <2>11. QED
    BY <1>2, <2>2, <2>3, <2>4, <2>5, <2>9, <2>10
<1>6. QED
  BY <1>3, <1>4, <1>5 DEF ClearNotified

-----------------------------------------------------------------------------
(* What a step needs of the state it is made in, and what it establishes.  *)
Safe(t) == StepOK(t) /\ w'.fault = "none"

LEMMA HeldStays ==
  ASSUME NEW t \in Users, Goes(t), f[t].pc \notin {"r_woken", "a_clear"}
  PROVE  HeldKept(t)
  BY DEF Goes, HeldMove, HeldKept

(* A thread that is registered and does not run sleeps or has been woken.  *)
LEMMA HeldWaits ==
  ASSUME NEW S, Inv(S), Settled, NEW u \in Users, u # cur, NEW p \in Ports, p \in Held(f[u])
  PROVE  \/ f[u].pc = "a_relock" /\ w.st[u] \in {"sleep", "ready"} /\ p \in PortsOf(u)
         \/ /\ f[u].pc = "r_woken" /\ p = f[u].ch /\ p \in Chans
            /\ w.st[u] \in {"ready", WakesFrom(p)}
<1>1. StandsBy(u)
  BY DEF Settled, Stands
<1>2. f[u].pc = "r_woken" => f[u].ch \in Chans
  BY DEF Inv, Typed, FrameFits, ReadPcs
<1>3. f[u].pc \in {"a_relock", "r_woken"}
  BY <1>1 DEF StandsBy, Waits, Held
<1>4. QED
  BY <1>1, <1>2, <1>3 DEF StandsBy, Held, PortsOf

(* The thread blocks where it has come to.                                 *)
LEMMA MovedStep ==
  ASSUME NEW S, Inv(S), Settled, NEW t \in Users, RunsFree(t), Goes(t), cur' # t, HeldKept(t),
         NEW how, Moved(w, w', t, how), StandsBy(t)', AsleepBy(t)',
         \A c \in Chans : Holds(w.ch[c].writers, t) => AwaitsRoom(t, c)'
  PROVE  Safe(t)
<1>1. /\ w'.ch = w.ch /\ w'.to = w.to /\ w'.res = w.res /\ w'.waiters = w.waiters
      /\ w'.fault = "none" /\ StatusKept(t)
  BY HelperIds DEF Moved, SameObjects, RunsFree, StatusKept
<1>2. RegsKept /\ ListsKept /\ LinesKept /\ SameAwaited(w, w')
  BY <1>1 DEF RegsKept, ListsKept, LinesKept, SameWriters, SameAwaited
<1>3. Rouses(t) /\ Enrols(t) /\ Timing(t) /\ Lists(t) /\ Lines(t)
  BY <1>1, <1>2, KeptParts
<1>4. f'[t].pc = "idle" => \A x \in Users : ~Holds(w'.waiters[x], t)
  BY <1>1 DEF RunsFree, Goes
<1>5. Itself(t)
  BY <1>1, <1>4 DEF Itself, RunsFree
<1>6. QED
  BY <1>1, <1>3, <1>5 DEF Safe, StepOK, Goes, RunsFree

LEMMA SleepStep ==
  ASSUME NEW S, Inv(S), Settled, NEW t \in Users, RunsFree(t), Goes(t), Sleep(t), prog' = prog
  PROVE  Safe(t)
<1>0. f[t].pc \in Sleeps /\ cur' # t /\ w \in World(S) /\ t \in Threads
  BY HelperIds DEF Sleep, At, BlockIn, Inv, Typed
<1>1. PICK how \in {"busy", "sleep"} :
        /\ w' = Left(w, t, how)
        /\ IF f[t].pc = "r_sleep" THEN how = WakesFrom(f[t].ch) ELSE how = "sleep"
  BY DEF Sleep, BlockIn, Left, WakesFrom
<1>2. how \in Status
  BY DEF Status, Live
<1>3. Moved(w, w', t, how) /\ w'.st[t] = how
  BY <1>0, <1>1, <1>2, LeftFacts DEF Moved
<1>4. FramesOK(S, f) /\ Goto(t, Woken(f[t].pc))
  BY DEF Inv, Typed, FramesOK, Sleep
<1>5. /\ f[t].pc = "w_sleep" => Went(t, "w_full")
      /\ f[t].pc = "held_sleep" => Went(t, "w_held")
      /\ f[t].pc = "r_sleep" => Went(t, "r_woken")
      /\ f[t].pc = "a_sleep" => Went(t, "a_relock")
  BY <1>4, GotoFacts DEF Woken
<1>6. /\ f'[t].ch = f[t].ch
      /\ \/ f[t].pc = "w_sleep" /\ f'[t].pc = "w_full"
         \/ f[t].pc = "held_sleep" /\ f'[t].pc = "w_held"
         \/ f[t].pc = "r_sleep" /\ f'[t].pc = "r_woken"
         \/ f[t].pc = "a_sleep" /\ f'[t].pc = "a_relock"
  BY <1>0, <1>5 DEF Sleeps, Went, NewFrame
<1>7. StandsBy(t)' /\ AsleepBy(t)'
  BY <1>1, <1>3, <1>6 DEF StandsBy, AsleepBy, Waits, WakesFrom, Class
<1>8. ASSUME NEW c \in Chans, Holds(w.ch[c].writers, t) PROVE AwaitsRoom(t, c)'
  <2>1. AwaitsRoom(t, c) /\ w.st[t] = "run"
    BY <1>8 DEF Settled, WritersHeld, RunsFree
  <2>2. QED
    BY <1>1, <1>3, <1>6, <2>1 DEF AwaitsRoom
<1>9. HeldKept(t)
  BY <1>0, HeldStays DEF Sleeps
<1>10. QED
  BY <1>0, <1>3, <1>7, <1>8, <1>9, MovedStep

LEMMA DelayStep ==
  ASSUME NEW S, Inv(S), Settled, NEW t \in Users, RunsFree(t), Goes(t), DelayCall(t)
  PROVE  Safe(t)
<1>0. f[t].pc = "delay" /\ cur' # t /\ w \in World(S) /\ t \in Threads /\ FramesOK(S, f)
  BY HelperIds DEF DelayCall, At, BlockIn, Inv, Typed, FramesOK
<1>1. w' = Left([w EXCEPT !.due[t] = now + f[t].op.d], t, "delay") /\ Goto(t, "idle")
  BY DEF DelayCall, BlockIn, Left
<1>2. Moved(w, w', t, "delay")
  BY <1>0, <1>1, DelayFacts
<1>3. f'[t].pc = "idle"
  BY <1>0, <1>1, GotoFacts DEF Went, NewFrame
<1>4. StandsBy(t)' /\ AsleepBy(t)'
  BY <1>3 DEF StandsBy, AsleepBy, Waits
<1>5. \A c \in Chans : ~Holds(w.ch[c].writers, t)
  BY <1>0 DEF RunsFree, Sleeps
<1>6. HeldKept(t)
  BY <1>0, HeldStays
<1>7. QED
  BY <1>0, <1>2, <1>4, <1>5, <1>6, MovedStep

LEMMA EndStep ==
  ASSUME NEW S, Inv(S), Settled, NEW t \in Users, RunsFree(t), Goes(t), End(t)
  PROVE  Safe(t)
<1>0. /\ f[t].pc = "idle" /\ cur' # t /\ cur = t /\ f' = f /\ Held(f[t]) = {} /\ w \in World(S)
      /\ \A u \in Users : u \in Threads
  BY HelperIds DEF End, At, BlockIn, Inv, Typed, Held
<1>1. Ended(w, w', t)
  BY EndFacts
<1>2. w.waiters[t] \in Seq(Users) /\ w.waiters \in [Users -> Seq(Users)]
  BY <1>0 DEF World
<1>3. \A u : u \in ToSet(w.waiters[t]) <=> Holds(w.waiters[t], u)
  BY <1>2, ListFacts
<1>4. \A u : Holds(w.waiters[t], u) => u \in Users
  BY <1>2 DEF Holds
(* Those who wait for its end sleep.                                       *)
<1>5. ASSUME NEW u \in Users, Holds(w.waiters[t], u)
      PROVE  w.st[u] \in {"sleep", "ready"}
  <2>1. AwaitsEnd(u, t)
    BY <1>5 DEF Settled, WaitersHeld
  <2>2. ASSUME NEW p \in Results, w.res[p].rt = u PROVE w.st[u] \in {"sleep", "ready"}
    <3>1. p \in Ports /\ p \notin Chans
      BY DistinctObjects DEF Ports
    <3>2. p \in Held(f[u])
      BY <2>2, <3>1 DEF Settled, Registers, Owes
    <3>3. u # cur
      BY <1>0, <3>2
    <3>4. QED
      BY <3>1, <3>2, <3>3, HeldWaits
  <2>3. QED
    BY <2>1, <2>2 DEF AwaitsEnd
<1>6. /\ w'.ch = w.ch /\ w'.to = w.to /\ w'.res = w.res
      /\ w'.waiters = [w.waiters EXCEPT ![t] = <<>>] /\ w'.fault = w.fault
      /\ \A u \in Users \ {t} : w'.st[u] =
           IF Holds(w.waiters[t], u) /\ w.st[u] = "sleep" THEN "ready" ELSE w.st[u]
  BY <1>0, <1>1, <1>3, <1>4, <1>5 DEF Ended
<1>7. /\ w'.waiters[t] = <<>> /\ \A x \in Users : x # t => w'.waiters[x] = w.waiters[x]
      /\ \A u : ~Holds(<<>>, u)
  BY <1>2, <1>6, ListFacts
<1>8. Rouses(t)
  BY <1>6, <1>7 DEF Rouses, Cause
<1>9. Lists(t)
  <2>1. NoRepeat(<<>>)
    BY DEF NoRepeat
  <2>2. QED
    BY <1>6, <1>7, <2>1 DEF Lists, Settled, WaitersOnce
<1>10. RegsKept /\ LinesKept /\ HeldKept(t)
  BY <1>0, <1>6 DEF RegsKept, LinesKept, SameWriters, HeldKept
<1>11. Enrols(t) /\ Timing(t) /\ Lines(t)
  BY <1>10, KeptParts
<1>12. Itself(t)
  <2>1. \A x \in Users : ~Holds(w'.waiters[x], t)
    BY <1>0, <1>7 DEF RunsFree
  <2>2. \A c \in Chans : ~Holds(w'.ch[c].writers, t)
    BY <1>0, <1>6 DEF RunsFree, Sleeps
  <2>3. StandsBy(t)' /\ AsleepBy(t)'
    BY <1>0 DEF StandsBy, AsleepBy, Waits
  <2>4. QED
    BY <2>1, <2>2, <2>3 DEF Itself, RunsFree
<1>13. QED
  BY <1>6, <1>8, <1>9, <1>11, <1>12 DEF Safe, StepOK, Goes, RunsFree

LEMMA ResBlockStep ==
  ASSUME NEW S, Inv(S), Settled, NEW t \in Users, RunsFree(t), Goes(t), FoundBy(t), Doing(t),
         ResGet(t), cur' # cur
  PROVE  Safe(t)
<1>0. /\ cur = t /\ Held(f[t]) = {} /\ FramesOK(S, f) /\ f[t].pc \in {"res_get", "res_read"}
      /\ f[t].pc \notin Sleeps /\ \A u \in Users : u \in Threads
  BY HelperIds DEF ResGet, At, Inv, Typed, FramesOK, Held, Sleeps
<1>1. /\ f[t].ch \in Results /\ ResultGot(w, w', f[t].ch, t)
      /\ \A u \in Threads : w'.st[u] = IF u = t THEN "sleep" ELSE w.st[u]
      /\ w'.waiters = [w.waiters EXCEPT ![ResThread[f[t].ch]] = Append(@, t)]
  BY ResGetFacts
<1>2. f[t].ret = "idle"
  <2>1. w.st[ResThread[f[t].ch]] # "done"
    BY DEF ResGet
  <2>2. QED
    BY <1>0, <2>1 DEF FoundBy, Doing
<1>3. f'[t].pc = "idle"
  <2>1. Goto(t, "idle")
    BY <1>2 DEF ResGet
  <2>2. QED
    BY <1>0, <2>1, GotoFacts DEF Went, NewFrame
<1>4. PICK z \in Users : z = ResThread[f[t].ch]
  BY <1>1, ChannelsAssumption
<1>5. /\ w.waiters \in [Users -> Seq(Users)] /\ NoRepeat(w.waiters[z])
      /\ \A x \in Users : ~Holds(w.waiters[x], t)
  BY <1>0 DEF Inv, Typed, World, Settled, WaitersOnce, RunsFree
<1>6. /\ \A x \in Users : x # z => w'.waiters[x] = w.waiters[x]
      /\ NoRepeat(w'.waiters[z])
      /\ \A u : Holds(w'.waiters[z], u) <=> Holds(w.waiters[z], u) \/ u = t
  <2> DEFINE r == w.waiters[z]
  <2>1. /\ r \in Seq(Users) /\ NoRepeat(r) /\ ~Holds(r, t) /\ w'.waiters[z] = Append(r, t)
        /\ \A x \in Users : x # z => w'.waiters[x] = w.waiters[x]
    BY <1>1, <1>4, <1>5
  <2> HIDE DEF r
  <2>2. NoRepeat(Append(r, t)) /\ \A u : Holds(Append(r, t), u) <=> Holds(r, u) \/ u = t
    BY <2>1, GrownFacts
  <2>3. QED
    BY <2>1, <2>2 DEF r
<1>7. w'.ch = w.ch /\ w'.to = w.to /\ w'.fault = w.fault /\ SameAwaited(w, w') /\ w'.st[t] = "sleep"
  BY <1>0, <1>1 DEF ResultGot
<1>8. AwaitsEnd(t, z)' /\ StandsBy(t)' /\ AsleepBy(t)'
  BY <1>3, <1>7 DEF AwaitsEnd, StandsBy, AsleepBy, Waits
<1>9. Lists(t)
  <2>1. \A x \in Users : NoRepeat(w'.waiters[x])
    BY <1>6 DEF Settled, WaitersOnce
  <2>2. \A x, u \in Users : Holds(w'.waiters[x], u) => Holds(w.waiters[x], u) \/ (u = t /\ x = z)
    BY <1>6
  <2>3. QED
    BY <1>7, <1>8, <2>1, <2>2 DEF Lists, SameAwaited
<1>10. RegsKept /\ LinesKept /\ HeldKept(t) /\ StatusKept(t)
  BY <1>0, <1>1, <1>7 DEF RegsKept, LinesKept, SameWriters, HeldKept, StatusKept, SameAwaited
<1>11. Enrols(t) /\ Timing(t) /\ Lines(t) /\ Rouses(t)
  BY <1>10, KeptParts
<1>12. Itself(t)
  <2>1. \A x \in Users : Holds(w'.waiters[x], t) => x = z
    BY <1>5, <1>6
  <2>2. \A c \in Chans : ~Holds(w'.ch[c].writers, t)
    BY <1>0, <1>7 DEF RunsFree
  <2>3. QED
    BY <1>8, <2>1, <2>2 DEF Itself, RunsFree
<1>13. QED
  BY <1>7, <1>9, <1>11, <1>12 DEF Safe, StepOK, Goes, RunsFree

(* What the running thread does, step by step.                             *)
LEMMA CalmSafe ==
  ASSUME NEW S, Inv(S), Settled, NEW t \in Users, RunsFree(t), Goes(t), cur' = t,
         f[t].pc \notin Sleeps, HeldKept(t)
  PROVE  /\ Alike(w, w') => Safe(t)
         /\ RegsKept /\ ListsKept /\ LinesKept /\ w'.st = w.st /\ w'.fault = w.fault => Safe(t)
<1>1. ASSUME RegsKept, ListsKept, LinesKept, w'.st = w.st, w'.fault = w.fault PROVE Safe(t)
  <2>1. StatusKept(t)
    BY <1>1 DEF StatusKept
  <2>2. QED
    BY <1>1, <2>1, CalmStep DEF Calm, Safe, RunsFree
<1>2. ASSUME Alike(w, w') PROVE Safe(t)
  <2>1. RegsKept /\ ListsKept /\ LinesKept
    BY <1>2 DEF Alike, SameObjects, RegsKept, ListsKept, LinesKept, SameWriters
  <2>2. QED
    BY <1>1, <1>2, <2>1 DEF Alike
<1>3. QED
  BY <1>1, <1>2

LEMMA LetInSafe ==
  ASSUME NEW S, Inv(S), Settled, NEW t \in Users, RunsFree(t), Goes(t), cur' = t,
         f[t].pc \notin Sleeps, HeldKept(t), NEW c \in Chans, NEW y,
         y.st = w.st, y.fault = w.fault, SameWriters(w, y), SameReaders(w, y), SameOthers(w, y),
         WriterLetIn(y, w', c)
  PROVE  Safe(t)
<1>1. StepOK(t)
  BY LetInStep
<1>2. CASE w' = y
  BY <1>1, <1>2 DEF Safe, RunsFree
<1>3. CASE w' # y
  <2>1. y.ch[c].writers = w.ch[c].writers /\ w.ch[c].writers \in Seq(Users)
    BY DEF SameWriters, Inv, Typed, World, Channel
  <2>2. PICK u \in Users : u = Head(w.ch[c].writers) /\ w.ch[c].writers # <<>>
    BY <1>3, <2>1 DEF WriterLetIn
  <2>3. AwaitsRoom(u, c)
    BY <2>1, <2>2, ListFacts DEF Settled, WritersHeld
  <2>4. u # t /\ u # cur
    BY <2>1, <2>2, ListFacts DEF RunsFree
  <2>5. w.st[u] = "sleep"
    BY <2>3, <2>4 DEF AwaitsRoom, Settled, Stands, StandsBy, Waits
  <2>6. w'.fault = w.fault
    BY <1>3, <2>1, <2>2, <2>5 DEF WriterLetIn
  <2>7. QED
    BY <1>1, <2>6 DEF Safe, RunsFree
<1>4. QED
  BY <1>2, <1>3

(* What a thread is registered with it reads from.                         *)
LEMMA HeldReads ==
  ASSUME NEW S, Inv(S), Settled, Does, Proper(prog), NEW u \in Users, u # cur, NEW p \in Ports,
         p \in Held(f[u])
  PROVE  /\ f[u].op \in prog.menu[u] /\ p \in ReadsFrom(f[u].op)
         /\ f[u].pc = "a_relock" => f[u].op.op \in AltOps
<1>1. Doing(u)
  BY DEF Does
<1>2. CASE f[u].pc = "a_relock" /\ p \in PortsOf(u)
  <2>1. f[u].pc \in AltPcs
    BY <1>2 DEF AltPcs
  <2>2. f[u].op.op \in AltOps
    BY <2>1 DEF Inv, Typed, FrameFits
  <2>3. QED
    BY <1>1, <1>2, <2>1, <2>2, AltCalls
<1>3. CASE f[u].pc = "r_woken" /\ p = f[u].ch
  BY <1>1, <1>3 DEF Doing, ReadPcs
<1>4. QED
  BY <1>2, <1>3, HeldWaits

LEMMA NotifySafe ==
  ASSUME NEW S, Inv(S), Settled, Does, Proper(prog), NEW t \in Users, RunsFree(t), Goes(t),
         WriteNotify(t)
  PROVE  Safe(t)
<1>0. /\ cur = t /\ cur' = t /\ f[t].pc \notin Sleeps /\ Held(f[t]) = {} /\ HeldKept(t)
      /\ f[t].ch \in Chans
  BY WriteNotifyFacts, HeldStays DEF WriteNotify, At, Keeps, Sleeps, Held
<1>1. CASE w' = w
  BY <1>0, <1>1, CalmSafe DEF Alike, SameObjects
<1>2. ASSUME NEW r \in w.ch[f[t].ch].readers, r \in Users, Notified(w, w', f[t].ch, r)
      PROVE  Safe(t)
  <2>1. PICK c \in Chans : c = f[t].ch
    BY <1>0
  <2>2. StepOK(t)
    BY <1>0, <1>2, <2>1, NotifiedStep
  <2>3. c \in Ports /\ c \in Held(f[r])
    BY <1>2, <2>1 DEF Settled, Registers, Owes, Ports
  <2>4. r # cur
    BY <1>0, <2>3
  <2>5. w.st[r] = WakesFrom(c) \/ (w.st[r] = "ready" /\ Class(c).kind # "busy")
    <3>1. CASE f[r].pc = "a_relock" /\ w.st[r] \in {"sleep", "ready"} /\ c \in PortsOf(r)
      <4>1. f[r].op \in prog.menu[r] /\ f[r].op.op \in AltOps
        BY <1>2, <2>3, <2>4, <3>1, HeldReads
      <4>2. c \in ToSet(f[r].op.ports) \cap Chans
        BY <3>1 DEF PortsOf
      <4>3. Class(c).kind # "busy"
        BY <1>2, <4>1, <4>2 DEF Proper, Class
      <4>4. QED
        BY <3>1, <4>3 DEF WakesFrom
    <3>2. CASE f[r].pc = "r_woken" /\ c = f[r].ch /\ w.st[r] \in {"ready", WakesFrom(c)}
      <4>1. CASE Class(c).kind = "busy"
        <5>1. w.st[r] \in {"sleep", "busy"}
          BY <1>2, <2>1, <3>2, <4>1 DEF Settled, AsleepHeld, AsleepBy, Trusts
        <5>2. QED
          BY <3>2, <5>1
      <4>2. CASE Class(c).kind # "busy"
        BY <3>2, <4>2
      <4>3. QED
        BY <4>1, <4>2
    <3>3. QED
      BY <1>2, <2>3, <2>4, <3>1, <3>2, HeldWaits
  <2>6. w'.fault = w.fault
    BY <1>2, <2>1, <2>5 DEF Notified, WakerStarted, ReaderWoken
  <2>7. QED
    BY <2>2, <2>6 DEF Safe, RunsFree
<1>3. QED
  BY <1>1, <1>2, WriteNotifyFacts

(* No one is registered where the thread is about to register.             *)
LEMMA NoOneThere ==
  ASSUME NEW S, Inv(S), Settled, Does, Proper(prog), NEW t \in Users, cur = t, NEW p \in Ports,
         f[t].op \in prog.menu[t], p \in ReadsFrom(f[t].op), p \notin Held(f[t])
  PROVE  /\ p \in Chans /\ Class(p).multi = FALSE => w.ch[p].readers = {}
         /\ p \in Timeouts => w.to[p].writet # TRUE
         /\ p \in Results => w.res[p].rt = NULL
<1>1. ASSUME NEW u \in Users, p \in Held(f[u]) PROVE p \in Chans /\ Class(p).multi
  <2>1. u # t
    BY <1>1
  <2>2. f[u].op \in prog.menu[u] /\ p \in ReadsFrom(f[u].op)
    BY <1>1, <2>1, HeldReads
  <2>3. QED
    BY <2>1, <2>2 DEF Proper, Class
<1>2. ASSUME p \in Chans, Class(p).multi = FALSE PROVE w.ch[p].readers = {}
  <2>1. SUFFICES ASSUME NEW u \in w.ch[p].readers PROVE FALSE
    OBVIOUS
  <2>2. u \in Users
    BY <1>2 DEF Inv, Typed, World, Channel
  <2>3. p \in Held(f[u])
    BY <1>2, <2>2 DEF Settled, Registers, Owes
  <2>4. QED
    BY <1>1, <1>2, <2>2, <2>3
<1>3. ASSUME p \in Timeouts PROVE w.to[p].writet # TRUE
  BY <1>1, <1>3, DistinctObjects DEF Settled, TimersHeld
<1>4. ASSUME p \in Results PROVE w.res[p].rt = NULL
  <2>1. w.res[p].rt \in Users \cup {NULL}
    BY <1>4 DEF Inv, Typed, World
  <2>2. \A u \in Users : w.res[p].rt = u => p \in Held(f[u])
    BY <1>4 DEF Settled, Registers, Owes
  <2>3. QED
    BY <1>1, <1>4, <2>1, <2>2, DistinctObjects
<1>5. QED
  BY <1>2, <1>3, <1>4

LEMMA EnrolSafe ==
  ASSUME NEW S, Inv(S), Settled, Does, Proper(prog), OwnResults, NEW t \in Users, RunsFree(t),
         Goes(t), cur' = t, f[t].pc \notin Sleeps, f'[t].pc # "idle", NEW p \in Ports,
         f[t].op \in prog.menu[t], p \in ReadsFrom(f[t].op), p \notin Held(f[t]),
         Held(f'[t]) = Held(f[t]) \cup {p}, SetNotified(w, w', p, t)
  PROVE  Safe(t)
<1>1. cur = t
  BY DEF RunsFree
<1>2. /\ p \in Chans /\ Class(p).multi = FALSE => w.ch[p].readers = {}
      /\ p \in Timeouts => w.to[p].writet # TRUE
      /\ p \in Results => w.res[p].rt = NULL
  BY <1>1, NoOneThere
<1>3. \/ p \in Chans /\ Registered(w, w', p, t)
      \/ p \in Timeouts /\ Timed(w, w', p, t)
      \/ p \in Results /\ ResultAwaited(w, w', p, t)
  BY <1>2 DEF SetNotified
<1>4. StepOK(t)
  BY <1>3, EnrolStep
<1>5. w'.fault = w.fault
  BY <1>3 DEF Registered, Timed, ResultAwaited
<1>6. QED
  BY <1>4, <1>5 DEF Safe, RunsFree

LEMMA GoesToSleep ==
  ASSUME NEW S, FramesOK(S, f), NEW t \in Users, Goto(t, "w_sleep") \/ Goto(t, "held_sleep")
  PROVE  f'[t].pc \in {"w_sleep", "held_sleep"} /\ f'[t].ch = f[t].ch
<1>1. Goto(t, "w_sleep") => Went(t, "w_sleep")
  BY GotoFacts
<1>2. Goto(t, "held_sleep") => Went(t, "held_sleep")
  BY GotoFacts
<1>3. Went(t, "w_sleep") \/ Went(t, "held_sleep")
  BY <1>1, <1>2
<1>4. QED
  BY <1>3 DEF Went, NewFrame

(* write() from the test for room to its end.                              *)
LEMMA WriteSafe ==
  ASSUME NEW S, Inv(S), Fifo, Settled, NEW t \in Users, RunsFree(t), Goes(t),
         WriteFull(t) \/ WriteStore(t) \/ WriteHeld(t)
  PROVE  Safe(t)
<1>0. /\ cur' = t /\ f[t].pc \in {"w_full", "w_store", "w_held"} /\ FramesOK(S, f)
      /\ f[t].ch \in Chans /\ cur = t
  BY DEF WriteFull, WriteStore, WriteHeld, At, Keeps, Inv, Typed, FramesOK, FrameFits, WritePcs
<1>1. f[t].pc \notin Sleeps /\ HeldKept(t)
  BY <1>0, HeldStays DEF Sleeps
<1>2. ASSUME NEW q, WritersIs(w, w', f[t].ch, q), Goto(t, "w_sleep") \/ Goto(t, "held_sleep"),
             q \in {Append(w.ch[f[t].ch].writers, t), <<t>> \o w.ch[f[t].ch].writers}
      PROVE  Safe(t)
  <2>1. PICK c \in Chans : c = f[t].ch
    BY <1>0
  <2>2. f'[t].pc \in {"w_sleep", "held_sleep"} /\ f'[t].ch = c
    <3>1. FramesOK(S, f)
      BY <1>0
    <3>2. f'[t].pc \in {"w_sleep", "held_sleep"} /\ f'[t].ch = f[t].ch
      BY <1>2, <3>1, GoesToSleep
    <3>3. QED
      BY <2>1, <3>2
  <2>3. StepOK(t)
    BY <1>0, <1>1, <1>2, <2>1, <2>2, LineUpStep
  <2>4. QED
    BY <1>2, <2>3 DEF Safe, WritersIs, RunsFree
<1>3. CASE WriteFull(t)
  <2>1. CASE w' = w
    BY <1>0, <1>1, <2>1, CalmSafe DEF Alike, SameObjects
  <2>2. CASE w' # w
    BY <1>2, <1>3, <2>2, WriteFullFacts
  <2>3. QED
    BY <2>1, <2>2
<1>4. CASE WriteHeld(t)
  <2>1. CASE WriterLetIn(w, w', f[t].ch)
    <3>1. PICK y : y = w
      OBVIOUS
    <3>2. SameWriters(w, y) /\ SameReaders(w, y) /\ SameOthers(w, y)
      BY <3>1 DEF SameWriters, SameReaders, SameOthers
    <3>3. QED
      BY <1>0, <1>1, <2>1, <3>1, <3>2, LetInSafe
  <2>2. QED
    BY <1>2, <1>4, <2>1, WriteHeldFacts
<1>5. CASE WriteStore(t)
  <2>1. Wrote(w, w', f[t].ch, f[t].val, now)
    BY <1>5, WriteStoreFacts
  <2>2. PICK c \in Chans : c = f[t].ch
    BY <1>0
  <2>3. f[t].pc = "w_store"
    BY <1>5 DEF WriteStore, At
  <2>4. ~Full(Class(c), w.ch[c])
    BY <2>2, <2>3 DEF Fifo, HasRoom
  <2>5. Capacity(c) = 0 \/ Len(w.ch[c].store) < Capacity(c)
    BY <2>4, RoomCapacity
  <2>6. Class(c).size \in Nat
    BY ClassOK DEF Inv
  <2>7. SizeOK(Class(c), w'.ch[c])
    <3>1. SUFFICES ASSUME ~OneItem(Class(c)), Class(c).size # 0
                   PROVE  Len(w'.ch[c].store) <= Class(c).size
      BY DEF SizeOK
    <3>2. Len(w.ch[c].store) < Class(c).size
      BY <2>5, <2>6, <3>1 DEF Capacity, Interlocked
    <3>3. PICK i : w'.ch[c].store = Append(w.ch[c].store, i)
      BY <2>1, <2>2, <3>1 DEF Wrote
    <3>4. w.ch[c].store \in Seq(Item(S))
      BY DEF Inv, Typed, World, Channel
    <3>5. Len(w'.ch[c].store) = Len(w.ch[c].store) + 1 /\ Len(w.ch[c].store) \in Nat
      BY <3>3, <3>4
    <3>6. QED
      BY <2>6, <3>2, <3>5
  <2>8. w'.fault = w.fault /\ w'.st = w.st
    BY <2>1, <2>2, <2>7 DEF Wrote
  <2>9. RegsKept /\ ListsKept /\ LinesKept
    BY <2>1 DEF Wrote, SameReaders, SameOthers, RegsKept, ListsKept, LinesKept
  <2>10. QED
    BY <1>0, <1>1, <2>8, <2>9, CalmSafe
<1>6. QED
  BY <1>3, <1>4, <1>5

(* clear() and clear_ready(), also by the reflector.                       *)
LEMMA ClearedSafe ==
  ASSUME NEW S, Inv(S), Settled, NEW t \in Users, RunsFree(t), Goes(t), cur' = t,
         f[t].pc \notin Sleeps, HeldKept(t), NEW c \in Chans, ClearedTo(w, w', c)
  PROVE  Safe(t)
<1>1. ASSUME NEW q, StoreIs(w, w', c, q) PROVE Safe(t)
  <2>1. RegsKept /\ ListsKept /\ LinesKept /\ w'.st = w.st /\ w'.fault = w.fault
    BY <1>1 DEF StoreIs, SameReaders, SameOthers, RegsKept, ListsKept, LinesKept, SameWriters
  <2>2. QED
    BY <2>1, CalmSafe
<1>2. ASSUME NEW q, NEW y, StoreIs(w, y, c, q), WriterLetIn(y, w', c) PROVE Safe(t)
  <2>1. /\ y.st = w.st /\ y.fault = w.fault /\ SameWriters(w, y) /\ SameReaders(w, y)
        /\ SameOthers(w, y)
    BY <1>2 DEF StoreIs, SameWriters
  <2>2. QED
    BY <1>2, <2>1, LetInSafe
<1>3. QED
  BY <1>1, <1>2 DEF ClearedTo, StoreThenWriter

LEMMA ClearSafe ==
  ASSUME NEW S, Inv(S), Settled, NEW t \in Users, RunsFree(t), Goes(t), Clear(t) \/ Reflect(t)
  PROVE  Safe(t)
<1>0. /\ cur' = t /\ f[t].pc \in {"clear", "clear_ready", "reflect", "b_next"}
  BY DEF Clear, Reflect, At, Keeps
<1>1. f[t].pc \notin Sleeps /\ HeldKept(t)
  BY <1>0, HeldStays DEF Sleeps
<1>2. CASE w' = w
  BY <1>0, <1>1, <1>2, CalmSafe DEF Alike, SameObjects
<1>3. ASSUME NEW c \in Chans, ClearedTo(w, w', c) PROVE Safe(t)
  BY <1>0, <1>1, <1>3, ClearedSafe
<1>4. QED
  BY <1>2, <1>3, ClearFacts, ReflectFacts

(* read_internal().                                                        *)
LEMMA ReadSafe ==
  ASSUME NEW S, Inv(S), Settled, Does, Proper(prog), OwnResults, NEW t \in Users, RunsFree(t),
         Goes(t), FoundBy(t),
         ReadWriter(t) \/ ReadReady(t) \/ ReadWoken(t) \/ ReadTake(t) \/ ReadReturn(t)
  PROVE  Safe(t)
<1>0. /\ cur' = t /\ cur = t /\ f[t].pc \in ReadPcs /\ FramesOK(S, f) /\ f[t].ch \in Chans
      /\ f[t].pc \notin Sleeps /\ w.st[t] = "run"
  BY DEF ReadWriter, ReadReady, ReadWoken, ReadTake, ReadReturn, At, Keeps, Inv, Typed, FramesOK,
     FrameFits, ReadPcs, Sleeps, RunsFree
<1>1. PICK c \in Chans : c = f[t].ch
  BY <1>0
<1>2. ASSUME w' = w, HeldKept(t) PROVE Safe(t)
  BY <1>0, <1>2, CalmSafe DEF Alike, SameObjects
<1>3. CASE ReadWriter(t) \/ ReadReturn(t)
  <2>1. HeldKept(t)
    BY <1>3, HeldStays DEF ReadWriter, ReadReturn, At
  <2>2. CASE WriterLetIn(w, w', f[t].ch)
    <3>1. PICK y : y = w
      OBVIOUS
    <3>2. SameWriters(w, y) /\ SameReaders(w, y) /\ SameOthers(w, y)
      BY <3>1 DEF SameWriters, SameReaders, SameOthers
    <3>3. QED
      BY <1>0, <2>1, <2>2, <3>1, <3>2, LetInSafe
  <2>3. QED
    BY <1>2, <1>3, <2>1, <2>2, ReadWriterFacts
<1>4. CASE ReadReady(t)
  <2>1. f[t].pc = "r_ready" /\ Held(f[t]) = {} /\ HeldKept(t)
    BY <1>4, HeldStays DEF ReadReady, At, Held
  <2>2. CASE w' = w
    BY <1>2, <2>1, <2>2
  <2>3. CASE w' # w
    <3>1. Goto(t, "r_sleep")
      BY <1>4, <2>3, ReadReadyFacts
    <3>2. f'[t].pc = "r_sleep" /\ f'[t].ch = c
      BY <1>0, <1>1, <3>1, GotoFacts DEF Went, NewFrame
    <3>3. Held(f'[t]) = Held(f[t]) \cup {c} /\ c \notin Held(f[t]) /\ c \in Ports
      BY <2>1, <3>2 DEF Held, Ports
    <3>4. SetNotified(w, w', c, t)
      BY <1>1, <1>4, <2>3, ReadReadyFacts DEF SetNotified
    <3>5. f[t].op \in prog.menu[t] /\ c \in ReadsFrom(f[t].op)
      BY <1>0, <1>1, <2>1 DEF Does, Doing
    <3>6. QED
      BY <1>0, <3>2, <3>3, <3>4, <3>5, EnrolSafe
  <2>4. QED
    BY <2>2, <2>3
<1>5. CASE ReadWoken(t)
  <2>1. f[t].pc = "r_woken" /\ Held(f[t]) = {c} /\ c \in Ports /\ c \notin Timeouts \cup Results
    BY <1>1, <1>5, DistinctObjects DEF ReadWoken, At, Held, Ports
  <2>2. Goto(t, "r_ready") \/ Goto(t, "r_take")
    BY <1>5, ReadWokenFacts
  <2>3. f'[t].pc \in {"r_ready", "r_take"}
    BY <1>0, <2>2, GotoFacts DEF Went, NewFrame
  <2>4. Held(f'[t]) = {}
    BY <2>3 DEF Held
  <2>5. CASE Class(c).kind = "chan" \/ (Class(c).kind = "clock" /\ Class(c).multi)
    <3>1. Forgotten(w, w', c, t)
      BY <1>1, <1>5, <2>5, ReadWokenFacts
    <3>2. ClearNotified(w, w', c, t)
      BY <3>1 DEF ClearNotified
    <3>3. Held(f'[t]) = Held(f[t]) \ {c}
      BY <2>1, <2>4
    <3>4. StepOK(t)
      BY <1>0, <2>1, <3>2, <3>3, LeaveStep
    <3>5. QED
      BY <3>1, <3>4 DEF Safe, Forgotten, RunsFree
  <2>6. CASE ~(Class(c).kind = "chan" \/ (Class(c).kind = "clock" /\ Class(c).multi))
    <3>1. w' = w
      BY <1>1, <1>5, <2>6, ReadWokenFacts
    <3>2. Trusts(Class(c))
      BY <2>6, ClassOK DEF Trusts, Inv
    <3>3. t \notin w.ch[c].readers
      BY <1>0, <1>1, <2>1, <3>2 DEF Settled, AsleepHeld, AsleepBy
    <3>4. ~Owes(c, t)
      BY <2>1, <3>3 DEF Owes
    <3>5. HeldKept(t)
      BY <2>1, <3>4 DEF HeldKept
    <3>6. QED
      BY <1>2, <3>1, <3>5
  <2>7. QED
    BY <2>5, <2>6
<1>6. CASE ReadTake(t)
  <2>1. f[t].pc = "r_take" /\ HeldKept(t)
    BY <1>6, HeldStays DEF ReadTake, At
  <2>2. w.ch[f[t].ch].store # <<>>
    BY <2>1 DEF FoundBy
  <2>3. CASE w' = w
    BY <1>2, <2>1, <2>3
  <2>4. CASE Took(w, w', f[t].ch, got, got')
    <3>1. ClearedTo(w, w', f[t].ch)
      BY <2>4 DEF Took, ClearedTo
    <3>2. QED
      BY <1>0, <2>1, <3>1, ClearedSafe
  <2>5. QED
    BY <1>6, <2>2, <2>3, <2>4, ReadTakeFacts
<1>7. QED
  BY <1>3, <1>4, <1>5, <1>6

(* An alt block.                                                           *)
LEMMA AltSafe ==
  ASSUME NEW S, Inv(S), Settled, Does, Proper(prog), OwnResults, NEW t \in Users, RunsFree(t),
         Goes(t),
         AltLock(t) \/ AltScan(t) \/ AltRegister(t) \/ AltClear(t) \/ AltGet(t) \/ AltUnlock(t)
  PROVE  Safe(t)
<1>0. /\ cur' = t /\ cur = t /\ f[t].pc \in AltPcs /\ FramesOK(S, f) /\ f[t].pc \notin Sleeps
      /\ Doing(t)
  BY DEF AltLock, AltScan, AltRegister, AltClear, AltGet, AltUnlock, At, Keeps, Inv, Typed,
     FramesOK, AltPcs, PortPcs, Sleeps, Does
<1>1. /\ IsInjective(f[t].op.ports) /\ ReadsFrom(f[t].op) = PortsOf(t) /\ f[t].op \in prog.menu[t]
      /\ f[t].op \in Calls /\ f[t].idx \in Nat
  BY <1>0, AltCalls DEF Inv, Typed, FrameFits, Frame
<1>2. ASSUME f[t].pc \in {"a_register", "a_clear"}, ~AtEnd(t), NextPort(t)
      PROVE  /\ f'[t].pc = f[t].pc
             /\ f[t].pc = "a_register" =>
                  Held(f'[t]) = Held(f[t]) \cup {Port(t)} /\ Port(t) \notin Held(f[t])
             /\ f[t].pc = "a_clear" => Held(f'[t]) = Held(f[t]) \ {Port(t)}
  <2>1. f'[t].pc = f[t].pc /\ f'[t].op = f[t].op /\ f'[t].idx = f[t].idx + 1
    BY <1>0, <1>2, NextPortFacts DEF NewFrame
  <2>2. f[t].idx \in 1..Len(AltPorts(t))
    BY <1>1, <1>2, PortKind DEF Inv
  <2>3. /\ Behind(f'[t]) = Behind(f[t]) \cup {Port(t)} /\ Port(t) \notin Behind(f[t])
        /\ Ahead(f'[t]) = Ahead(f[t]) \ {Port(t)}
    BY <1>1, <2>1, <2>2, HeldNext DEF Port
  <2>4. QED
    BY <1>2, <2>1, <2>3 DEF Held
<1>3. PortsOf(t) \subseteq Ports
  BY <1>1, OrderFacts, AltPortsFacts DEF PortsOf, ToSet
<1>4. CASE /\ AltRegister(t) /\ ~AtEnd(t) /\ Port(t) \in PortsOf(t) /\ NextPort(t)
           /\ SetNotified(w, w', Port(t), t)
  <2>1. f[t].pc = "a_register"
    BY <1>4 DEF AltRegister, At
  <2>2. /\ f'[t].pc # "idle" /\ Held(f'[t]) = Held(f[t]) \cup {Port(t)} /\ Port(t) \notin Held(f[t])
    BY <1>2, <1>4, <2>1
  <2>3. PICK p \in Ports : p = Port(t)
    BY <1>3, <1>4
  <2>4. QED
    BY <1>0, <1>1, <1>4, <2>2, <2>3, EnrolSafe
<1>5. CASE /\ AltClear(t) /\ ~AtEnd(t) /\ Port(t) \in PortsOf(t) /\ NextPort(t)
           /\ ClearNotified(w, w', Port(t), t)
  <2>1. f[t].pc = "a_clear"
    BY <1>5 DEF AltClear, At
  <2>2. PICK p \in Ports : p = Port(t)
    BY <1>3, <1>5
  <2>3. Held(f'[t]) = Held(f[t]) \ {p}
    BY <1>2, <1>5, <2>1, <2>2
  <2>4. StepOK(t)
    BY <1>0, <1>5, <2>2, <2>3, LeaveStep
  <2>5. w'.fault = w.fault
    BY <1>5 DEF ClearNotified, Forgotten, Untimed, ResultLeft
  <2>6. QED
    BY <2>4, <2>5 DEF Safe, RunsFree
<1>6. CASE Alike(w, w') /\ ~AltClear(t)
  <2>1. f[t].pc \notin {"r_woken", "a_clear"}
    BY <1>6 DEF AltLock, AltScan, AltRegister, AltGet, AltUnlock, At
  <2>2. QED
    BY <1>0, <1>6, <2>1, HeldStays, CalmSafe
<1>7. CASE AltClear(t) /\ AtEnd(t)
  <2>1. w' = w /\ f[t].pc = "a_clear" /\ FirstPort(t, "a_scan")
    BY <1>7 DEF AltClear, At
  <2>2. Held(f[t]) = {}
    BY <1>1, <1>7, <2>1, HeldSets DEF Held, AtEnd
  <2>3. HeldKept(t)
    BY <2>2 DEF HeldKept
  <2>4. QED
    BY <1>0, <2>1, <2>3, CalmSafe DEF Alike, SameObjects
<1>8. CASE AltClear(t) /\ ~AtEnd(t)
  <2>1. w' = ClearNotify(w, Port(t), t) /\ NextPort(t) /\ f[t].pc = "a_clear"
    BY <1>8 DEF AltClear, At
  <2>2. Port(t) \in PortsOf(t)
    <3>1. f[t].idx \in 1..Len(AltPorts(t))
      BY <1>1, <1>8, <2>1, PortKind DEF Inv
    <3>2. QED
      BY <1>1, <3>1, AltPortsFacts DEF Port
  <2>3. ClearNotified(w, w', Port(t), t)
    BY <1>3, <2>1, <2>2, ClearNotifyFacts
  <2>4. QED
    BY <1>5, <1>8, <2>1, <2>2, <2>3
<1>9. QED
  BY <1>4, <1>6, <1>7, <1>8, AltFacts

LEMMA RunSafe ==
  ASSUME NEW S, Inv(S), Fifo, Settled, Does, Found, Proper(prog), OwnResults, NEW t \in Users, Run(t)
  PROVE  Safe(t)
<1>0. /\ RunsFree(t) /\ Doing(t) /\ FoundBy(t) /\ prog' = prog /\ cur = t
  BY RunFree, RunMoves, RunRest DEF Does, Found
<1>1. Goes(t)
  BY <1>0, RunGoes
<1>2. CASE End(t) \/ DelayCall(t) \/ Sleep(t)
  BY <1>0, <1>1, <1>2, EndStep, DelayStep, SleepStep
<1>3. CASE WriteNotify(t)
  BY <1>0, <1>1, <1>3, NotifySafe
<1>4. CASE WriteFull(t) \/ WriteStore(t) \/ WriteHeld(t)
  BY <1>0, <1>1, <1>4, WriteSafe
<1>5. CASE ReadWriter(t) \/ ReadReady(t) \/ ReadWoken(t) \/ ReadTake(t) \/ ReadReturn(t)
  BY <1>0, <1>1, <1>5, ReadSafe
<1>6. CASE Clear(t) \/ Reflect(t)
  BY <1>0, <1>1, <1>6, ClearSafe
<1>7. CASE AltLock(t) \/ AltScan(t) \/ AltRegister(t) \/ AltClear(t) \/ AltGet(t) \/ AltUnlock(t)
  BY <1>0, <1>1, <1>7, AltSafe
<1>8. CASE \E o \in prog.menu[t] : Start(t, o)
  <2>1. w' = w /\ cur' = t /\ f[t].pc = "idle"
    BY <1>0, <1>8 DEF Start, At
  <2>2. f[t].pc \notin Sleeps /\ HeldKept(t)
    BY <1>1, <2>1, HeldStays DEF Sleeps
  <2>3. QED
    BY <1>0, <1>1, <2>1, <2>2, CalmSafe DEF Alike, SameObjects
<1>9. CASE ToGet(t)
  <2>1. cur' = t /\ f[t].pc = "to_get"
    BY <1>0, <1>9 DEF ToGet, At, Keeps
  <2>2. f[t].pc \notin Sleeps /\ HeldKept(t)
    BY <1>1, <2>1, HeldStays DEF Sleeps
  <2>3. ToGot(w, w', f[t].ch) /\ w.to[f[t].ch].ready = TRUE
    BY <1>0, <1>9, <2>1, ToGetFacts DEF FoundBy
  <2>4. RegsKept /\ ListsKept /\ LinesKept /\ w'.st = w.st /\ w'.fault = w.fault
    BY <2>3 DEF ToGot, SameTimers, RegsKept, ListsKept, LinesKept, SameWriters
  <2>5. QED
    BY <1>0, <1>1, <2>1, <2>2, <2>4, CalmSafe
<1>10. CASE ResGet(t) /\ cur' # cur
  BY <1>0, <1>1, <1>10, ResBlockStep
<1>11. CASE (ResGet(t) /\ cur' = cur) \/ ResClear(t)
  <2>1. cur' = t /\ f[t].pc \in ResOps
    BY <1>0, <1>11 DEF ResGet, ResClear, At, Keeps, ResOps
  <2>2. f[t].pc \notin Sleeps /\ HeldKept(t)
    BY <1>1, <2>1, HeldStays DEF Sleeps, ResOps
  <2>3. ResultGot(w, w', f[t].ch, t) /\ w'.st = w.st /\ w'.waiters = w.waiters
    BY <1>11, ResGetFacts
  <2>4. RegsKept /\ ListsKept /\ LinesKept /\ w'.fault = w.fault
    BY <2>3 DEF ResultGot, SameAwaited, RegsKept, ListsKept, LinesKept, SameWriters
  <2>5. QED
    BY <1>0, <1>1, <2>1, <2>2, <2>3, <2>4, CalmSafe
<1>12. QED
  BY <1>2, <1>3, <1>4, <1>5, <1>6, <1>7, <1>8, <1>9, <1>10, <1>11 DEF Run

-----------------------------------------------------------------------------
(* The helpers and the scheduler.                                          *)
LEMMA AsideStep ==
  ASSUME NEW S, Inv(S), Settled, cur \notin Users, f' = f, NEW t, t \notin Users,
         ListsKept, LinesKept, SameAwaited(w, w'), Rouses(t),
         \A p \in Ports, u \in Users : Owes(p, u)' => Owes(p, u),
         \A o \in Timeouts : w'.to[o].writet = w.to[o].writet
  PROVE  StepOK(t)
<1>1. Others(t) /\ Alone(t) /\ Itself(t)
  BY DEF Others, Alone, Itself
<1>2. Enrols(t) /\ Timing(t)
  BY DEF Enrols, Timing
<1>3. Lists(t)
  BY DEF ListsKept, SameAwaited, Lists, Settled, WaitersOnce
<1>4. Lines(t)
  BY DEF LinesKept, SameWriters, Lines, Settled, WritersOnce
<1>5. QED
  BY <1>1, <1>2, <1>3, <1>4 DEF StepOK

LEMMA ObjectsStep ==
  ASSUME NEW S, Inv(S), Settled, cur \notin Users, f' = f, NEW t, t \notin Users,
         SameObjects(w, w'), Rouses(t)
  PROVE  StepOK(t)
<1>1. w'.ch = w.ch /\ w'.to = w.to /\ w'.res = w.res /\ w'.waiters = w.waiters
  BY DEF SameObjects
<1>2. /\ ListsKept /\ LinesKept /\ SameAwaited(w, w')
      /\ \A o \in Timeouts : w'.to[o].writet = w.to[o].writet
  BY <1>1 DEF ListsKept, LinesKept, SameWriters, SameAwaited
<1>3. \A p \in Ports, u \in Users : Owes(p, u)' => Owes(p, u)
  BY <1>1 DEF Owes
<1>4. QED
  BY <1>2, <1>3, AsideStep

LEMMA TimerSafe ==
  ASSUME NEW S, Inv(S), Settled, f' = f, NEW o \in Timeouts, HelperFire(TimerOf(o))
  PROVE  Safe(TimerOf(o))
<1>0. /\ cur = TimerOf(o) /\ cur \notin Users /\ w.fault = "none" /\ TimerOf(o) \in Threads
      /\ \A u \in Users : u \in Threads /\ u # NULL /\ u # TimerOf(o)
  BY HelperIds DEF HelperFire, Runs
<1>1. TimerFired(w, w', o) /\ w \in World(S) /\ Good(S, w, cur)
  BY TimerFireFacts DEF Inv, Typed
<1>2. w.st[TimerOf(o)] = "run"
  BY <1>0, <1>1 DEF Good, OneRuns
<1>3. "run" \in Live
  BY DEF Live
<1>4. w.to[o].readt \in Users
  BY <1>1, <1>2, <1>3 DEF Good, TimersServe, World
<1>5. PICK r \in Users : r = w.to[o].readt
  BY <1>4
<1>6. o \in Ports /\ o \notin Chans
  BY DistinctObjects DEF Ports
<1>7. w.st[r] \in {"sleep", "ready"}
  <2>1. o \in Held(f[r]) /\ r # cur
    BY <1>0, <1>5, <1>6 DEF Settled, Registers, Owes
  <2>2. QED
    BY <1>6, <2>1, HeldWaits
<1>8. w'.fault = "none"
  BY <1>0, <1>1, <1>5, <1>7 DEF TimerFired
<1>9. Rouses(TimerOf(o))
  <2>1. \A u \in Users : w'.st[u] = w.st[u] \/ (u = r /\ w'.st[u] = "ready")
    BY <1>0, <1>1, <1>5 DEF TimerFired
  <2>2. QED
    BY <1>5, <2>1 DEF Rouses, Cause
<1>10. /\ w'.ch = w.ch /\ w'.res = w.res /\ w'.waiters = w.waiters
       /\ \A p \in Timeouts : /\ w'.to[p].readt = IF p = o THEN NULL ELSE w.to[p].readt
                              /\ w'.to[p].writet = w.to[p].writet
  BY <1>1 DEF TimerFired
<1>11. ListsKept /\ LinesKept /\ SameAwaited(w, w')
  BY <1>10 DEF ListsKept, LinesKept, SameWriters, SameAwaited
<1>12. \A p \in Ports, u \in Users : Owes(p, u)' => Owes(p, u)
  BY <1>0, <1>10 DEF Owes
<1>13. TimerOf(o) \notin Users
  BY <1>0
<1>14. StepOK(TimerOf(o))
  BY <1>0, <1>9, <1>10, <1>11, <1>12, <1>13, AsideStep
<1>15. QED
  BY <1>8, <1>14 DEF Safe

LEMMA WakerSafe ==
  ASSUME NEW S, Inv(S), Settled, f' = f, NEW c \in Chans, NEW r \in Users, HelperFire(WakerOf(c, r))
  PROVE  Safe(WakerOf(c, r))
<1>0. /\ cur = WakerOf(c, r) /\ cur \notin Users /\ w.fault = "none" /\ WakerOf(c, r) \in Threads
      /\ \A u \in Users : u \in Threads /\ u # NULL /\ u # WakerOf(c, r)
  BY HelperIds DEF HelperFire, Runs
<1>1. WakerFired(w, w', c, r) /\ w \in World(S) /\ Good(S, w, cur)
  BY WakerFireFacts DEF Inv, Typed
<1>2. w.st[WakerOf(c, r)] = "run"
  BY <1>0, <1>1 DEF Good, OneRuns
<1>3. "run" \in Live
  BY DEF Live
<1>4. r \in w.ch[c].wakers
  BY <1>1, <1>2, <1>3 DEF Good, WakersServe
<1>5. r \in w.ch[c].readers /\ Class(c).kind = "clock"
  BY <1>1, <1>4 DEF Good, WakersRead, WakersClocked
<1>6. w.st[r] \in {"sleep", "ready"}
  <2>1. c \in Ports /\ c \in Held(f[r]) /\ r # cur
    BY <1>0, <1>5 DEF Settled, Registers, Owes, Ports
  <2>2. WakesFrom(c) = "sleep"
    BY <1>5 DEF WakesFrom
  <2>3. QED
    BY <2>1, <2>2, HeldWaits
<1>7. w'.fault = "none"
  BY <1>0, <1>1, <1>5, <1>6 DEF WakerFired
<1>8. /\ ListsKept /\ LinesKept /\ SameAwaited(w, w') /\ SameOthers(w, w')
      /\ \A d \in Chans : w'.ch[d].readers = IF d = c THEN w.ch[c].readers \ {r} ELSE w.ch[d].readers
  BY <1>1 DEF WakerFired, NewReaders, ListsKept, LinesKept, SameOthers, SameAwaited
<1>9. Rouses(WakerOf(c, r))
  <2>1. \A u \in Users : w'.st[u] = w.st[u] \/ (u = r /\ w'.st[u] = "ready")
    BY <1>0, <1>1 DEF WakerFired
  <2>2. r \notin w'.ch[c].readers
    BY <1>8
  <2>3. QED
    BY <1>5, <2>1, <2>2 DEF Rouses, Cause
<1>10. \A p \in Ports, u \in Users : Owes(p, u)' => Owes(p, u)
  BY <1>8 DEF Owes, SameOthers
<1>11. WakerOf(c, r) \notin Users /\ \A o \in Timeouts : w'.to[o].writet = w.to[o].writet
  BY <1>0, <1>8 DEF SameOthers
<1>12. StepOK(WakerOf(c, r))
  BY <1>0, <1>8, <1>9, <1>10, <1>11, AsideStep
<1>13. QED
  BY <1>7, <1>12 DEF Safe

LEMMA DispatchSafe ==
  ASSUME NEW S, Inv(S), Settled, NEW t \in Users, Dispatch(t)
  PROVE  Safe(t)
<1>0. /\ cur = NULL /\ cur' = t /\ f' = f /\ w.st[t] = "ready" /\ w.fault = "none" /\ t # NULL
      /\ \A u \in Users : u \in Threads /\ u # NULL
  BY HelperIds DEF Dispatch, ReadyThreads
<1>1. Moved(w, w', t, "run")
  BY <1>0, DispatchWorld
<1>2. /\ w'.ch = w.ch /\ w'.to = w.to /\ w'.res = w.res /\ w'.waiters = w.waiters
      /\ w'.fault = "none" /\ StatusKept(t)
  BY <1>0, <1>1 DEF Moved, SameObjects, StatusKept
<1>3. RegsKept /\ ListsKept /\ LinesKept /\ SameAwaited(w, w') /\ HeldKept(t)
  BY <1>0, <1>2 DEF RegsKept, ListsKept, LinesKept, SameWriters, SameAwaited, HeldKept
<1>4. Rouses(t) /\ Enrols(t) /\ Timing(t) /\ Lists(t) /\ Lines(t)
  BY <1>2, <1>3, KeptParts
<1>5. StandsBy(t)
  BY <1>0 DEF Settled, Stands
<1>6. \A c \in Chans : ~Holds(w.ch[c].writers, t)
  BY <1>0, <1>5 DEF Settled, WritersHeld, AwaitsRoom, StandsBy, Waits
<1>7. AsleepBy(t)'
  <2>1. prog' = prog /\ AsleepBy(t)
    BY DEF Dispatch, Quiet, Settled, AsleepHeld
  <2>2. QED
    BY <1>0, <1>2, <2>1 DEF AsleepBy, Class
<1>8. Itself(t)
  <2>1. f'[t].pc = "idle" =>
          \A x, y \in Users : Holds(w'.waiters[x], t) /\ Holds(w'.waiters[y], t) => x = y
    BY <1>0, <1>2 DEF Settled, WaitersOnce
  <2>2. QED
    BY <1>0, <1>2, <1>6, <1>7, <2>1 DEF Itself
<1>9. Others(t) /\ Alone(t)
  BY <1>0 DEF Others, Alone
<1>10. QED
  BY <1>2, <1>4, <1>8, <1>9 DEF Safe, StepOK

LEMMA SchedulerSafe ==
  ASSUME NEW S, Inv(S), Fifo, Settled, Scheduler
  PROVE  \E t : Safe(t)
<1>0. f' = f /\ prog' = prog /\ cur \notin Users
  BY SchedulerIdle DEF Fifo
<1>1. \A u \in Users : u \in Threads /\ u # NULL /\ u \notin Helpers
  BY HelperIds
<1>2. ASSUME NEW h \in Threads, h \notin Users, NEW how, Moved(w, w', h, how), w.fault = "none"
      PROVE  \E t : Safe(t)
  <2>1. SameObjects(w, w') /\ w'.fault = "none" /\ \A u \in Users : w'.st[u] = w.st[u]
    BY <1>1, <1>2 DEF Moved
  <2>2. Rouses(h)
    BY <2>1 DEF Rouses
  <2>3. StepOK(h)
    BY <1>0, <1>2, <2>1, <2>2, ObjectsStep
  <2>4. QED
    BY <2>1, <2>3 DEF Safe
<1>3. ASSUME NEW h \in Helpers, HelperDelay(h) PROVE \E t : Safe(t)
  <2>1. PICK d : w' = Left([w EXCEPT !.due[h] = d], h, "delay")
    BY <1>3 DEF HelperDelay, BlockIn, Left
  <2>2. h \in Threads /\ w \in World(S) /\ h \notin Users /\ w.fault = "none"
    BY <1>3, HelperIds DEF Inv, Typed, HelperDelay, Runs
  <2>3. Moved(w, w', h, "delay")
    BY <2>1, <2>2, DelayFacts
  <2>4. QED
    BY <1>2, <2>2, <2>3
<1>4. ASSUME NEW h \in Helpers, HelperFire(h) PROVE \E t : Safe(t)
  BY <1>0, <1>4, TimerSafe, WakerSafe DEF Helpers
<1>5. ASSUME NEW t \in Threads, Dispatch(t) PROVE \E u : Safe(u)
  <2>1. CASE t \in Users
    BY <1>5, <2>1, DispatchSafe
  <2>2. CASE t \notin Users
    <3>1. Moved(w, w', t, "run") /\ w.fault = "none"
      BY <1>5, DispatchWorld DEF Dispatch
    <3>2. QED
      BY <1>2, <2>2, <3>1
  <2>3. QED
    BY <2>1, <2>2
<1>6. CASE Advance
  <2>1. PICK T : TimePassed(w, w', T)
    BY <1>6, AdvanceWorld
  <2>2. w.fault = "none" /\ NULL \notin Users
    BY <1>1, <1>6 DEF Advance
  <2>3. SameObjects(w, w') /\ w'.fault = "none"
    BY <2>1, <2>2 DEF TimePassed
  <2>4. Rouses(NULL)
    BY <1>1, <2>1 DEF TimePassed, Rouses, Cause
  <2>5. StepOK(NULL)
    BY <1>0, <2>2, <2>3, <2>4, ObjectsStep
  <2>6. QED
    BY <2>3, <2>5 DEF Safe
<1>7. QED
  BY <1>3, <1>4, <1>5, <1>6 DEF Scheduler

-----------------------------------------------------------------------------
(* What a thread does and has found out, from step to step.                *)
LEMMA DoesStep ==
  ASSUME NEW t \in Users, Does, prog' = prog, Others(t), Doing(t)'
  PROVE  Does'
<1>1. SUFFICES ASSUME NEW u \in Users, u # t PROVE Doing(u)'
  BY DEF Does
<1>2. f'[u] = f[u] /\ Doing(u)
  BY <1>1 DEF Others, Does
<1>3. QED
  BY <1>2 DEF Doing

LEMMA WaitsFound ==
  ASSUME Stands' PROVE \A u \in Users : u # cur' => FoundBy(u)'
<1>1. SUFFICES ASSUME NEW u \in Users, u # cur' PROVE FoundBy(u)'
  OBVIOUS
<1>2. f'[u].pc \in Waits
  BY <1>1 DEF Stands, StandsBy
<1>3. QED
  BY <1>2 DEF FoundBy, Waits

(* The step that leads to each place where something is known.             *)
LEMMA CameFrom ==
  ASSUME NEW S, Inv(S), NEW t \in Users, Run(t), Proper(prog)
  PROVE  /\ f'[t].pc = "a_get" => AltScan(t) /\ f[t].pc = "a_scan"
         /\ f'[t].pc = "to_get" => AltGet(t)
         /\ f'[t].pc = "res_get" /\ f'[t].ret # "idle" => AltGet(t)
         /\ f'[t].pc = "r_sleep" => ReadReady(t)
         /\ f'[t].pc = "w_again" => WriteStore(t)
         /\ f'[t].pc \in {"a_get", "r_sleep", "w_again"} => Went(t, f'[t].pc)
<1>0. /\ f[t].ret \in {"idle", "a_unlock", "b_next"} /\ Ways(t)
  BY RunWays DEF Inv, Typed, Frame
<1>1. /\ f[t].pc = "a_scan" => AltScan(t)
      /\ f[t].pc = "r_ready" => ReadReady(t)
      /\ f[t].pc = "w_store" => WriteStore(t)
  BY DEF Run, Start, End, DelayCall, Sleep, Sleeps, WriteNotify, WriteFull, WriteStore, WriteHeld,
       ReadWriter, ReadReady, ReadWoken, ReadTake, ReadReturn, Clear, ToGet, ResGet, ResClear,
       AltLock, AltScan, AltRegister, AltClear, AltGet, AltUnlock, Reflect, At
<1> DEFINE Goal == /\ f'[t].pc = "a_get" => AltScan(t) /\ f[t].pc = "a_scan"
                   /\ f'[t].pc = "to_get" => AltGet(t)
                   /\ f'[t].pc = "res_get" /\ f'[t].ret # "idle" => AltGet(t)
                   /\ f'[t].pc = "r_sleep" => ReadReady(t)
                   /\ f'[t].pc = "w_again" => WriteStore(t)
                   /\ f'[t].pc \in {"a_get", "r_sleep", "w_again"} => Went(t, f'[t].pc)
<1>2. ASSUME NEW p, Edge(f[t], p), Went(t, p) PROVE Goal
  <2>1. f'[t].pc = p
    BY <1>2 DEF Went, NewFrame
  <2>2. /\ p = "a_get" => f[t].pc = "a_scan"
        /\ p \notin {"to_get", "res_get"}
        /\ p = "r_sleep" => f[t].pc = "r_ready"
        /\ p = "w_again" => f[t].pc = "w_store"
    BY <1>0, <1>2 DEF Edge
  <2>3. QED
    BY <1>1, <1>2, <2>1, <2>2
<1>3. ASSUME End(t) \/ ReadTake(t), f' = f PROVE Goal
  <2>1. f'[t].pc \in {"idle", "r_take"}
    BY <1>3 DEF End, ReadTake, At
  <2>2. QED
    BY <2>1
<1>4. ASSUME NEW o \in prog.menu[t], NewFrame(t, Entry(o), o.ch, o, 1, "idle") PROVE Goal
  <2>1. o \in Calls /\ o.op # "to_get"
    BY ChannelsAssumption DEF Inv, Typed, Proper
  <2>2. o.op \in ChanOps \cup ResOps \cup AltOps \cup {"to_get", "delay"}
    BY <2>1 DEF Calls
  <2>3. f'[t].pc \notin {"a_get", "to_get", "r_sleep", "w_again"} /\ f'[t].ret = "idle"
    BY <1>4, <2>1, <2>2 DEF NewFrame, Entry, ChanOps, ResOps, AltOps
  <2>4. QED
    BY <2>3
<1>5. ASSUME NEW p, NEW c, NEW o, NEW i, NEW r, NewFrame(t, p, c, o, i, r),
             p \in {"a_scan", "a_clear", "a_unlock", "a_register", "r_writer", "w_notify"}
      PROVE  Goal
  <2>1. f'[t].pc = p
    BY <1>5 DEF NewFrame
  <2>2. QED
    BY <1>5, <2>1
<1>6. ASSUME AltGet(t), NEW p, NewFrame(t, p, Port(t), f[t].op, f[t].idx, "a_unlock"),
             p \in {"r_writer", "to_get", "res_get"}
      PROVE  Goal
  <2>1. f'[t].pc = p
    BY <1>6 DEF NewFrame
  <2>2. QED
    BY <1>6, <2>1
<1>7. Goal
  <2> HIDE DEF Goal
  <2>1. QED
    BY <1>0, <1>2, <1>3, <1>4, <1>5, <1>6 DEF Ways
<1>8. QED
  BY <1>7

LEMMA FoundStep ==
  ASSUME NEW S, Inv(S), Settled, Found, Served, Proper(prog), NEW t \in Users, Run(t), Safe(t)
  PROVE  FoundBy(t)'
<1>0. /\ cur = t /\ prog' = prog /\ now' = now /\ FoundBy(t) /\ Moves(t) /\ w.st[t] = "run"
      /\ w'.fault = "none"
  BY RunMoves, RunRest, RunFree DEF Found, RunsFree, Safe
<1>1. ASSUME f'[t].pc = "a_get" PROVE PortReady(Port(t))'
  <2>1. AltScan(t) /\ Went(t, "a_get") /\ f[t].pc = "a_scan"
    BY <1>1, CameFrom
  <2>2. f'[t].op = f[t].op /\ f'[t].idx = f[t].idx
    BY <2>1 DEF Went, NewFrame
  <2>3. w' = w /\ PortReady(Port(t))
    <3>1. w' = w
      BY <2>1 DEF AltScan
    <3>2. /\ ~NewFrame(t, "a_unlock", f[t].ch, f[t].op, 1, f[t].ret)
          /\ ~NewFrame(t, "a_register", f[t].ch, f[t].op, 1, f[t].ret)
          /\ ~NewFrame(t, "a_scan", f[t].ch, f[t].op, f[t].idx + 1, f[t].ret)
      BY <1>1 DEF NewFrame
    <3>3. QED
      BY <2>1, <3>1, <3>2, AltMoves
  <2>4. Port(t)' = Port(t)
    BY <2>2 DEF Port, AltPorts
  <2>5. QED
    BY <1>0, <2>3, <2>4 DEF PortReady, Class
<1>2. ASSUME AltGet(t)
      PROVE  /\ f'[t].pc = "to_get" => w'.to[f'[t].ch].ready = TRUE
             /\ f'[t].pc = "res_get" => w'.st[ResThread[f'[t].ch]] = "done"
  <2>1. f[t].pc = "a_get" /\ PortReady(Port(t)) /\ w' = w
    BY <1>0, <1>2 DEF AltGet, At, FoundBy
  <2>2. PICK p : /\ NewFrame(t, p, Port(t), f[t].op, f[t].idx, "a_unlock")
                 /\ \/ Port(t) \in Chans /\ p = "r_writer"
                    \/ Port(t) \in Timeouts /\ p = "to_get"
                    \/ Port(t) \in Results /\ p = "res_get"
    BY <1>2, AltGetMoves
  <2>3. f'[t].pc = p /\ f'[t].ch = Port(t)
    BY <2>2 DEF NewFrame
  <2>4. Port(t) \in Timeouts => w.to[Port(t)].ready = TRUE
    BY <2>1, DistinctObjects DEF PortReady, Inv, Typed, World
  <2>5. Port(t) \in Results => w.st[ResThread[Port(t)]] = "done"
    BY <2>1, DistinctObjects DEF PortReady
  <2>6. QED
    BY <2>1, <2>2, <2>3, <2>4, <2>5
<1>3. ASSUME f'[t].pc = "r_sleep" PROVE t \in w'.ch[f'[t].ch].readers
  <2>1. ReadReady(t) /\ Went(t, "r_sleep")
    BY <1>3, CameFrom
  <2>2. f'[t].ch = f[t].ch /\ f[t].ch \in Chans
    BY <2>1, ReadReadyFacts DEF Went, NewFrame
  <2>3. Registered(w, w', f[t].ch, t)
    <3>1. ~Refused(w, w', "assert_readt")
      BY <1>0 DEF Refused
    <3>2. ~Went(t, "r_take")
      BY <1>3 DEF Went, NewFrame
    <3>3. ~Goto(t, "r_take")
      BY <3>2, GotoFacts DEF Inv, Typed, FramesOK
    <3>4. QED
      BY <2>1, <3>1, <3>3, ReadReadyFacts
  <2>4. QED
    BY <2>2, <2>3 DEF Registered, NewReaders
<1>4. ASSUME f'[t].pc = "w_again" PROVE w'.ch[f'[t].ch].store # <<>>
  <2>1. WriteStore(t) /\ Went(t, "w_again")
    BY <1>4, CameFrom
  <2>2. f'[t].ch = f[t].ch /\ f[t].ch \in Chans /\ Wrote(w, w', f[t].ch, f[t].val, now)
    BY <2>1, WriteStoreFacts DEF Went, NewFrame
  <2>3. w.ch[f[t].ch].store \in Seq(Item(S)) /\ [v |-> f[t].val, at |-> now] \in Item(S)
    BY <2>1, <2>2, WriteStoreFacts DEF Inv, Typed, World, Channel
  <2> DEFINE q == w.ch[f[t].ch].store
             i == [v |-> f[t].val, at |-> now]
  <2>4. w'.ch[f'[t].ch].store \in {<<i>>, Append(q, i)}
    BY <2>2 DEF Wrote
  <2> HIDE DEF q, i
  <2>5. q \in Seq(Item(S)) /\ i \in Item(S)
    BY <2>3 DEF q, i
  <2>6. Append(q, i) # <<>> /\ <<i>> # <<>>
    <3>1. Len(Append(q, i)) = Len(q) + 1 /\ Len(q) \in Nat /\ Len(<<i>>) = 1
      BY <2>5
    <3>2. QED
      BY <3>1
  <2>7. QED
    BY <2>4, <2>6
<1>5. ASSUME f'[t].pc = "r_take" PROVE w'.ch[f'[t].ch].store # <<>>
  <2>1. CASE /\ w' = w /\ f'[t].ch = f[t].ch /\ Ready(Class(f[t].ch), w.ch[f[t].ch], now)
    BY <2>1 DEF Ready, CurrentData, IsEmpty
  <2>2. CASE f'[t].ch = f[t].ch /\ ReadWoken(t) /\ Class(f[t].ch).kind \notin {"chan", "clock"}
    <3>1. w' = w /\ f[t].pc = "r_woken" /\ f[t].ch \in Chans
      BY <2>2, ReadWokenFacts DEF ReadWoken, At
    <3>2. Class(f[t].ch).kind \in {"queue", "busy"}
      BY <2>2, <3>1, ClassOK DEF Inv
    <3>3. t \notin w.ch[f[t].ch].readers
      BY <1>0, <3>1, <3>2 DEF Settled, AsleepHeld, AsleepBy, Trusts
    <3>4. Supplied(f[t].ch)
      BY <3>1, <3>2, <3>3 DEF Served, ServedBy, LooksAgain
    <3>5. QED
      BY <1>0, <2>2, <3>1, <3>4 DEF Supplied
  <2>3. CASE ReadTake(t) /\ f' = f
    <3>1. f[t].pc = "r_take"
      BY <1>5, <2>3
    <3>2. ~Went(t, "r_again")
      BY <2>3, <3>1 DEF Went, NewFrame
    <3>3. QED
      BY <1>0, <2>3, <3>2, TakeMoves
  <2>4. QED
    BY <1>0, <1>5, <2>1, <2>2, <2>3 DEF Moves
<1>6. QED
  BY <1>1, <1>2, <1>3, <1>4, <1>5, CameFrom DEF FoundBy

(* A store is emptied by a thread that reads from it or empties it.        *)
LEMMA EmptiesOwn ==
  ASSUME NEW S, Inv(S), NEW t \in Users, Run(t), Doing(t), NEW c \in Chans,
         w.ch[c].store # <<>>, w'.ch[c].store = <<>>
  PROVE  f[t].op \in prog.menu[t] /\ (c \in ReadsFrom(f[t].op) \/ c \in Empties(f[t].op))
<1>0. w.ch[c].store \in Seq(Item(S)) /\ FrameFits(f[t]) /\ f[t].idx \in Nat
  BY DEF Inv, Typed, World, Channel, Frame
<1>1. CASE WriteStore(t)
  <2>1. Wrote(w, w', f[t].ch, f[t].val, now) /\ [v |-> f[t].val, at |-> now] \in Item(S)
    BY <1>1, WriteStoreFacts
  <2> DEFINE q == w.ch[c].store
             i == [v |-> f[t].val, at |-> now]
  <2>2. w'.ch[c].store \in {q, <<i>>, Append(q, i)}
    BY <2>1 DEF Wrote
  <2>3. q \in Seq(Item(S)) /\ i \in Item(S)
    BY <1>0, <2>1
  <2> HIDE DEF i, q
  <2>4. Len(Append(q, i)) = Len(q) + 1 /\ Len(q) \in Nat /\ Len(<<i>>) = 1
    BY <2>3
  <2>5. Append(q, i) # <<>> /\ <<i>> # <<>>
    BY <2>4
  <2>6. QED
    BY <2>2, <2>5 DEF q
<1>2. CASE ReadTake(t)
  <2>1. f[t].pc = "r_take"
    BY <1>2 DEF ReadTake, At
  <2>2. f[t].ch = c
    BY <1>2, ReadTakeFacts, AlikeItems DEF Took, StoreIs, SameItems
  <2>3. QED
    BY <2>1, <2>2 DEF Doing, ReadPcs
<1>3. ASSUME NEW d \in Chans, ClearedTo(w, w', d) PROVE c = d
  BY <1>3 DEF ClearedTo, StoreThenWriter, StoreIs, WriterLetIn, SameItems
<1>4. CASE Clear(t)
  <2>1. f[t].pc \in {"clear", "clear_ready"}
    BY <1>4 DEF Clear, At
  <2>2. f[t].ch = c
    BY <1>3, <1>4, ClearFacts
  <2>3. QED
    BY <2>1, <2>2 DEF Doing
<1>5. CASE Reflect(t)
  <2>1. ~AtEnd(t) /\ f[t].op.bind /\ Sink(t) = c /\ w' # w
    BY <1>3, <1>5, ReflectFacts
  <2>2. f[t].pc = "b_next"
    BY <1>5, <2>1, ReflectMoves
  <2>3. f[t].op \in Calls /\ f[t].op.op = "reflect" /\ f[t].idx # 0
    BY <1>0, <2>2 DEF FrameFits
  <2>4. c \in ToSet(f[t].op.ports)
    <3>1. AltPorts(t) = f[t].op.ports
      BY <2>3 DEF AltPorts
    <3>2. PICK q \in Seq(Ports) : q = f[t].op.ports
      BY <2>3 DEF Calls
    <3>3. f[t].idx \in 1..Len(q)
      BY <1>0, <2>1, <2>3, <3>1, <3>2 DEF AtEnd
    <3>4. QED
      BY <2>1, <3>2, <3>3 DEF Sink, ToSet
  <2>5. c \in Empties(f[t].op)
    BY <2>1, <2>3, <2>4 DEF Empties
  <2>6. QED
    BY <2>2, <2>5 DEF Doing
<1>6. CASE ~WriteStore(t) /\ ~ReadTake(t) /\ ~Clear(t) /\ ~Reflect(t)
  BY <1>6, OtherItems DEF SameItems
<1>7. QED
  BY <1>1, <1>2, <1>4, <1>5, <1>6

(* Another thread's registration ends when it is notified, or is ended by  *)
(* one that reads from the same channel.                                   *)
LEMMA LeavesOwn ==
  ASSUME NEW S, Inv(S), NEW t \in Users, Run(t), Doing(t), Proper(prog), NEW c \in Chans,
         ~LooksAgain(Class(c)), NEW u, u \in w.ch[c].readers, u \notin w'.ch[c].readers
  PROVE  \/ WriteNotify(t) /\ f[t].ch = c
         \/ f[t].op \in prog.menu[t] /\ c \in ReadsFrom(f[t].op)
<1>1. CASE WriteNotify(t)
  BY <1>1, WriteNotifyFacts DEF Notified, WakerStarted, ReaderWoken, NewReaders
<1>2. CASE ReadWoken(t)
  <2>1. f[t].pc = "r_woken"
    BY <1>2 DEF ReadWoken, At
  <2>2. f[t].ch = c
    BY <1>2, ReadWokenFacts DEF Forgotten, NewReaders
  <2>3. QED
    BY <2>1, <2>2 DEF Doing, ReadPcs
<1>3. CASE AltLock(t) \/ AltScan(t) \/ AltRegister(t) \/ AltClear(t) \/ AltGet(t) \/ AltUnlock(t)
  <2>1. f[t].pc \in AltPcs
    BY <1>3 DEF AltLock, AltScan, AltRegister, AltClear, AltGet, AltUnlock, At, AltPcs, PortPcs
  <2>2. ReadsFrom(f[t].op) = PortsOf(t) /\ f[t].op \in prog.menu[t]
    BY <2>1, AltCalls
  <2>3. CASE Alike(w, w')
    BY <2>3 DEF Alike, SameObjects
  <2>4. CASE SetNotified(w, w', Port(t), t)
    BY <2>4 DEF SetNotified, Refused, SameObjects, Registered, NewReaders, Timed, ResultAwaited
  <2>5. CASE Port(t) \in PortsOf(t) /\ ClearNotified(w, w', Port(t), t)
    <3>1. Port(t) = c
      BY <2>5 DEF ClearNotified, Forgotten, NewReaders, Untimed, ResultLeft
    <3>2. QED
      BY <2>2, <2>5, <3>1
  <2>6. QED
    BY <1>3, <2>3, <2>4, <2>5, AltFacts
<1>4. ASSUME NEW d, WriterLetIn(w, w', d) PROVE FALSE
  BY <1>4 DEF WriterLetIn, SameReaders
<1>5. CASE WriteFull(t) \/ WriteStore(t) \/ WriteHeld(t)
  BY <1>4, <1>5, WriteFullFacts, WriteStoreFacts, WriteHeldFacts DEF WritersIs, Wrote, SameReaders
<1>6. CASE ReadWriter(t) \/ ReadReturn(t)
  BY <1>4, <1>6, ReadWriterFacts
<1>7. CASE ReadReady(t)
  BY <1>7, ReadReadyFacts DEF Refused, SameObjects, Registered, NewReaders
<1>8. ASSUME NEW d, ClearedTo(w, w', d) PROVE FALSE
  BY <1>8 DEF ClearedTo, StoreThenWriter, StoreIs, WriterLetIn, SameReaders
<1>9. CASE Clear(t) \/ Reflect(t)
  BY <1>8, <1>9, ClearFacts, ReflectFacts
<1>10. CASE ReadTake(t)
  BY <1>10, ReadTakeFacts DEF Refused, SameObjects, Took, StoreIs, SameReaders
<1>11. CASE ToGet(t) \/ ResGet(t) \/ ResClear(t)
  BY <1>11, ToGetFacts, ResGetFacts DEF ToGot, ResultGot
<1>12. CASE DelayCall(t) \/ Sleep(t) \/ End(t)
  BY <1>12, BlockFacts, EndFacts DEF Moved, SameObjects, Ended
<1>13. CASE \E o \in prog.menu[t] : Start(t, o)
  BY <1>13 DEF Start
<1>14. QED
  BY <1>1, <1>2, <1>3, <1>5, <1>6, <1>7, <1>9, <1>10, <1>11, <1>12, <1>13 DEF Run

LEMMA FullHasItem ==
  ASSUME NEW S, Inv(S), NEW c \in Chans, ~LooksAgain(Class(c)), Full(Class(c), w.ch[c])
  PROVE  w.ch[c].store # <<>>
<1>1. Class(c).kind \in {"queue", "busy"} /\ Class(c).size \in Nat
  BY ClassOK DEF Inv, LooksAgain
<1>2. CASE Class(c).kind = "busy"
  BY <1>2 DEF Full, OneItem, IsEmpty
<1>3. CASE Class(c).kind = "queue"
  <2>1. Class(c).size # 0 /\ Len(w.ch[c].store) >= Class(c).size
    BY <1>3 DEF Full, OneItem
  <2>2. w.ch[c].store \in Seq(Item(S))
    BY DEF Inv, Typed, World, Channel
  <2>3. w.ch[c].store = <<>> => Len(w.ch[c].store) = 0
    OBVIOUS
  <2>4. QED
    BY <1>1, <2>1, <2>3
<1>4. QED
  BY <1>1, <1>2, <1>3

(* A woken reader that does not look again finds an item: no other thread  *)
(* takes it, and the writer that woke it before it stores is still at it.  *)
LEMMA ServedRun ==
  ASSUME NEW S, Inv(S), Settled, Does, Found, Served, Proper(prog), NEW t \in Users, Run(t),
         Goes(t), Settled', FoundBy(t)'
  PROVE  Served'
<1>0. /\ cur = t /\ prog' = prog /\ Doing(t) /\ FoundBy(t) /\ cur' \in {t, NULL} /\ t # NULL
      /\ FramesOK(S, f)
  BY RunMoves, RunRest DEF Does, Found, Inv, Typed, FramesOK
<1>1. SUFFICES ASSUME NEW u \in Users, f'[u].pc = "r_woken", ~LooksAgain(Class(f'[u].ch)),
                      u \notin w'.ch[f'[u].ch].readers
               PROVE  Supplied(f[u].ch)'
  BY <1>0 DEF Served, ServedBy, Class
<1>2. CASE u = t
  <2>1. f[t].pc = "r_sleep" /\ f'[t].ch = f[t].ch
    BY <1>1, <1>2 DEF Goes
  <2>2. Sleep(t)
    BY <2>1 DEF Run, Start, End, DelayCall, Sleep, Sleeps, WriteNotify, WriteFull, WriteStore,
       WriteHeld, ReadWriter, ReadReady, ReadWoken, ReadTake, ReadReturn, Clear, ToGet, ResGet,
       ResClear, AltLock, AltScan, AltRegister, AltClear, AltGet, AltUnlock, Reflect, At
  <2>3. w'.ch = w.ch
    BY <2>2, BlockFacts DEF Moved, SameObjects
  <2>4. t \in w.ch[f[t].ch].readers
    BY <1>0, <2>1 DEF FoundBy
  <2>5. QED
    BY <1>1, <1>2, <2>1, <2>3, <2>4
<1>3. CASE u # t
  <2>1. f'[u] = f[u] /\ u # cur
    BY <1>0, <1>3 DEF Goes, Others
  <2>2. f[u].ch \in Chans
    BY <1>1, <2>1 DEF Inv, Typed, FrameFits, ReadPcs
  <2>3. PICK c \in Chans : c = f[u].ch /\ f'[u].ch = c
    BY <2>1, <2>2
  <2> SUFFICES Supplied(c)'
    BY <2>3 DEF Supplied
  <2>4. f[u].pc = "r_woken" /\ ~LooksAgain(Class(c)) /\ u \notin w'.ch[c].readers
    BY <1>1, <2>1, <2>3
  <2>5. f[u].op \in prog.menu[u] /\ c \in ReadsFrom(f[u].op)
    BY <2>3, <2>4 DEF Does, Doing, ReadPcs
  <2>6. f[t].op \in prog.menu[t] => c \notin ReadsFrom(f[t].op) /\ c \notin Empties(f[t].op)
    BY <1>3, <2>4, <2>5 DEF Proper, Class
  <2>7. w'.ch[c].store # <<>> => Supplied(c)'
    BY DEF Supplied
  <2>8. w.ch[c].store # <<>> => w'.ch[c].store # <<>>
    BY <1>0, <2>6, EmptiesOwn
  <2>9. CASE u \in w.ch[c].readers
    <3>1. WriteNotify(t) /\ f[t].ch = c
      BY <1>0, <2>4, <2>6, <2>9, LeavesOwn
    <3>2. CASE f[t].pc = "w_notify"
      <4>1. Goto(t, "w_full") /\ cur' = cur
        BY <3>1, <3>2 DEF WriteNotify, Keeps
      <4>2. f'[t].pc = "w_full" /\ f'[t].ch = c
        BY <1>0, <3>1, <4>1, GotoFacts DEF Went, NewFrame
      <4>3. QED
        BY <1>0, <2>3, <4>1, <4>2 DEF Supplied
    <3>3. CASE f[t].pc = "w_again"
      BY <1>0, <2>3, <2>7, <2>8, <3>1, <3>3 DEF FoundBy
    <3>4. QED
      BY <3>1, <3>2, <3>3 DEF WriteNotify, At
  <2>10. CASE u \notin w.ch[c].readers
    <3>1. Supplied(c)
      BY <2>3, <2>4, <2>10 DEF Served, ServedBy
    <3>2. CASE w.ch[c].store # <<>>
      BY <2>3, <2>7, <2>8, <3>2
    <3>3. CASE f[t].pc \in {"w_full", "w_store"} /\ f[t].ch = c
      <4>1. WriteFull(t) \/ WriteStore(t)
        BY <3>3 DEF Run, Start, End, DelayCall, Sleep, Sleeps, WriteNotify, WriteFull, WriteStore,
           WriteHeld, ReadWriter, ReadReady, ReadWoken, ReadTake, ReadReturn, Clear, ToGet, ResGet,
           ResClear, AltLock, AltScan, AltRegister, AltClear, AltGet, AltUnlock, Reflect, At
      <4>2. CASE WriteStore(t)
        <5>1. Goto(t, "w_again")
          BY <4>2 DEF WriteStore
        <5>2. f'[t].pc = "w_again" /\ f'[t].ch = c
          BY <1>0, <3>3, <5>1, GotoFacts DEF Went, NewFrame
        <5>3. QED
          BY <2>3, <2>7, <5>2 DEF FoundBy
      <4>3. CASE WriteFull(t) /\ Full(Class(c), w.ch[c])
        BY <2>3, <2>4, <2>7, <2>8, <4>3, FullHasItem
      <4>4. CASE WriteFull(t) /\ ~Full(Class(c), w.ch[c])
        <5>1. Goto(t, "w_store") /\ cur' = cur
          BY <3>3, <4>4 DEF WriteFull, Keeps
        <5>2. f'[t].pc = "w_store" /\ f'[t].ch = c
          BY <1>0, <3>3, <5>1, GotoFacts DEF Went, NewFrame
        <5>3. QED
          BY <1>0, <2>3, <5>1, <5>2 DEF Supplied
      <4>5. QED
        BY <4>1, <4>2, <4>3, <4>4
    <3>4. QED
      BY <1>0, <3>1, <3>2, <3>3 DEF Supplied
  <2>11. QED
    BY <2>9, <2>10
<1>4. QED
  BY <1>2, <1>3

LEMMA ServedAside ==
  ASSUME NEW S, Inv(S), Fifo, Served, Scheduler
  PROVE  Served'
<1>0. f' = f /\ prog' = prog /\ cur \notin Users /\ \A c \in Chans : Kept(c)
  BY SchedulerIdle DEF Fifo
<1>1. ASSUME NEW c \in Chans, Class(c).kind # "clock" PROVE w'.ch[c].readers = w.ch[c].readers
  <2>1. ASSUME NEW h \in Helpers, HelperDelay(h) PROVE w'.ch = w.ch
    <3>1. PICK d : w' = Left([w EXCEPT !.due[h] = d], h, "delay")
      BY <2>1 DEF HelperDelay, BlockIn, Left
    <3>2. h \in Threads /\ w \in World(S)
      BY HelperIds DEF Inv, Typed
    <3>3. QED
      BY <3>1, <3>2, DelayFacts DEF Moved, SameObjects
  <2>2. ASSUME NEW o \in Timeouts, HelperFire(TimerOf(o)) PROVE w'.ch = w.ch
    BY <2>2, TimerFireFacts DEF TimerFired
  <2>3. ASSUME NEW d \in Chans, NEW r \in Users, HelperFire(WakerOf(d, r))
        PROVE  w'.ch[c].readers = w.ch[c].readers
    <3>1. cur = WakerOf(d, r) /\ WakerOf(d, r) \in Threads /\ Good(S, w, cur)
      BY <2>3, HelperIds DEF HelperFire, Runs, Inv
    <3>2. w.st[WakerOf(d, r)] = "run"
      BY <3>1 DEF Good, OneRuns
    <3>3. "run" \in Live
      BY DEF Live
    <3>4. r \in w.ch[d].wakers
      BY <3>1, <3>2, <3>3 DEF Good, WakersServe
    <3>5. Class(d).kind = "clock"
      BY <3>1, <3>4 DEF Good, WakersClocked
    <3>6. QED
      BY <1>1, <2>3, <3>5, WakerFireFacts DEF WakerFired, NewReaders
  <2>4. ASSUME NEW t \in Threads, Dispatch(t) PROVE w'.ch = w.ch
    BY <2>4, DispatchWorld DEF Moved, SameObjects
  <2>5. ASSUME Advance PROVE w'.ch = w.ch
    BY <2>5, AdvanceWorld DEF TimePassed, SameObjects
  <2>6. QED
    BY <2>1, <2>2, <2>3, <2>4, <2>5 DEF Scheduler, Helpers
<1>2. SUFFICES ASSUME NEW u \in Users, f[u].pc = "r_woken", ~LooksAgain(Class(f[u].ch)),
                      u \notin w'.ch[f[u].ch].readers
               PROVE  Supplied(f[u].ch)'
  BY <1>0 DEF Served, ServedBy, Class
<1>3. PICK c \in Chans : c = f[u].ch
  BY <1>2 DEF Inv, Typed, FrameFits, ReadPcs
<1>4. u \notin w.ch[c].readers
  BY <1>1, <1>2, <1>3 DEF LooksAgain
<1>5. Supplied(c)
  BY <1>2, <1>3, <1>4 DEF Served, ServedBy
<1>6. w'.ch[c].store # <<>>
  BY <1>0, <1>5 DEF Supplied, Kept
<1>7. QED
  BY <1>0, <1>3, <1>6 DEF Supplied

-----------------------------------------------------------------------------
(* Programs that keep to the rules of the classes.                         *)
Sound == /\ ByTheRules /\ Invariant /\ Fifo /\ Does /\ Found /\ Settled /\ Served /\ NoFault

LEMMA SoundInit == ByTheRules /\ Init => Sound
<1>1. SUFFICES ASSUME Init PROVE Does /\ Found /\ Settled /\ Served /\ NoFault
  BY InvInit, FifoInit DEF Sound, Invariant
<1>2. /\ \A t \in Users : f[t].pc = "idle"
      /\ \A c \in Chans : w.ch[c].readers = {} /\ w.ch[c].writers = <<>>
      /\ \A o \in Timeouts : w.to[o].readt = NULL /\ w.to[o].writet = FALSE
      /\ \A p \in Results : w.res[p].rt = NULL
      /\ \A t \in Users : w.waiters[t] = <<>>
      /\ w.fault = "none" /\ \A u \in Users : u # NULL
  BY <1>1, HelperIds DEF Init, Rest, Fresh
<1>3. (\A u : ~Holds(<<>>, u)) /\ NoRepeat(<<>>)
  BY DEF Holds, NoRepeat
<1>4. Does /\ Found /\ Served /\ NoFault
  BY <1>2 DEF Does, Doing, ReadPcs, Found, FoundBy, Served, ServedBy, NoFault
<1>5. Stands /\ AsleepHeld
  BY <1>2 DEF Stands, StandsBy, Waits, AsleepHeld, AsleepBy
<1>6. Registers /\ TimersHeld
  BY <1>2 DEF Registers, Owes, TimersHeld
<1>7. WaitersHeld /\ WaitersOnce /\ WritersHeld /\ WritersOnce
  BY <1>2, <1>3 DEF WaitersHeld, WaitersOnce, WritersHeld, WritersOnce
<1>8. QED
  BY <1>4, <1>5, <1>6, <1>7 DEF Settled

LEMMA SoundRun ==
  ASSUME NEW S, Inv(S), Sound, NEW t \in Users, Run(t)
  PROVE  Does' /\ Found' /\ Settled' /\ Served' /\ NoFault'
<1>0. Fifo /\ Does /\ Found /\ Settled /\ Served /\ OwnResults /\ Proper(prog) /\ Doing(t)
  BY DEF Sound, ByTheRules, Inv, Typed, Does
<1>1. Safe(t) /\ Goes(t) /\ prog' = prog /\ cur' \in {t, NULL}
  BY <1>0, RunSafe, RunGoes, RunRest, RunMoves
<1>2. Settled' /\ NoFault'
  BY <1>0, <1>1, SettledStep DEF Safe, NoFault
<1>3. Does'
  BY <1>0, <1>1, DoesStep DEF Goes
<1>4. FoundBy(t)'
  BY <1>0, <1>1, FoundStep
<1>5. Found'
  <2>1. SUFFICES ASSUME NEW u \in Users, u # t PROVE FoundBy(u)'
    BY <1>4 DEF Found
  <2>2. u # cur' /\ Stands'
    BY <1>1, <1>2, <2>1, HelperIds DEF Settled
  <2>3. QED
    BY <2>2, WaitsFound
<1>6. Served'
  BY <1>0, <1>1, <1>2, <1>4, ServedRun
<1>7. QED
  BY <1>2, <1>3, <1>5, <1>6

LEMMA SoundAside ==
  ASSUME NEW S, Inv(S), Sound, Scheduler
  PROVE  Does' /\ Found' /\ Settled' /\ Served' /\ NoFault'
<1>0. Fifo /\ Does /\ Settled /\ Served
  BY DEF Sound
<1>1. f' = f /\ prog' = prog /\ cur \notin Users
  BY <1>0, SchedulerIdle DEF Fifo
<1>2. PICK t : Safe(t)
  BY <1>0, SchedulerSafe
<1>3. Settled' /\ NoFault'
  BY <1>0, <1>1, <1>2, SettledStep DEF Safe, NoFault
<1>4. Does'
  BY <1>0, <1>1 DEF Does, Doing
<1>5. Found'
  <2>1. SUFFICES ASSUME NEW u \in Users PROVE FoundBy(u)'
    BY DEF Found
  <2>2. StandsBy(u)
    BY <1>0, <1>1 DEF Settled, Stands
  <2>3. f'[u].pc \in Waits
    BY <1>1, <2>2 DEF StandsBy
  <2>4. QED
    BY <2>3 DEF FoundBy, Waits
<1>6. Served'
  BY <1>0, ServedAside
<1>7. QED
  BY <1>3, <1>4, <1>5, <1>6

LEMMA SoundStays ==
  ASSUME Sound, UNCHANGED vars
  PROVE  Does' /\ Found' /\ Settled' /\ Served' /\ NoFault'
<1>0. w' = w /\ f' = f /\ prog' = prog /\ cur' = cur /\ now' = now
  BY DEF vars
<1>1. Does' /\ NoFault'
  BY <1>0 DEF Sound, Does, Doing, NoFault
<1>2. Found'
  <2>1. \A t \in Users : FoundBy(t)
    BY DEF Sound, Found
  <2>2. ASSUME NEW t \in Users PROVE FoundBy(t)'
    <3>1. PortReady(Port(t))' <=> PortReady(Port(t))
      BY <1>0 DEF PortReady, Port, AltPorts, Class
    <3>2. QED
      BY <1>0, <2>1, <2>2, <3>1 DEF FoundBy
  <2>3. QED
    BY <2>2 DEF Found
<1>3. Served'
  BY <1>0 DEF Sound, Served, ServedBy, Supplied, Class
<1>4. Settled
  BY DEF Sound
<1>5. Stands' /\ AsleepHeld'
  BY <1>0, <1>4 DEF Settled, Stands, StandsBy, WakesFrom, Class, AsleepHeld, AsleepBy
<1>6. Registers' /\ TimersHeld'
  BY <1>0, <1>4 DEF Settled, Registers, Owes, TimersHeld
<1>7. WaitersHeld' /\ WaitersOnce' /\ WritersHeld' /\ WritersOnce'
  BY <1>0, <1>4 DEF Settled, WaitersHeld, AwaitsEnd, WaitersOnce, WritersHeld, AwaitsRoom, WritersOnce
<1>8. QED
  BY <1>1, <1>2, <1>3, <1>5, <1>6, <1>7 DEF Settled

LEMMA SoundStep == Sound /\ [Next]_vars => Sound'
<1>1. SUFFICES ASSUME Sound, [Next]_vars PROVE Sound'
  OBVIOUS
<1>2. PICK S : Inv(S)
  BY <1>1 DEF Sound, Invariant
<1>3. Invariant' /\ Fifo' /\ ByTheRules'
  BY <1>1, <1>2, InvStep, FifoStep DEF Sound, Invariant
<1>4. Does' /\ Found' /\ Settled' /\ Served' /\ NoFault'
  <2>1. CASE UNCHANGED vars
    BY <1>1, <2>1, SoundStays
  <2>2. CASE Scheduler
    BY <1>1, <1>2, <2>2, SoundAside
  <2>3. CASE \E t \in Users : Run(t)
    BY <1>1, <1>2, <2>3, SoundRun
  <2>4. QED
    BY <1>1, <2>1, <2>2, <2>3 DEF Next, Scheduler
<1>5. QED
  BY <1>3, <1>4 DEF Sound

(* Who is registered waits.                                                *)
LEMMA HeldAwaits ==
  ASSUME NEW S, Inv(S), NEW u \in Users, NEW p, p \in Held(f[u])
  PROVE  AwaitsIn(u, p)
<1>1. CASE f[u].pc \in {"r_sleep", "r_woken"}
  BY <1>1 DEF Held, AwaitsIn
<1>2. CASE f[u].pc \in {"a_register", "a_sleep", "a_relock", "a_clear"}
  <2>1. f[u].op \in Calls /\ f[u].op.op # "reflect"
    BY <1>2 DEF Inv, Typed, FrameFits, AltPcs, PortPcs, AltOps
  <2>2. p \in PortsOf(u)
    <3>1. \A i \in 1..Len(AltPorts(u)) : AltPorts(u)[i] \in PortsOf(u)
      BY <2>1, AltPortsFacts
    <3>2. Order(f[u]) = AltPorts(u)
      BY DEF Order, AltPorts
    <3>3. QED
      BY <1>2, <3>1, <3>2 DEF Held, Behind, Ahead, PortsOf
  <2>3. QED
    BY <1>2, <2>1, <2>2 DEF AwaitsIn
<1>3. QED
  BY <1>1, <1>2 DEF Held

LEMMA SoundReaders == Sound => NoStaleReader
<1>1. SUFFICES ASSUME Sound PROVE NoStaleReader
  OBVIOUS
<1>2. PICK S : Inv(S)
  BY <1>1 DEF Sound, Invariant
<1>3. Registers /\ WaitersHeld /\ w \in World(S)
  BY <1>1, <1>2 DEF Sound, Settled, Inv, Typed
<1>4. ASSUME NEW p \in Ports, NEW u \in Users, Owes(p, u) PROVE AwaitsIn(u, p)
  BY <1>2, <1>3, <1>4, HeldAwaits DEF Registers
<1>5. \A c \in Chans : \A r \in w.ch[c].readers : AwaitsIn(r, c)
  <2>1. ASSUME NEW c \in Chans, NEW r \in w.ch[c].readers PROVE AwaitsIn(r, c)
    <3>1. r \in Users /\ c \in Ports /\ Owes(c, r)
      BY <1>3, <2>1 DEF World, Channel, Ports, Owes
    <3>2. QED
      BY <1>4, <3>1
  <2>2. QED
    BY <2>1
<1>6. \A o \in Timeouts : w.to[o].readt # NULL => AwaitsIn(w.to[o].readt, o)
  <2>1. ASSUME NEW o \in Timeouts, w.to[o].readt # NULL PROVE AwaitsIn(w.to[o].readt, o)
    <3>1. w.to[o].readt \in Users /\ o \in Ports /\ Owes(o, w.to[o].readt)
      BY <1>3, <2>1 DEF World, Ports, Owes
    <3>2. QED
      BY <1>4, <3>1
  <2>2. QED
    BY <2>1
<1>7. ASSUME NEW t \in Users, NEW r \in ToSet(w.waiters[t])
      PROVE  Blocked(r) \/ \E p \in Results : ResThread[p] = t /\ AwaitsIn(r, p)
  <2>1. w.waiters[t] \in Seq(Users)
    BY <1>3 DEF World
  <2>2. Holds(w.waiters[t], r) /\ r \in Users
    BY <1>7, <2>1, ListFacts DEF Holds
  <2>3. AwaitsEnd(r, t)
    BY <1>3, <2>2 DEF WaitersHeld
  <2>4. ASSUME NEW p \in Results, w.res[p].rt = r PROVE AwaitsIn(r, p)
    BY <1>4, <2>2, <2>4 DEF Ports, Owes
  <2>5. QED
    BY <2>3, <2>4 DEF AwaitsEnd, Blocked
<1>8. QED
  BY <1>5, <1>6, <1>7 DEF NoStaleReader

(* NoFault without preemption, for every program that keeps to the rules   *)
(* of the classes (ByTheRules): no assertion of set_notify(), check_size() *)
(* or ResChan fails, no store is read empty, and pWake(), pAddReady() and  *)
(* pBusyWake() are only called for a thread that sleeps or is ready, for   *)
(* any number of threads, channels, timeouts and results.                  *)
THEOREM FaultFree == ByTheRules /\ Spec => []NoFault
<1>1. Sound => NoFault
  BY DEF Sound
<1>2. QED
  BY <1>1, SoundInit, SoundStep, PTL DEF Spec

(* NoStaleReader under the same hypotheses: a thread is registered with a  *)
(* port, or entered in the waiters of a thread, only while it waits there. *)
THEOREM ReadersWait == ByTheRules /\ Spec => []NoStaleReader
  BY SoundInit, SoundStep, SoundReaders, PTL DEF Spec

(* ImplementsChan under the same hypotheses, BusyChan included: every      *)
(* channel is a bounded FIFO.                                              *)
THEOREM ProperChannelsAreFifos == ByTheRules /\ Spec => ImplementsChan
<1> DEFINE A == \A c \in Chans : Bounded(c)!Init
           B == \A c \in Chans : Bounded(c)!Step
<1>1. ASSUME Sound, [Next]_vars PROVE B
  <2>1. PICK S : Inv(S)
    BY <1>1 DEF Sound, Invariant
  <2>2. Fifo /\ HasItemIn({"chan", "busy"})
    BY <1>1 DEF Sound, Found, FoundBy, HasItemIn
  <2>3. QED
    BY <1>1, <2>1, <2>2, FifoRefines
<1>2. Sound /\ [Next]_vars => [B]_vars
  BY <1>1
<1>3. Init => A
  BY BoundedInit
<1>4. ImplementsChan <=> A /\ [][B]_vars
  BY DEF ImplementsChan
<1> HIDE DEF A, B
<1>5. ByTheRules /\ Spec => A /\ [][B]_vars
  BY <1>2, <1>3, SoundInit, SoundStep, PTL DEF Spec
<1>6. QED
  BY <1>4, <1>5

-----------------------------------------------------------------------------
(* Timeouts: a thread that is on its way to sleep in an alt block, or that *)
(* sleeps there, is the reader of each Timeout it is registered with, and  *)
(* the timer of that Timeout is under way.                                 *)
TimerUp(o) == cur = TimerOf(o) \/ w.st[TimerOf(o)] \in {"ready", "delay"}
Relies(u) == \/ f[u].pc \in {"a_register", "a_sleep"}
             \/ f[u].pc = "a_relock" /\ w.st[u] = "sleep"
OnTimeBy(u) == Relies(u) => \A o \in Timeouts : o \in Held(f[u]) => w.to[o].readt = u /\ TimerUp(o)
OnTime == \A u \in Users : OnTimeBy(u)

(* What a step does to a Timeout: it leaves it and its timer alone, or an  *)
(* alt block registers or clears it.                                       *)
Ticks(o) == w'.to[o].readt = w.to[o].readt /\ w'.st[TimerOf(o)] = w.st[TimerOf(o)]
Asks(t, o) == f[t].pc = "a_register" /\ ~AtEnd(t) /\ o = Port(t)
TimerOK(t, o) ==
  \/ Ticks(o) /\ ~Asks(t, o)
  \/ /\ f[t].pc = "a_register" /\ o \in PortsOf(t)
     /\ w'.to[o].readt = t /\ w'.st[TimerOf(o)] = "ready"
  \/ f[t].pc = "a_clear" /\ o \in PortsOf(t)

LEMMA TimerIds ==
  ASSUME NEW o \in Timeouts
  PROVE  /\ TimerOf(o) \in Threads /\ TimerOf(o) \notin Users /\ TimerOf(o) # NULL
         /\ \A c \in Chans, r \in Users : TimerOf(o) # WakerOf(c, r)
         /\ \A p \in Timeouts : TimerOf(o) = TimerOf(p) => o = p
         /\ o \in Ports /\ o \notin Chans /\ o \notin Results
  BY HelperIds, DistinctObjects DEF Ports

(* The effects that leave every Timeout alone.                             *)
LEMMA EffectTicks ==
  ASSUME NEW S, Inv(S), NEW o \in Timeouts, NEW t \in Users,
         \/ w'.to = w.to /\ w'.st = w.st
         \/ \E how : Moved(w, w', t, how)
         \/ \E c \in Chans : WriterLetIn(w, w', c) \/ ClearedTo(w, w', c)
         \/ \E c \in Chans : Registered(w, w', c, t) \/ Forgotten(w, w', c, t)
         \/ \E c \in Chans, r \in Users : Notified(w, w', c, r)
         \/ Ended(w, w', t) /\ w'.fault # "bad_wake"
         \/ \E p : ResultGot(w, w', p, t)
  PROVE  Ticks(o)
<1> DEFINE h == TimerOf(o)
<1>0. /\ h \in Threads /\ h \notin Users /\ h # t
      /\ \A c \in Chans, r \in Users : h # WakerOf(c, r)
  BY TimerIds
<1>1. w \in World(S)
  BY DEF Inv, Typed
<1> HIDE DEF h
<1>2. SUFFICES w'.to = w.to /\ w'.st[h] = w.st[h]
  BY DEF Ticks, h
<1>3. CASE \E how : Moved(w, w', t, how)
  BY <1>0, <1>3 DEF Moved, SameObjects
<1>4. ASSUME NEW y, NEW c \in Chans, y.to = w.to, y.st = w.st, WriterLetIn(y, w', c)
      PROVE  w'.to = w.to /\ w'.st[h] = w.st[h]
  BY <1>0, <1>4 DEF WriterLetIn, Woke, SameOthers
<1>5. ASSUME NEW c \in Chans, Registered(w, w', c, t) PROVE w'.to = w.to /\ w'.st[h] = w.st[h]
  BY <1>0, <1>5 DEF Registered, NewReaders, SameOthers
<1>6. ASSUME NEW c \in Chans, Forgotten(w, w', c, t) PROVE w'.to = w.to /\ w'.st[h] = w.st[h]
  <2>1. w.ch[c].wakers \subseteq Users
    BY <1>1 DEF World, Channel
  <2>2. QED
    BY <1>0, <1>6, <2>1 DEF Forgotten, NewReaders, SameOthers
<1>7. ASSUME NEW c \in Chans, NEW r \in Users, Notified(w, w', c, r)
      PROVE  w'.to = w.to /\ w'.st[h] = w.st[h]
  BY <1>0, <1>7 DEF Notified, WakerStarted, ReaderWoken, NewReaders, SameOthers
<1>8. CASE Ended(w, w', t) /\ w'.fault # "bad_wake"
  <2>1. w.waiters[t] \in Seq(Users)
    BY <1>1 DEF World
  <2>2. h \notin ToSet(w.waiters[t])
    BY <1>0, <2>1 DEF ToSet
  <2>3. QED
    BY <1>0, <1>8, <2>2 DEF Ended
<1>9. CASE \E p : ResultGot(w, w', p, t)
  BY <1>0, <1>9 DEF ResultGot
<1>10. ASSUME NEW c \in Chans, ClearedTo(w, w', c) PROVE w'.to = w.to /\ w'.st[h] = w.st[h]
  <2>1. \A y, q : StoreIs(w, y, c, q) => y.to = w.to /\ y.st = w.st
    BY DEF StoreIs, SameOthers
  <2>2. QED
    BY <1>4, <1>10, <2>1 DEF ClearedTo, StoreThenWriter
<1>11. QED
  BY <1>3, <1>4, <1>5, <1>6, <1>7, <1>8, <1>9, <1>10

(* set_notify() of the port an alt block has come to.                      *)
LEMMA AltRegisters ==
  ASSUME NEW S, Inv(S), NEW t \in Users, AltRegister(t), ~AtEnd(t)
  PROVE  Port(t) \in PortsOf(t) /\ SetNotified(w, w', Port(t), t)
<1>1. w' = SetNotify(w, Port(t), t) /\ f[t].pc = "a_register"
  BY DEF AltRegister, At
<1>2. f[t].op \in Calls /\ f[t].idx \in Nat
  BY <1>1 DEF Inv, Typed, FrameFits, Frame
<1>3. f[t].idx \in 1..Len(AltPorts(t))
  BY <1>1, <1>2, PortKind DEF Inv
<1>4. Port(t) \in PortsOf(t)
  BY <1>2, <1>3, AltPortsFacts DEF Port
<1>5. PortsOf(t) \subseteq Ports
  BY <1>2, OrderFacts, AltPortsFacts DEF PortsOf, ToSet
<1>6. QED
  BY <1>1, <1>4, <1>5, SetNotifyFacts

LEMMA RunTimers ==
  ASSUME NEW S, Inv(S), NEW t \in Users, Run(t), FoundBy(t), w'.fault = "none", NEW o \in Timeouts
  PROVE  TimerOK(t, o)
<1>0. w \in World(S) /\ Typed(S) /\ o \notin Chans /\ o \notin Results
  BY TimerIds DEF Inv, Typed
<1>1. ASSUME Ticks(o), f[t].pc # "a_register" PROVE TimerOK(t, o)
  BY <1>1 DEF TimerOK, Asks
<1>2. CASE WriteNotify(t)
  <2>1. f[t].pc # "a_register"
    BY <1>2 DEF WriteNotify, At
  <2>2. Ticks(o)
    BY <1>2, WriteNotifyFacts, EffectTicks
  <2>3. QED
    BY <1>1, <2>1, <2>2
<1>3. CASE WriteFull(t) \/ WriteStore(t) \/ WriteHeld(t)
  <2>1. f[t].pc # "a_register"
    BY <1>3 DEF WriteFull, WriteStore, WriteHeld, At
  <2>2. (w'.to = w.to /\ w'.st = w.st) \/ \E c \in Chans : WriterLetIn(w, w', c)
    BY <1>3, WriteFullFacts, WriteStoreFacts, WriteHeldFacts DEF WritersIs, Wrote, SameOthers
  <2>3. Ticks(o)
    BY <2>2, EffectTicks
  <2>4. QED
    BY <1>1, <2>1, <2>3
<1>4. CASE ReadWriter(t) \/ ReadReady(t) \/ ReadWoken(t) \/ ReadTake(t) \/ ReadReturn(t)
  <2>1. f[t].pc # "a_register"
    BY <1>4 DEF ReadWriter, ReadReady, ReadWoken, ReadTake, ReadReturn, At
  <2>2. ASSUME ReadTake(t) PROVE (w'.to = w.to /\ w'.st = w.st)
    BY <2>2, ReadTakeFacts DEF Refused, SameObjects, Took, StoreIs, SameOthers
  <2>3. ASSUME ReadReady(t)
        PROVE  (w'.to = w.to /\ w'.st = w.st) \/ \E c \in Chans : Registered(w, w', c, t)
    BY <2>3, ReadReadyFacts DEF Refused, SameObjects
  <2>4. ASSUME ReadWoken(t)
        PROVE  (w'.to = w.to /\ w'.st = w.st) \/ \E c \in Chans : Forgotten(w, w', c, t)
    BY <2>4, ReadWokenFacts
  <2>5. ASSUME ReadWriter(t) \/ ReadReturn(t)
        PROVE  (w'.to = w.to /\ w'.st = w.st) \/ \E c \in Chans : WriterLetIn(w, w', c)
    BY <2>5, ReadWriterFacts
  <2>6. Ticks(o)
    BY <1>4, <2>2, <2>3, <2>4, <2>5, EffectTicks
  <2>7. QED
    BY <1>1, <2>1, <2>6
<1>5. CASE Clear(t) \/ Reflect(t)
  <2>1. f[t].pc # "a_register"
    BY <1>5 DEF Clear, Reflect, At
  <2>2. (w'.to = w.to /\ w'.st = w.st) \/ \E c \in Chans : ClearedTo(w, w', c)
    BY <1>5, ClearFacts, ReflectFacts
  <2>3. Ticks(o)
    BY <2>2, EffectTicks
  <2>4. QED
    BY <1>1, <2>1, <2>3
<1>6. CASE DelayCall(t) \/ Sleep(t)
  <2>1. f[t].pc # "a_register"
    BY <1>6 DEF DelayCall, Sleep, At, Sleeps
  <2>2. Ticks(o)
    BY <1>6, BlockFacts, EffectTicks
  <2>3. QED
    BY <1>1, <2>1, <2>2
<1>7. CASE End(t)
  <2>1. f[t].pc # "a_register"
    BY <1>7 DEF End, At
  <2>2. Ticks(o)
    BY <1>7, EndFacts, EffectTicks
  <2>3. QED
    BY <1>1, <2>1, <2>2
<1>8. CASE \E c \in prog.menu[t] : Start(t, c)
  <2>1. f[t].pc # "a_register" /\ w' = w
    BY <1>8 DEF Start, At
  <2>2. QED
    BY <1>1, <2>1 DEF Ticks
<1>9. CASE ToGet(t)
  <2>1. f[t].pc = "to_get"
    BY <1>9 DEF ToGet, At
  <2>2. SameTimers(w, w') /\ w'.st = w.st
    BY <1>9, <2>1, ToGetFacts DEF FoundBy, ToGot
  <2>3. QED
    BY <1>1, <2>1, <2>2 DEF Ticks, SameTimers
<1>10. CASE ResGet(t) \/ ResClear(t)
  <2>1. f[t].pc # "a_register"
    BY <1>10 DEF ResGet, ResClear, At
  <2>2. Ticks(o)
    BY <1>10, ResGetFacts, EffectTicks
  <2>3. QED
    BY <1>1, <2>1, <2>2
<1>11. CASE AltLock(t) \/ AltScan(t) \/ AltRegister(t) \/ AltClear(t) \/ AltGet(t) \/ AltUnlock(t)
  <2>1. CASE AltRegister(t) /\ ~AtEnd(t)
    <3>1. f[t].pc = "a_register"
      BY <2>1 DEF AltRegister, At
    <3>2. PICK p \in PortsOf(t) : p = Port(t) /\ SetNotified(w, w', p, t)
      BY <2>1, AltRegisters
    <3>3. CASE p \in Chans /\ Registered(w, w', p, t)
      <4>1. Ticks(o)
        BY <3>3, EffectTicks
      <4>2. QED
        BY <1>0, <3>2, <3>3, <4>1 DEF TimerOK, Asks
    <3>4. CASE p \in Timeouts /\ Timed(w, w', p, t)
      <4>1. CASE o = p
        <5>1. w'.to[o].readt = t /\ w'.st[TimerOf(o)] = "ready"
          BY <3>4, <4>1, TimerIds DEF Timed
        <5>2. QED
          BY <3>1, <3>2, <4>1, <5>1 DEF TimerOK
      <4>2. CASE o # p
        <5>1. TimerOf(o) # TimerOf(p) /\ TimerOf(o) \in Threads
          BY <3>4, <4>2, TimerIds
        <5>2. Ticks(o)
          BY <3>4, <4>2, <5>1 DEF Timed, Ticks
        <5>3. QED
          BY <3>2, <4>2, <5>2 DEF TimerOK, Asks
      <4>3. QED
        BY <4>1, <4>2
    <3>5. CASE p \in Results /\ ResultAwaited(w, w', p, t)
      BY <1>0, <3>2, <3>5 DEF TimerOK, Asks, Ticks, ResultAwaited
    <3>6. QED
      BY <3>2, <3>3, <3>4, <3>5 DEF SetNotified, Refused
  <2>2. CASE /\ AltClear(t) /\ ~AtEnd(t) /\ Port(t) \in PortsOf(t)
             /\ ClearNotified(w, w', Port(t), t)
    <3>1. f[t].pc = "a_clear"
      BY <2>2 DEF AltClear, At
    <3>2. PICK p \in PortsOf(t) : ClearNotified(w, w', p, t)
      BY <2>2
    <3>3. CASE p \in Chans /\ Forgotten(w, w', p, t)
      BY <1>1, <3>1, <3>3, EffectTicks
    <3>4. CASE p \in Timeouts /\ Untimed(w, w', p)
      <4>1. CASE o = p
        BY <3>1, <4>1 DEF TimerOK
      <4>2. CASE o # p
        <5>1. TimerOf(o) # TimerOf(p) /\ TimerOf(o) \in Threads
          BY <3>4, <4>2, TimerIds
        <5>2. Ticks(o)
          BY <3>4, <4>2, <5>1 DEF Untimed, Ticks
        <5>3. QED
          BY <1>1, <3>1, <5>2
      <4>3. QED
        BY <4>1, <4>2
    <3>5. CASE p \in Results /\ ResultLeft(w, w', p)
      BY <1>1, <3>1, <3>5 DEF Ticks, ResultLeft
    <3>6. QED
      BY <3>2, <3>3, <3>4, <3>5 DEF ClearNotified
  <2>3. CASE Alike(w, w') /\ ~(AltRegister(t) /\ ~AtEnd(t))
    <3>1. Ticks(o)
      BY <2>3 DEF Alike, SameObjects, Ticks
    <3>2. f[t].pc = "a_register" => AtEnd(t)
      BY <1>11, <2>3 DEF AltLock, AltScan, AltRegister, AltClear, AltGet, AltUnlock, At
    <3>3. QED
      BY <3>1, <3>2 DEF TimerOK, Asks
  <2>4. QED
    BY <1>11, <2>1, <2>2, <2>3, AltFacts
<1>12. QED
  BY <1>2, <1>3, <1>4, <1>5, <1>6, <1>7, <1>8, <1>9, <1>10, <1>11 DEF Run
(* Where a thread that relies on its timers has come from.                 *)
LEMMA RunEnters ==
  ASSUME NEW S, Inv(S), NEW t \in Users, Run(t), Doing(t), Proper(prog), Relies(t)'
  PROVE  f[t].pc \in {"a_register", "a_sleep"} \/ Held(f'[t]) = {}
<1>0. prog' = prog /\ Ways(t) /\ f[t].ret \in {"idle", "a_unlock", "b_next"}
  BY RunRest, RunWays DEF Inv, Typed, Frame
<1>1. f'[t].pc \in {"a_register", "a_sleep", "a_relock"}
  BY DEF Relies
<1>2. SUFFICES ASSUME f[t].pc \notin {"a_register", "a_sleep"} PROVE Held(f'[t]) = {}
  OBVIOUS
<1>3. ASSUME NEW p, Edge(f[t], p), Went(t, p) PROVE FALSE
  <2>1. f'[t].pc = p
    BY <1>3 DEF Went, NewFrame
  <2>2. p \notin {"a_register", "a_sleep", "a_relock"}
    BY <1>0, <1>2, <1>3 DEF Edge
  <2>3. QED
    BY <1>1, <2>1, <2>2
<1>4. ASSUME End(t) \/ ReadTake(t), f' = f PROVE FALSE
  BY <1>1, <1>4 DEF End, ReadTake, At
<1>5. ASSUME NEW o \in prog.menu[t], NewFrame(t, Entry(o), o.ch, o, 1, "idle")
      PROVE  Held(f'[t]) = {}
  BY <1>0, <1>5, StartDoing
<1>6. ASSUME f[t].pc = "a_scan", NewFrame(t, "a_register", f[t].ch, f[t].op, 1, f[t].ret)
      PROVE  Held(f'[t]) = {}
  <2>1. f[t].op \in Calls
    BY <1>6 DEF Inv, Typed, FrameFits
  <2>2. f'[t].pc = "a_register" /\ f'[t].op = f[t].op /\ f'[t].idx = 1
    BY <1>6 DEF NewFrame
  <2>3. Behind(f'[t]) = {}
    BY <2>1, <2>2, HeldSets
  <2>4. QED
    BY <2>2, <2>3 DEF Held
<1>7. ASSUME NEW p, NEW c, NEW o, NEW i, NEW r, NewFrame(t, p, c, o, i, r),
             p \in {"a_scan", "a_clear", "a_unlock", "r_writer", "to_get", "res_get", "w_notify"}
      PROVE  FALSE
  BY <1>1, <1>7 DEF NewFrame
<1>8. QED
  BY <1>0, <1>2, <1>3, <1>4, <1>5, <1>6, <1>7 DEF Ways

LEMMA OnTimeRun ==
  ASSUME NEW S, Inv(S), Sound, OnTime, NEW t \in Users, Run(t)
  PROVE  OnTime'
<1>0. /\ Fifo /\ Does /\ Found /\ Settled /\ OwnResults /\ Proper(prog) /\ Doing(t) /\ FoundBy(t)
  BY DEF Sound, ByTheRules, Inv, Typed, Does, Found
<1>1. /\ Safe(t) /\ Goes(t) /\ prog' = prog /\ cur = t /\ w'.fault = "none"
  BY <1>0, RunSafe, RunGoes, RunRest, RunMoves DEF Safe
<1>2. \A o \in Timeouts : TimerOK(t, o) /\ (TimerUp(o) => w.st[TimerOf(o)] \in {"ready", "delay"})
  BY <1>0, <1>1, RunTimers, TimerIds DEF TimerUp
<1>3. SUFFICES ASSUME NEW u \in Users, Relies(u)', NEW o \in Timeouts, o \in Held(f'[u])
               PROVE  w'.to[o].readt = u /\ w'.st[TimerOf(o)] \in {"ready", "delay"}
  BY DEF OnTime, OnTimeBy, TimerUp
<1>4. CASE u # t
  <2>1. f'[u] = f[u] /\ u # cur /\ (w'.st[u] = w.st[u] \/ w'.st[u] = "ready")
    BY <1>1, <1>4 DEF Safe, StepOK, Others, Rouses
  <2>2. StandsBy(u)
    BY <1>0, <2>1 DEF Settled, Stands
  <2>3. Relies(u)
    BY <1>3, <2>1, <2>2 DEF Relies, StandsBy, Waits
  <2>4. w.to[o].readt = u /\ w.st[TimerOf(o)] \in {"ready", "delay"}
    BY <1>2, <1>3, <2>1, <2>3 DEF OnTime, OnTimeBy
  <2>5. o \in Ports /\ o \notin Chans
    BY TimerIds
  <2>6. f[u].op \in prog.menu[u] /\ o \in ReadsFrom(f[u].op)
    BY <1>0, <1>3, <2>1, <2>5, HeldReads
  <2>7. ASSUME f[t].pc \in {"a_register", "a_clear"}, o \in PortsOf(t) PROVE FALSE
    <3>1. f[t].op \in prog.menu[t] /\ o \in ReadsFrom(f[t].op)
      BY <1>0, <2>7, AltCalls DEF AltPcs, PortPcs
    <3>2. QED
      BY <1>0, <1>4, <2>5, <2>6, <3>1 DEF Proper
  <2>8. Ticks(o)
    BY <1>2, <2>7 DEF TimerOK
  <2>9. QED
    BY <2>4, <2>8 DEF Ticks
<1>5. CASE u = t
  <2>1. f[t].pc \in {"a_register", "a_sleep"}
    BY <1>0, <1>3, <1>5, RunEnters
  <2>2. Relies(t)
    BY <2>1 DEF Relies
  <2>3. CASE o \in Held(f[t])
    <3>1. w.to[o].readt = t /\ w.st[TimerOf(o)] \in {"ready", "delay"}
      BY <1>2, <2>2, <2>3 DEF OnTime, OnTimeBy
    <3>2. QED
      BY <1>2, <1>5, <2>1, <3>1 DEF TimerOK, Ticks
  <2>4. CASE o \notin Held(f[t])
    <3>1. Asks(t, o)
      BY <1>1, <1>3, <1>5, <2>1, <2>4 DEF Goes, HeldMove, Asks
    <3>2. QED
      BY <1>2, <1>5, <2>1, <3>1 DEF TimerOK
  <2>5. QED
    BY <2>3, <2>4
<1>6. QED
  BY <1>4, <1>5

(* The helpers and the scheduler: no thread goes to sleep, and a timer is  *)
(* under way until it fires.                                               *)
LEMMA SchedulerSleeps ==
  ASSUME NEW S, Inv(S), Scheduler, NEW u \in Users, w'.st[u] = "sleep"
  PROVE  w.st[u] = "sleep"
<1>0. w \in World(S) /\ u \in Threads
  BY HelperIds DEF Inv, Typed
<1>1. ASSUME NEW h \in Helpers, HelperDelay(h) PROVE w.st[u] = "sleep"
  <2>1. PICK d : w' = Left([w EXCEPT !.due[h] = d], h, "delay")
    BY <1>1 DEF HelperDelay, BlockIn, Left
  <2>2. h \in Threads
    BY HelperIds
  <2>3. Moved(w, w', h, "delay")
    BY <1>0, <2>1, <2>2, DelayFacts
  <2>4. QED
    BY <1>0, <2>3 DEF Moved
<1>2. ASSUME NEW p \in Timeouts, HelperFire(TimerOf(p)) PROVE w.st[u] = "sleep"
  BY <1>0, <1>2, TimerFireFacts DEF TimerFired
<1>3. ASSUME NEW c \in Chans, NEW r \in Users, HelperFire(WakerOf(c, r)) PROVE w.st[u] = "sleep"
  BY <1>0, <1>3, WakerFireFacts DEF WakerFired
<1>4. ASSUME NEW h \in Threads, Dispatch(h) PROVE w.st[u] = "sleep"
  BY <1>0, <1>4, DispatchWorld DEF Moved
<1>5. CASE Advance
  <2>1. PICK T : TimePassed(w, w', T)
    BY <1>5, AdvanceWorld
  <2>2. QED
    BY <1>0, <2>1 DEF TimePassed
<1>6. QED
  BY <1>1, <1>2, <1>3, <1>4, <1>5 DEF Scheduler, Helpers

LEMMA AsideTimers ==
  ASSUME NEW S, Inv(S), Scheduler, NEW o \in Timeouts, NEW u \in Users, w'.st[u] = "sleep",
         w.st[u] = "sleep", w.to[o].readt = u, TimerUp(o)
  PROVE  w'.to[o].readt = u /\ TimerUp(o)'
<1>0. /\ w \in World(S) /\ TimerOf(o) \in Threads /\ TimerOf(o) \notin Users
      /\ TimerOf(o) # NULL /\ u \in Threads /\ u \notin Helpers
  BY TimerIds, HelperIds DEF Inv, Typed
<1>2. ASSUME NEW h \in Helpers, HelperDelay(h) PROVE w'.to[o].readt = u /\ TimerUp(o)'
  <2>1. PICK d : w' = Left([w EXCEPT !.due[h] = d], h, "delay")
    BY <1>2 DEF HelperDelay, BlockIn, Left
  <2>2. h \in Threads /\ cur = h
    BY <1>2, HelperIds DEF HelperDelay, Runs
  <2>3. Moved(w, w', h, "delay")
    BY <1>0, <2>1, <2>2, DelayFacts
  <2>4. QED
    BY <1>0, <2>2, <2>3 DEF Moved, SameObjects, TimerUp
<1>3. ASSUME NEW p \in Timeouts, HelperFire(TimerOf(p)) PROVE w'.to[o].readt = u /\ TimerUp(o)'
  <2>1. TimerFired(w, w', p) /\ cur = TimerOf(p)
    BY <1>3, TimerFireFacts DEF HelperFire, Runs
  <2>2. w.to[p].readt \in Users \cup {NULL}
    BY <1>0 DEF World
  <2>3. CASE o = p
    BY <1>0, <2>1, <2>3 DEF TimerFired
  <2>4. CASE o # p
    <3>1. TimerOf(o) # TimerOf(p)
      BY <2>4, TimerIds
    <3>2. w.st[TimerOf(o)] \in {"ready", "delay"}
      BY <2>1, <3>1 DEF TimerUp
    <3>3. w'.to[o].readt = u /\ w'.st[TimerOf(o)] = w.st[TimerOf(o)]
      BY <1>0, <2>1, <2>2, <2>4, <3>1 DEF TimerFired
    <3>4. QED
      BY <3>2, <3>3 DEF TimerUp
  <2>5. QED
    BY <2>3, <2>4
<1>4. ASSUME NEW c \in Chans, NEW r \in Users, HelperFire(WakerOf(c, r))
      PROVE  w'.to[o].readt = u /\ TimerUp(o)'
  <2>1. WakerFired(w, w', c, r) /\ cur = WakerOf(c, r)
    BY <1>4, WakerFireFacts DEF HelperFire, Runs
  <2>2. TimerOf(o) # WakerOf(c, r)
    BY TimerIds
  <2>3. w.st[TimerOf(o)] \in {"ready", "delay"}
    BY <2>1, <2>2 DEF TimerUp
  <2>4. w'.to = w.to /\ w'.st[TimerOf(o)] = w.st[TimerOf(o)]
    BY <1>0, <2>1, <2>2 DEF WakerFired, NewReaders, SameOthers
  <2>5. QED
    BY <2>3, <2>4 DEF TimerUp
<1>5. ASSUME NEW h \in Threads, Dispatch(h) PROVE w'.to[o].readt = u /\ TimerUp(o)'
  <2>1. Moved(w, w', h, "run") /\ cur = NULL /\ cur' = h
    BY <1>5, DispatchWorld DEF Dispatch
  <2>2. QED
    BY <1>0, <2>1 DEF Moved, SameObjects, TimerUp
<1>6. CASE Advance
  <2>1. PICK T : TimePassed(w, w', T)
    BY <1>6, AdvanceWorld
  <2>2. cur' = cur
    BY <1>6 DEF Advance
  <2>3. QED
    BY <1>0, <2>1, <2>2 DEF TimePassed, SameObjects, TimerUp
<1>7. QED
  BY <1>2, <1>3, <1>4, <1>5, <1>6 DEF Scheduler, Helpers

LEMMA OnTimeAside ==
  ASSUME NEW S, Inv(S), Sound, OnTime, Scheduler
  PROVE  OnTime'
<1>0. Fifo /\ Settled
  BY DEF Sound
<1>1. f' = f /\ cur \notin Users
  BY <1>0, SchedulerIdle DEF Fifo
<1>3. SUFFICES ASSUME NEW u \in Users, Relies(u)', NEW o \in Timeouts, o \in Held(f[u])
               PROVE  w'.to[o].readt = u /\ TimerUp(o)'
  BY <1>1 DEF OnTime, OnTimeBy
<1>4. StandsBy(u)
  BY <1>0, <1>1 DEF Settled, Stands
<1>5. f[u].pc = "a_relock" /\ w'.st[u] = "sleep"
  BY <1>1, <1>3, <1>4 DEF Relies, StandsBy, Waits
<1>6. w.st[u] = "sleep"
  BY <1>5, SchedulerSleeps
<1>7. w.to[o].readt = u /\ TimerUp(o)
  BY <1>3, <1>5, <1>6 DEF OnTime, OnTimeBy, Relies
<1>8. QED
  BY <1>5, <1>6, <1>7, AsideTimers

(* Whoever sleeps in an alt block with a Timeout has its timer under way.  *)
LEMMA OnTimeEnds == Sound /\ OnTime => TimeoutEndsAlt
<1>1. SUFFICES ASSUME Sound, OnTime, AtRest, NEW t \in Users, Blocked(t), f[t].pc = "a_relock",
                      NEW o \in Timeouts, o \in PortsOf(t)
               PROVE  FALSE
  BY DEF TimeoutEndsAlt
<1>2. cur = NULL /\ t # cur /\ TimerOf(o) \in Threads /\ TimerOf(o) # NULL
  BY <1>1, TimerIds, HelperIds DEF AtRest
<1>3. StandsBy(t)
  BY <1>1, <1>2 DEF Sound, Settled, Stands
<1>4. w.st[t] = "sleep"
  BY <1>1, <1>3 DEF StandsBy, Blocked
<1>5. o \in Held(f[t])
  BY <1>1 DEF Held, PortsOf
<1>6. TimerUp(o)
  BY <1>1, <1>4, <1>5 DEF OnTime, OnTimeBy, Relies
<1>7. QED
  BY <1>1, <1>2, <1>6 DEF TimerUp, AtRest, ReadyThreads, Delayed

(* TimeoutEndsAlt for every program that keeps to the rules of the         *)
(* classes: no thread is left in an alt block that has a Timeout among its *)
(* ports, whichever of the ports come first and however often the timer is *)
(* cancelled and set again.                                                *)
THEOREM TimeoutsEndAlts == ByTheRules /\ Spec => []TimeoutEndsAlt
<1>1. ByTheRules /\ Init => Sound /\ OnTime
  <2>1. Init => OnTime
    BY DEF Init, Rest, OnTime, OnTimeBy, Relies
  <2>2. QED
    BY <2>1, SoundInit
<1>2. Sound /\ OnTime /\ [Next]_vars => (Sound /\ OnTime)'
  <2>1. SUFFICES ASSUME Sound, OnTime, [Next]_vars PROVE OnTime'
    BY SoundStep
  <2>2. PICK S : Inv(S)
    BY <2>1 DEF Sound, Invariant
  <2>3. CASE UNCHANGED vars
    BY <2>1, <2>3 DEF vars, OnTime, OnTimeBy, Relies, TimerUp
  <2>4. CASE Scheduler
    BY <2>1, <2>2, <2>4, OnTimeAside
  <2>5. CASE \E t \in Users : Run(t)
    BY <2>1, <2>2, <2>5, OnTimeRun
  <2>6. QED
    BY <2>1, <2>3, <2>4, <2>5 DEF Next, Scheduler
<1>3. QED
  BY <1>1, <1>2, OnTimeEnds, PTL DEF Spec

-----------------------------------------------------------------------------
(* Broadcasters.  Sequences first: what a sink has been sent is all of     *)
(* what was taken from the source or, if it is cleared, a subsequence.     *)
Fits(b, s, g) == IF b THEN Subsequence(s, g) ELSE s = g

LEMMA SubAppend ==
  ASSUME NEW V, NEW s \in Seq(V), NEW g \in Seq(V), NEW v \in V, Subsequence(s, g)
  PROVE  Subsequence(Append(s, v), Append(g, v)) /\ Subsequence(s, Append(g, v))
<1> DEFINE n == Len(s)
           k == Len(g)
           a == Append(s, v)
           b == Append(g, v)
<1>1. n \in Nat /\ k \in Nat
  OBVIOUS
<1>2. Len(a) = n + 1 /\ a[n + 1] = v /\ \A i \in 1..n : a[i] = s[i]
  OBVIOUS
<1>3. Len(b) = k + 1 /\ b[k + 1] = v /\ \A i \in 1..k : b[i] = g[i]
  OBVIOUS
<1>4. PICK m \in [1..n -> 1..k] : /\ \A i, j \in 1..n : i < j => m[i] < m[j]
                                  /\ \A i \in 1..n : s[i] = g[m[i]]
  BY DEF Subsequence
<1> HIDE DEF n, k, a, b
<1>5. \A i \in 1..n : m[i] \in 1..k
  BY <1>4
<1>6. Subsequence(a, b)
  <2> DEFINE h == [i \in 1..(n + 1) |-> IF i = n + 1 THEN k + 1 ELSE m[i]]
  <2>1. \A i \in 1..(n + 1) : i = n + 1 \/ i \in 1..n
    BY <1>1
  <2>2. h \in [1..(n + 1) -> 1..(k + 1)] /\ h[n + 1] = k + 1 /\ \A i \in 1..n : h[i] = m[i]
    BY <1>1, <1>5, <2>1
  <2> HIDE DEF h
  <2>3. ASSUME NEW i \in 1..(n + 1), NEW j \in 1..(n + 1), i < j PROVE h[i] < h[j]
    <3>1. i \in 1..n
      BY <1>1, <2>3
    <3>2. CASE j = n + 1
      BY <1>1, <1>5, <2>2, <3>1, <3>2
    <3>3. CASE j \in 1..n
      BY <1>4, <2>2, <2>3, <3>1, <3>3
    <3>4. QED
      BY <2>1, <3>2, <3>3
  <2>4. ASSUME NEW i \in 1..(n + 1) PROVE a[i] = b[h[i]]
    BY <1>2, <1>3, <1>4, <1>5, <2>1, <2>2
  <2>5. QED
    BY <1>2, <1>3, <2>2, <2>3, <2>4 DEF Subsequence
<1>7. Subsequence(s, b)
  <2>1. m \in [1..n -> 1..(k + 1)]
    BY <1>1, <1>4, <1>5
  <2>2. \A i \in 1..n : s[i] = b[m[i]]
    BY <1>3, <1>4, <1>5
  <2>3. QED
    BY <1>3, <1>4, <2>1, <2>2 DEF Subsequence, n
<1>8. QED
  BY <1>6, <1>7 DEF a, b

(* Items left out of a subsequence: those after the first p, or the one    *)
(* after them.                                                             *)
LEMMA SubCut ==
  ASSUME NEW V, NEW s \in Seq(V), NEW g \in Seq(V), Subsequence(s, g), NEW x \in Seq(V),
         NEW p \in Nat, p <= Len(s), \A i \in 1..p : x[i] = s[i],
         Len(x) = p \/ (Len(x) = Len(s) - 1 /\ \A i \in 1..Len(x) : i > p => x[i] = s[i + 1])
  PROVE  Subsequence(x, g)
<1> DEFINE n == Len(s)
           k == Len(g)
           l == Len(x)
<1>1. n \in Nat /\ k \in Nat /\ l \in Nat
  OBVIOUS
<1>2. PICK m \in [1..n -> 1..k] : /\ \A i, j \in 1..n : i < j => m[i] < m[j]
                                  /\ \A i \in 1..n : s[i] = g[m[i]]
  BY DEF Subsequence
<1> DEFINE z(i) == IF i <= p THEN i ELSE i + 1
           h == [i \in 1..l |-> m[z(i)]]
<1>3. p <= n /\ \A i \in 1..p : x[i] = s[i]
  OBVIOUS
<1>4. l = p \/ (l = n - 1 /\ \A i \in 1..l : i > p => x[i] = s[i + 1])
  OBVIOUS
<1> HIDE DEF n, k, l
<1>5. \A i \in 1..l : z(i) \in 1..n /\ x[i] = s[z(i)]
  <2>1. SUFFICES ASSUME NEW i \in 1..l PROVE z(i) \in 1..n /\ x[i] = s[z(i)]
    OBVIOUS
  <2>2. CASE i <= p
    BY <1>1, <1>3, <2>2
  <2>3. CASE ~(i <= p)
    <3>0. i > p /\ l # p
      BY <1>1, <2>3
    <3>1. l = n - 1 /\ x[i] = s[i + 1]
      BY <1>4, <3>0
    <3>2. z(i) = i + 1 /\ i + 1 \in 1..n
      BY <1>1, <2>3, <3>1
    <3>3. QED
      BY <3>1, <3>2
  <2>4. QED
    BY <2>2, <2>3
<1>6. \A i, j \in 1..l : i < j => z(i) < z(j)
  BY <1>1
<1> HIDE DEF z
<1>7. h \in [1..l -> 1..k] /\ \A i \in 1..l : h[i] = m[z(i)]
  BY <1>2, <1>5
<1> HIDE DEF h
<1>8. \A i, j \in 1..l : i < j => h[i] < h[j]
  BY <1>2, <1>5, <1>6, <1>7
<1>9. \A i \in 1..l : x[i] = g[h[i]]
  BY <1>2, <1>5, <1>7
<1>10. QED
  BY <1>7, <1>8, <1>9 DEF Subsequence, k, l

LEMMA FitsEmpty ==
  \A b \in BOOLEAN : Fits(b, <<>>, <<>>)
<1>1. Subsequence(<<>>, <<>>)
  <2> DEFINE m == [i \in 1..0 |-> i]
  <2>1. m \in [1..Len(<<>>) -> 1..Len(<<>>)] /\ 1..Len(<<>>) = {}
    OBVIOUS
  <2> HIDE DEF m
  <2>2. QED
    BY <2>1 DEF Subsequence
<1>2. QED
  BY <1>1 DEF Fits

(* Joined sequences, and what is taken from or put into the second part.   *)
LEMMA Joined ==
  ASSUME NEW V, NEW a \in Seq(V), NEW b \in Seq(V), NEW n, NEW m, n = Len(a), m = Len(b)
  PROVE  /\ a \o b \in Seq(V) /\ Len(a \o b) = n + m
         /\ \A i \in 1..n : (a \o b)[i] = a[i]
         /\ \A i \in (n + 1)..(n + m) : (a \o b)[i] = b[i - n]
<1>1. n \in Nat /\ m \in Nat
  OBVIOUS
<1>2. a \o b \in Seq(V) /\ Len(a \o b) = n + m
  OBVIOUS
<1>3. \A i \in 1..(n + m) : (a \o b)[i] = IF i <= n THEN a[i] ELSE b[i - n]
  OBVIOUS
<1>4. QED
  BY <1>1, <1>2, <1>3

LEMMA SameSeq ==
  ASSUME NEW V, NEW a \in Seq(V), NEW b \in Seq(V), Len(a) = Len(b),
         \A i \in 1..Len(a) : a[i] = b[i]
  PROVE  a = b
  OBVIOUS

LEMMA JoinTake ==
  ASSUME NEW V, NEW a \in Seq(V), NEW b \in Seq(V), b # <<>>
  PROVE  Append(a, Head(b)) \o Tail(b) = a \o b
<1> DEFINE x == Append(a, Head(b))
           y == Tail(b)
           z == x \o y
           q == a \o b
<1>1. PICK n \in Nat, m \in Nat : n = Len(a) /\ m = Len(b)
  OBVIOUS
<1>2. /\ Head(b) = b[1] /\ b[1] \in V /\ m > 0
      /\ y \in Seq(V) /\ Len(y) = m - 1 /\ \A i \in 1..(m - 1) : y[i] = b[i + 1]
  <2>1. m > 0 /\ Head(b) = b[1] /\ 1 \in 1..m
    BY <1>1
  <2>2. b[1] \in V
    BY <1>1, <2>1
  <2>3. y \in Seq(V) /\ Len(y) = m - 1 /\ \A i \in 1..(m - 1) : y[i] = b[i + 1]
    BY <1>1
  <2>4. QED
    BY <2>1, <2>2, <2>3
<1>3. x \in Seq(V) /\ Len(x) = n + 1 /\ x[n + 1] = b[1] /\ \A i \in 1..n : x[i] = a[i]
  BY <1>1, <1>2
<1> HIDE DEF x, y
<1>4. /\ z \in Seq(V) /\ Len(z) = (n + 1) + (m - 1)
      /\ \A i \in 1..(n + 1) : z[i] = x[i]
      /\ \A i \in ((n + 1) + 1)..((n + 1) + (m - 1)) : z[i] = y[i - (n + 1)]
  <2>0. x \in Seq(V) /\ y \in Seq(V)
    BY <1>2, <1>3
  <2>1. PICK j \in Nat, k \in Nat : j = Len(x) /\ k = Len(y)
    BY <2>0
  <2>2. /\ z \in Seq(V) /\ Len(z) = j + k /\ \A i \in 1..j : z[i] = x[i]
        /\ \A i \in (j + 1)..(j + k) : z[i] = y[i - j]
    BY <2>0, <2>1, Joined
  <2>3. j = n + 1 /\ k = m - 1
    BY <1>2, <1>3, <2>1
  <2>4. QED
    BY <2>2, <2>3
<1>5. /\ q \in Seq(V) /\ Len(q) = n + m
      /\ \A i \in 1..n : q[i] = a[i]
      /\ \A i \in (n + 1)..(n + m) : q[i] = b[i - n]
  BY <1>1, Joined
<1> HIDE DEF z, q
<1>6. ASSUME NEW i \in 1..(n + m) PROVE z[i] = q[i]
  <2>1. CASE i \in 1..n
    <3>1. i \in 1..(n + 1)
      BY <2>1
    <3>2. QED
      BY <1>3, <1>4, <1>5, <2>1, <3>1
  <2>2. CASE i = n + 1
    <3>1. i \in 1..(n + 1) /\ i \in (n + 1)..(n + m) /\ i - n = 1
      BY <1>2, <2>2
    <3>2. z[i] = x[n + 1] /\ q[i] = b[1]
      BY <1>4, <1>5, <2>2, <3>1
    <3>3. QED
      BY <1>3, <3>2
  <2>3. CASE i > n + 1
    <3>1. /\ i \in ((n + 1) + 1)..((n + 1) + (m - 1)) /\ i \in (n + 1)..(n + m)
          /\ i - (n + 1) \in 1..(m - 1) /\ (i - (n + 1)) + 1 = i - n
      BY <1>2, <2>3
    <3>2. z[i] = y[i - (n + 1)] /\ q[i] = b[i - n]
      BY <1>4, <1>5, <3>1
    <3>3. QED
      BY <1>2, <3>1, <3>2
  <2>4. QED
    BY <2>1, <2>2, <2>3
<1>7. Len(z) = n + m /\ Len(q) = n + m
  BY <1>4, <1>5
<1>8. z = q
  BY <1>4, <1>5, <1>6, <1>7, SameSeq
<1>9. QED
  BY <1>8 DEF x, y, z, q

LEMMA JoinPut ==
  ASSUME NEW V, NEW a \in Seq(V), NEW b \in Seq(V), NEW v \in V
  PROVE  a \o Append(b, v) = Append(a \o b, v)
<1> DEFINE y == Append(b, v)
           z == a \o y
           q == a \o b
           r == Append(q, v)
<1>1. PICK n \in Nat, m \in Nat : n = Len(a) /\ m = Len(b)
  OBVIOUS
<1>2. y \in Seq(V) /\ Len(y) = m + 1 /\ y[m + 1] = v /\ \A i \in 1..m : y[i] = b[i]
  BY <1>1
<1> HIDE DEF y
<1>3. /\ z \in Seq(V) /\ Len(z) = n + (m + 1)
      /\ \A i \in 1..n : z[i] = a[i]
      /\ \A i \in (n + 1)..(n + (m + 1)) : z[i] = y[i - n]
  <2>1. PICK k : k = m + 1 /\ k = Len(y)
    BY <1>2
  <2>2. /\ z \in Seq(V) /\ Len(z) = n + k
        /\ \A i \in 1..n : z[i] = a[i]
        /\ \A i \in (n + 1)..(n + k) : z[i] = y[i - n]
    BY <1>1, <1>2, <2>1, Joined
  <2>3. QED
    BY <2>1, <2>2
<1>4. /\ q \in Seq(V) /\ Len(q) = n + m
      /\ \A i \in 1..n : q[i] = a[i]
      /\ \A i \in (n + 1)..(n + m) : q[i] = b[i - n]
  BY <1>1, Joined
<1> HIDE DEF z, q
<1>5. /\ r \in Seq(V) /\ Len(r) = (n + m) + 1 /\ r[(n + m) + 1] = v
      /\ \A i \in 1..(n + m) : r[i] = q[i]
  BY <1>4
<1> HIDE DEF r
<1>6. ASSUME NEW i \in 1..((n + m) + 1) PROVE z[i] = r[i]
  <2>1. CASE i \in 1..n
    <3>1. i \in 1..(n + m)
      BY <2>1
    <3>2. QED
      BY <1>3, <1>4, <1>5, <2>1, <3>1
  <2>2. CASE i \in (n + 1)..(n + m)
    <3>1. i \in 1..(n + m) /\ i \in (n + 1)..(n + (m + 1)) /\ i - n \in 1..m
      BY <2>2
    <3>2. QED
      BY <1>2, <1>3, <1>4, <1>5, <2>2, <3>1
  <2>3. CASE i = (n + m) + 1
    <3>1. i \in (n + 1)..(n + (m + 1)) /\ i - n = m + 1
      BY <2>3
    <3>2. QED
      BY <1>2, <1>3, <1>5, <2>3, <3>1
  <2>4. QED
    BY <2>1, <2>2, <2>3
<1>7. Len(z) = (n + m) + 1 /\ Len(r) = (n + m) + 1
  BY <1>3, <1>5
<1>8. z = r
  BY <1>3, <1>5, <1>6, <1>7, SameSeq
<1>9. QED
  BY <1>8 DEF y, z, q, r

LEMMA JoinCut ==
  ASSUME NEW V, NEW a \in Seq(V), NEW b \in Seq(V), NEW g \in Seq(V), Subsequence(a \o b, g),
         NEW y, y = <<>> \/ (b # <<>> /\ y = Tail(b))
  PROVE  Subsequence(a \o y, g)
<1> DEFINE s == a \o b
           x == a \o y
<1>1. PICK n \in Nat, m \in Nat : n = Len(a) /\ m = Len(b)
  OBVIOUS
<1>2. PICK k \in Nat : /\ y \in Seq(V) /\ k = Len(y)
                       /\ k = 0 \/ (k = m - 1 /\ \A i \in 1..k : y[i] = b[i + 1])
  <2>1. CASE y = <<>>
    BY <2>1
  <2>2. CASE b # <<>> /\ y = Tail(b)
    <3>1. y \in Seq(V) /\ Len(y) = m - 1 /\ \A i \in 1..(m - 1) : y[i] = b[i + 1]
      BY <1>1, <2>2
    <3>2. Len(y) \in Nat
      BY <3>1
    <3>3. QED
      BY <3>1, <3>2
  <2>3. QED
    BY <2>1, <2>2
<1>3. /\ s \in Seq(V) /\ Len(s) = n + m
      /\ \A i \in 1..n : s[i] = a[i]
      /\ \A i \in (n + 1)..(n + m) : s[i] = b[i - n]
  BY <1>1, Joined
<1>4. /\ x \in Seq(V) /\ Len(x) = n + k
      /\ \A i \in 1..n : x[i] = a[i]
      /\ \A i \in (n + 1)..(n + k) : x[i] = y[i - n]
  BY <1>1, <1>2, Joined
<1>5. Subsequence(s, g)
  OBVIOUS
<1> HIDE DEF s, x
<1>6. n <= Len(s) /\ \A i \in 1..n : x[i] = s[i]
  BY <1>3, <1>4
<1>7. Len(x) = n \/ (Len(x) = Len(s) - 1 /\ \A i \in 1..Len(x) : i > n => x[i] = s[i + 1])
  <2>1. CASE k = 0
    BY <1>4, <2>1
  <2>2. CASE k = m - 1 /\ \A i \in 1..k : y[i] = b[i + 1]
    <3>1. Len(x) = Len(s) - 1
      BY <1>3, <1>4, <2>2
    <3>2. ASSUME NEW i \in 1..(n + k), i > n PROVE x[i] = s[i + 1]
      <4>1. /\ i - n \in 1..k /\ (i - n) + 1 = (i + 1) - n /\ i + 1 \in (n + 1)..(n + m)
            /\ i \in (n + 1)..(n + k)
        BY <2>2, <3>2
      <4>2. x[i] = y[i - n] /\ s[i + 1] = b[(i + 1) - n]
        BY <1>3, <1>4, <4>1
      <4>3. QED
        BY <2>2, <4>1, <4>2
    <3>3. QED
      BY <1>4, <3>1, <3>2
  <2>3. QED
    BY <1>2, <2>1, <2>2
<1>8. Subsequence(x, g)
  BY <1>3, <1>4, <1>5, <1>6, <1>7, SubCut
<1>9. QED
  BY <1>8 DEF x

LEMMA ValuesPut ==
  ASSUME NEW S, NEW q \in Seq(Item(S)), NEW i \in Item(S)
  PROVE  VSeq(Append(q, i)) = Append(VSeq(q), i.v)
<1> DEFINE n == Len(q)
           v == VSeq(q)
           r == Append(q, i)
           x == VSeq(r)
           y == Append(v, i.v)
<1>1. /\ n \in Nat /\ r \in Seq(Item(S)) /\ Len(r) = n + 1 /\ r[n + 1] = i
      /\ \A j \in 1..n : r[j] = q[j]
  OBVIOUS
<1>2. v \in Seq(Value) /\ Len(v) = n /\ \A j \in 1..n : v[j] = q[j].v
  BY ValuesSeq
<1>3. i.v \in Value
  BY DEF Item
<1> HIDE DEF r
<1>4. x \in Seq(Value) /\ Len(x) = n + 1 /\ \A j \in 1..(n + 1) : x[j] = r[j].v
  BY <1>1, ValuesSeq
<1> HIDE DEF v, x
<1>5. y \in Seq(Value) /\ Len(y) = n + 1 /\ y[n + 1] = i.v /\ \A j \in 1..n : y[j] = v[j]
  BY <1>2, <1>3
<1> HIDE DEF y, n
<1>6. \A j \in 1..(n + 1) : x[j] = y[j]
  <2>1. SUFFICES ASSUME NEW j \in 1..(n + 1) PROVE x[j] = y[j]
    OBVIOUS
  <2>2. CASE j = n + 1
    BY <1>1, <1>4, <1>5, <2>2
  <2>3. CASE j \in 1..n
    BY <1>1, <1>2, <1>4, <1>5, <2>3
  <2>4. QED
    BY <1>1, <2>2, <2>3
<1>7. QED
  BY <1>1, <1>4, <1>5, <1>6 DEF x, y, v, r

-----------------------------------------------------------------------------
(* What a step does to what a channel was sent, consumed or not.           *)
Sent(c) == got[c] \o Values(c)

(* Only the calls that empty a channel drop items.                         *)
LEMMA DropsOwn ==
  ASSUME NEW S, Inv(S), NEW t \in Users, Run(t), Doing(t), NEW c \in Chans,
         ~Kept(c), ~Stores(t, c), ~Takes(t, c)
  PROVE  Drops(c) /\ f[t].op \in prog.menu[t] /\ c \in Empties(f[t].op)
<1>0. FrameFits(f[t]) /\ f[t].idx \in Nat /\ Drops(c)
  BY RunItems DEF Inv, Typed, Frame
<1>1. CASE WriteStore(t)
  <2>1. /\ f[t].pc = "w_store" /\ got' = got
        /\ Wrote(w, w', f[t].ch, f[t].val, now)
    BY <1>1, WriteStoreFacts DEF WriteStore, At, Keeps, Quiet
  <2>2. CASE f[t].ch = c
    BY <2>1, <2>2 DEF Stores
  <2>3. CASE f[t].ch # c
    BY <2>1, <2>3 DEF Wrote, Kept
  <2>4. QED
    BY <2>2, <2>3
<1>2. CASE ReadTake(t)
  <2>1. f[t].pc = "r_take" /\ got \in [Chans -> Seq(Value)]
    BY <1>2 DEF ReadTake, At, Inv, Typed
  <2>2. CASE Refused(w, w', "empty_read") /\ got' = got
    BY <2>2, AlikeItems, SameKept
  <2>3. CASE w' = w /\ got' = got
    BY <2>3 DEF Kept
  <2>4. CASE Took(w, w', f[t].ch, got, got') /\ f[t].ch \in Chans
    <3>1. CASE f[t].ch = c
      BY <2>1, <2>4, <3>1 DEF Takes
    <3>2. CASE f[t].ch # c
      <4>1. got'[c] = got[c]
        BY <2>1, <2>4, <3>2 DEF Took
      <4>2. QED
        BY <2>4, <3>2, <4>1 DEF Took, StoreIs, Kept
    <3>3. QED
      BY <3>1, <3>2
  <2>5. QED
    BY <1>2, <2>2, <2>3, <2>4, ReadTakeFacts
<1>3. ASSUME NEW d \in Chans, ClearedTo(w, w', d), got' = got PROVE c = d
  <2>1. SUFFICES ASSUME c # d PROVE Kept(c)
    OBVIOUS
  <2>2. w'.ch[c].store = w.ch[c].store /\ w'.ch[c].data = w.ch[c].data
    BY <1>3, <2>1 DEF ClearedTo, StoreThenWriter, StoreIs, WriterLetIn, SameItems
  <2>3. QED
    BY <1>3, <2>2 DEF Kept
<1>4. CASE Clear(t)
  <2>1. f[t].pc \in {"clear", "clear_ready"} /\ got' = got
    BY <1>4 DEF Clear, At, Keeps, Quiet
  <2>2. f[t].ch = c
    BY <1>3, <1>4, <2>1, ClearFacts
  <2>3. QED
    BY <1>0, <2>1, <2>2 DEF Doing
<1>5. CASE Reflect(t)
  <2>0. got' = got
    BY <1>5 DEF Reflect, Keeps, Quiet
  <2>1. ~AtEnd(t) /\ f[t].op.bind /\ Sink(t) = c /\ w' # w
    BY <1>3, <1>5, <2>0, ReflectFacts DEF Kept
  <2>2. f[t].pc = "b_next"
    BY <1>5, <2>1, ReflectMoves
  <2>3. f[t].op \in Calls /\ f[t].op.op = "reflect" /\ f[t].idx # 0
    BY <1>0, <2>2 DEF FrameFits
  <2>4. c \in ToSet(f[t].op.ports)
    <3>1. AltPorts(t) = f[t].op.ports
      BY <2>3 DEF AltPorts
    <3>2. PICK q \in Seq(Ports) : q = f[t].op.ports
      BY <2>3 DEF Calls
    <3>3. f[t].idx \in 1..Len(q)
      BY <1>0, <2>1, <2>3, <3>1, <3>2 DEF AtEnd
    <3>4. QED
      BY <2>1, <3>2, <3>3 DEF Sink, ToSet
  <2>5. c \in Empties(f[t].op)
    BY <2>1, <2>3, <2>4 DEF Empties
  <2>6. QED
    BY <1>0, <2>2, <2>5 DEF Doing
<1>6. CASE ~WriteStore(t) /\ ~ReadTake(t) /\ ~Clear(t) /\ ~Reflect(t)
  BY <1>6, OtherItems, SameKept
<1>7. QED
  BY <1>1, <1>2, <1>4, <1>5, <1>6

(* A channel that is emptied was sent a subsequence of what it was sent.   *)
Thinned(c) == \A g \in Seq(Value) : Subsequence(Sent(c), g) => Subsequence(Sent(c)', g)

LEMMA SentTypes ==
  ASSUME NEW S, Inv(S), NEW c \in Chans
  PROVE  /\ got[c] \in Seq(Value) /\ Values(c) \in Seq(Value) /\ Sent(c) \in Seq(Value)
         /\ w.ch[c].store \in Seq(Item(S)) /\ Values(c) = VSeq(w.ch[c].store)
         /\ Values(c)' = VSeq(w'.ch[c].store)
<1>1. got[c] \in Seq(Value) /\ w.ch[c].store \in Seq(Item(S))
  BY DEF Inv, Typed, World, Channel
<1>2. Values(c) = VSeq(w.ch[c].store) /\ Values(c)' = VSeq(w'.ch[c].store)
  BY DEF Values, VSeq
<1>3. Values(c) \in Seq(Value)
  BY <1>1, <1>2, ValuesSeq
<1>4. QED
  BY <1>1, <1>2, <1>3 DEF Sent

LEMMA SentStores ==
  ASSUME NEW S, Inv(S), Fifo, NEW t \in Users, NEW c \in Chans, Stores(t, c)
  PROVE  Sent(c)' = Append(Sent(c), f[t].val)
<1> DEFINE a == got[c]
           b == Values(c)
           q == w.ch[c].store
           i == [v |-> f[t].val, at |-> now]
<1>1. /\ a \in Seq(Value) /\ b \in Seq(Value) /\ q \in Seq(Item(S)) /\ b = VSeq(q)
      /\ Values(c)' = VSeq(w'.ch[c].store) /\ Sent(c) = a \o b /\ Sent(c)' = got'[c] \o Values(c)'
  BY SentTypes DEF Sent
<1>2. i \in Item(S) /\ i.v = f[t].val /\ f[t].val \in Value
  BY DEF Inv, Typed, Item, Frame
<1>3. OneItem(Class(c)) => q = <<>>
  BY RoomCapacity DEF Stores, Fifo, HasRoom
<1>4. w'.ch[c].store = IF OneItem(Class(c)) THEN <<i>> ELSE Append(q, i)
  BY DEF Stores, Wrote
<1> HIDE DEF q, i
<1>5. w'.ch[c].store = Append(q, i)
  BY <1>3, <1>4
<1>6. Values(c)' = Append(b, f[t].val) /\ got'[c] = a
  BY <1>1, <1>2, <1>5, ValuesPut DEF Stores
<1> HIDE DEF a, b
<1>7. QED
  BY <1>1, <1>2, <1>6, JoinPut

LEMMA SentStep ==
  ASSUME NEW S, Inv(S), Sound, NEW t \in Users, Run(t), NEW c \in Chans
  PROVE  \/ Sent(c)' = Sent(c)
         \/ /\ f[t].pc = "w_store" /\ f[t].ch = c
            /\ Sent(c)' = Append(Sent(c), f[t].val)
         \/ f[t].op \in prog.menu[t] /\ c \in Empties(f[t].op) /\ Thinned(c)
<1>0. /\ Fifo /\ Doing(t) /\ FoundBy(t) /\ f[t].val \in Value
  BY DEF Sound, Does, Found, Inv, Typed, Frame
<1> DEFINE a == got[c]
           b == Values(c)
           q == w.ch[c].store
<1>1. /\ a \in Seq(Value) /\ b \in Seq(Value) /\ q \in Seq(Item(S)) /\ b = VSeq(q)
      /\ Values(c)' = VSeq(w'.ch[c].store) /\ Sent(c) = a \o b /\ Sent(c)' = got'[c] \o Values(c)'
  BY SentTypes DEF Sent
<1>2. CASE Kept(c)
  BY <1>1, <1>2 DEF Kept
<1>3. CASE Stores(t, c)
  BY <1>0, <1>3, SentStores DEF Stores
<1>4. CASE Takes(t, c)
  <2> DEFINE v == IF OneItem(Class(c)) THEN w.ch[c].data ELSE Head(q).v
  <2>1. q # <<>> /\ w'.ch[c].store = Cut(q) /\ got'[c] = Append(a, v)
    BY <1>0, <1>4 DEF Takes, Took, StoreIs, FoundBy, Inv, Typed
  <2>2. v = Head(q).v
    BY <1>0, <2>1 DEF Fifo, OneFits
  <2> HIDE DEF v, q
  <2>3. Values(c)' = Tail(b) /\ b # <<>> /\ v = Head(b)
    BY <1>1, <2>1, <2>2, ValuesTail, ValuesSeq DEF Cut
  <2> HIDE DEF a, b
  <2>4. Sent(c)' = a \o b
    BY <1>1, <2>1, <2>3, JoinTake
  <2>5. QED
    BY <1>1, <2>4
<1>5. CASE Drops(c) /\ f[t].op \in prog.menu[t] /\ c \in Empties(f[t].op)
  <2>1. got'[c] = a /\ w'.ch[c].store \in {<<>>, Cut(q)} /\ VSeq(<<>>) = <<>>
    BY <1>5 DEF Drops, VSeq
  <2> HIDE DEF q
  <2>2. Values(c)' = <<>> \/ (b # <<>> /\ Values(c)' = Tail(b))
    BY <1>1, <2>1, ValuesTail, ValuesSeq DEF Cut
  <2> HIDE DEF a, b
  <2>3. PICK y : y = Values(c)'
    OBVIOUS
  <2>4. Thinned(c)
    <3>1. SUFFICES ASSUME NEW g \in Seq(Value), Subsequence(Sent(c), g) PROVE Subsequence(Sent(c)', g)
      BY DEF Thinned
    <3>2. a \in Seq(Value) /\ b \in Seq(Value) /\ Subsequence(a \o b, g)
      BY <1>1, <3>1
    <3>3. y = <<>> \/ (b # <<>> /\ y = Tail(b))
      BY <2>2, <2>3
    <3>4. Subsequence(a \o y, g)
      BY <3>2, <3>3, JoinCut
    <3>5. Sent(c)' = a \o y
      BY <1>1, <2>1, <2>3
    <3>6. QED
      BY <3>4, <3>5
  <2>5. QED
    BY <1>5, <2>4
<1>6. QED
  BY <1>0, <1>2, <1>3, <1>4, <1>5, DropsOwn

-----------------------------------------------------------------------------
(* Where the reflector is: in its read of the source, or in its write to   *)
(* the sink before the one it comes to next.                               *)
Filling(t) ==
  /\ f[t].pc \in WritePcs => f[t].ch \in Fills(f[t].op)
  /\ f[t].op.op = "reflect" =>
       /\ f[t].pc \in {"reflect", "b_next"} \cup ReadPcs \cup WritePcs
       /\ f[t].pc # "reflect" => f[t].ret = "b_next"
       /\ f[t].pc \in ReadPcs => f[t].idx = 1
       /\ f[t].pc \in WritePcs => /\ f[t].idx - 1 \in 1..Len(f[t].op.ports)
                                 /\ f[t].ch = f[t].op.ports[f[t].idx - 1]

(* A one-item channel is read again when its get() returns.                *)
Rereads(t) == f[t].op.op = "reflect" /\ f[t].pc = "r_again" /\ OneItem(Class(f[t].ch)) =>
                w.ch[f[t].ch].data = f[t].val

RelayMove(t) ==
  \/ /\ f[t].pc \in {"reflect", "b_next"} /\ (f[t].pc = "b_next" => AtEnd(t))
     /\ NewFrame(t, "r_writer", f[t].op.ch, f[t].op, 1, "b_next")
  \/ /\ f[t].pc = "b_next" /\ ~AtEnd(t)
     /\ NewFrame(t, "w_notify", Sink(t), f[t].op, f[t].idx + 1, f[t].ret)
  \/ /\ f[t].pc \in ReadPcs \cup WritePcs
     /\ \E p : /\ Edge(f[t], p) /\ p # "idle"
               /\ NewFrame(t, p, f[t].ch, f[t].op, f[t].idx, f[t].ret)

LEMMA Relays ==
  ASSUME NEW S, Inv(S), NEW t \in Users, Run(t), FoundBy(t), Filling(t), f[t].op.op = "reflect"
  PROVE  RelayMove(t)
<1>1. /\ f[t].pc \in {"reflect", "b_next"} \cup ReadPcs \cup WritePcs
      /\ f[t].pc # "reflect" => f[t].ret = "b_next"
  BY DEF Filling
<1>2. f[t].pc \notin {"idle", "delay", "a_get"} \cup AltPcs
  BY <1>1 DEF ReadPcs, WritePcs, AltPcs, PortPcs
<1>3. Ways(t)
  BY RunWays
<1>4. CASE f[t].pc \in {"reflect", "b_next"}
  <2>1. Reflect(t)
    BY <1>4 DEF Run, Start, End, DelayCall, Sleep, Sleeps, WriteNotify, WriteFull, WriteStore, WriteHeld,
       ReadWriter, ReadReady, ReadWoken, ReadTake, ReadReturn, Clear, ToGet, ResGet, ResClear,
       AltLock, AltScan, AltRegister, AltClear, AltGet, AltUnlock, At
  <2>2. f[t].pc = "b_next" /\ ~AtEnd(t) => f'[t].pc = "w_notify"
    BY <2>1 DEF Reflect, Inv, Typed, Frame
  <2>3. CASE NewFrame(t, "r_writer", f[t].op.ch, f[t].op, 1, "b_next")
    BY <1>4, <2>2, <2>3 DEF NewFrame, RelayMove
  <2>4. QED
    BY <2>1, <2>3, ReflectMoves DEF RelayMove
<1>5. CASE f[t].pc \in ReadPcs \cup WritePcs
  <2>1. ~End(t) /\ ~AltGet(t) /\ \A o : ~Start(t, o)
    BY <1>2 DEF End, AltGet, Start, At, AltPcs, PortPcs
  <2>2. f[t].pc \notin {"a_lock", "a_relock", "a_scan", "a_register", "a_clear", "reflect", "b_next"}
    BY <1>5 DEF ReadPcs, WritePcs
  <2>3. ~(ReadTake(t) /\ f' = f)
    <3>1. SUFFICES ASSUME ReadTake(t), f' = f PROVE FALSE
      OBVIOUS
    <3>2. f[t].pc = "r_take" /\ w.ch[f[t].ch].store # <<>>
      BY <3>1 DEF ReadTake, At, FoundBy
    <3>3. f'[t].pc = "r_again"
      BY <3>1, <3>2 DEF ReadTake, IsEmpty, Inv, Typed, Frame
    <3>4. QED
      BY <3>1, <3>2, <3>3
  <2>4. PICK p : Edge(f[t], p) /\ Went(t, p)
    BY <1>3, <2>1, <2>2, <2>3 DEF Ways
  <2>5. p # "idle"
    BY <1>1, <1>5, <2>4 DEF Edge, ReadPcs, WritePcs
  <2>6. QED
    BY <1>5, <2>4, <2>5 DEF Went, RelayMove
<1>6. QED
  BY <1>1, <1>4, <1>5

(* The value the reflector holds.                                          *)
LEMMA GotoVal ==
  ASSUME NEW S, Inv(S), NEW t \in Users, NEW p, Goto(t, p), f'[t].pc # "idle"
  PROVE  f'[t].val = f[t].val
<1>1. PICK k \in Frame(S) : k = f[t]
  BY DEF Inv, Typed
<1>2. f \in [Users -> Frame(S)]
  BY DEF Inv, Typed
<1>3. f'[t] = IF p = "idle" THEN Rest ELSE [k EXCEPT !.pc = p]
  BY <1>1, <1>2 DEF Goto
<1>4. p # "idle"
  BY <1>3 DEF Rest
<1>5. QED
  BY <1>1, <1>3, <1>4 DEF Frame

LEMMA TakeVal ==
  ASSUME NEW S, Inv(S), NEW t \in Users, ReadTake(t), FoundBy(t), f[t].op.op = "reflect"
  PROVE  /\ got'[f[t].ch] = Append(got[f[t].ch], f'[t].val) /\ f'[t].val \in Value
         /\ f[t].ch \in Chans /\ w'.ch[f[t].ch].data = w.ch[f[t].ch].data
         /\ OneItem(Class(f[t].ch)) => f'[t].val = w.ch[f[t].ch].data
<1>1. f[t].pc = "r_take" /\ w.ch[f[t].ch].store # <<>> /\ f[t].ch \in Chans
  BY ReadTakeFacts DEF ReadTake, At, FoundBy
<1>2. PICK c \in Chans : c = f[t].ch
  BY <1>1
<1>3. PICK k \in Frame(S) : k = f[t]
  BY DEF Inv, Typed
<1> DEFINE v == IF OneItem(Class(c)) THEN w.ch[c].data ELSE Head(w.ch[c].store).v
<1>4. f' = [f EXCEPT ![t].pc = "r_again", ![t].val = v] /\ got' = [got EXCEPT ![c] = Append(@, v)]
  BY <1>1, <1>2 DEF ReadTake, IsEmpty, Consumes
<1>5. v \in Value
  <2>1. w.ch[c].data \in Value /\ w.ch[c].store \in Seq(Item(S)) /\ w.ch[c].store # <<>>
    BY <1>1, <1>2 DEF Inv, Typed, World, Channel
  <2>2. PICK q \in Seq(Item(S)) : q = w.ch[c].store /\ q # <<>>
    BY <2>1
  <2>3. Head(q) \in Item(S)
    BY <2>2
  <2>4. QED
    BY <2>1, <2>2, <2>3 DEF Item
<1> HIDE DEF v
<1>6. f'[t].val = v
  BY <1>3, <1>4 DEF Inv, Typed, Frame
<1>7. got'[c] = Append(got[c], v)
  BY <1>4 DEF Inv, Typed
<1>8. w'.ch[c].data = w.ch[c].data
  <2>1. CASE w' = w
    BY <2>1
  <2>2. CASE Took(w, w', c, got, got')
    BY <2>2 DEF Took, StoreIs
  <2>3. CASE w.ch[c].store = <<>>
    BY <1>1, <1>2, <2>3
  <2>4. QED
    BY <1>2, <2>1, <2>2, <2>3, ReadTakeFacts
<1>9. QED
  BY <1>2, <1>5, <1>6, <1>7, <1>8 DEF v

LEMMA RelayVal ==
  ASSUME NEW S, Inv(S), NEW t \in Users, Run(t), FoundBy(t), Filling(t), Rereads(t),
         f[t].op.op = "reflect", f[t].pc # "r_take"
  PROVE  f'[t].val = f[t].val
<1>1. RelayMove(t)
  BY Relays
<1>2. f'[t].pc # "idle"
  BY <1>1 DEF RelayMove, NewFrame
<1>3. f[t].pc \in {"reflect", "b_next"} \cup ReadPcs \cup WritePcs /\ (f[t].pc = "r_again" => f[t].ret = "b_next")
  BY DEF Filling
<1>4. CASE f[t].pc \in {"reflect", "b_next"}
  <2>1. Reflect(t)
    BY <1>4 DEF Run, Start, End, DelayCall, Sleep, Sleeps, WriteNotify, WriteFull, WriteStore, WriteHeld,
       ReadWriter, ReadReady, ReadWoken, ReadTake, ReadReturn, Clear, ToGet, ResGet, ResClear,
       AltLock, AltScan, AltRegister, AltClear, AltGet, AltUnlock, At
  <2>2. QED
    BY <2>1 DEF Reflect, Inv, Typed, Frame
<1>5. CASE f[t].pc = "r_again"
  <2>1. ReadReturn(t)
    BY <1>5 DEF Run, Start, End, DelayCall, Sleep, Sleeps, WriteNotify, WriteFull, WriteStore, WriteHeld,
       ReadWriter, ReadReady, ReadWoken, ReadTake, Clear, ToGet, ResGet, ResClear,
       AltLock, AltScan, AltRegister, AltClear, AltGet, AltUnlock, Reflect, At, ResOps
  <2>2. CASE Goto(t, f[t].ret)
    BY <1>2, <2>2, GotoVal
  <2>3. CASE /\ OneItem(Class(f[t].ch))
             /\ f' = [f EXCEPT ![t].pc = f[t].ret, ![t].val = w.ch[f[t].ch].data]
    BY <1>5, <2>3 DEF Inv, Typed, Frame, Rereads
  <2>4. QED
    BY <2>1, <2>2, <2>3 DEF ReadReturn
<1>6. CASE f[t].pc \in (ReadPcs \cup WritePcs) \ {"r_take", "r_again"}
  <2>1. \/ Sleep(t) \/ WriteNotify(t) \/ WriteFull(t) \/ WriteStore(t) \/ WriteHeld(t)
        \/ ReadWriter(t) \/ ReadReady(t) \/ ReadWoken(t)
    BY <1>6 DEF Run, Start, End, DelayCall,
       ReadTake, ReadReturn, Clear, ToGet, ResGet, ResClear,
       AltLock, AltScan, AltRegister, AltClear, AltGet, AltUnlock, Reflect, At, ReadPcs, WritePcs, ResOps
  <2>2. \E p : Goto(t, p)
    BY <2>1 DEF Sleep, WriteNotify, WriteFull, WriteStore, WriteHeld, ReadWriter, ReadReady, ReadWoken
  <2>3. QED
    BY <1>2, <2>2, GotoVal
<1>7. QED
  BY <1>3, <1>4, <1>5, <1>6

(* The first sink that has not been sent the last item, if there is one.   *)
Due(t, o) == IF f[t].op # o \/ f[t].pc = "reflect" \/ f[t].pc \in ReadPcs \ {"r_again"}
             THEN Len(o.ports) + 1
             ELSE IF f[t].pc \in {"w_notify", "w_full", "w_sleep", "w_store"} THEN f[t].idx - 1
             ELSE f[t].idx

(* The steps of the reflector as far as o is concerned.                    *)
DueMove(t, o) ==
  \/ Due(t, o)' = Due(t, o) /\ f[t].pc \notin {"r_take", "w_store"}
  \/ /\ f[t].op = o /\ f[t].pc = "r_take" /\ Due(t, o) = Len(o.ports) + 1 /\ Due(t, o)' = 1
  \/ /\ f[t].op = o /\ f[t].pc = "w_store" /\ Due(t, o)' = Due(t, o) + 1
     /\ Due(t, o) \in 1..Len(o.ports) /\ f[t].ch = o.ports[Due(t, o)]
  \/ /\ Due(t, o) > Len(o.ports) /\ Due(t, o)' = Len(o.ports) + 1
     /\ f[t].op = o => f[t].pc \notin {"r_take", "w_store"}

LEMMA DueStep ==
  ASSUME NEW S, Inv(S), NEW t \in Users, Run(t), FoundBy(t), Filling(t),
         NEW o \in prog.menu[t], o.op = "reflect"
  PROVE  DueMove(t, o)
<1>1. o \in Calls /\ Len(o.ports) \in Nat /\ f[t].idx \in Nat
  <2>1. o \in Calls /\ f[t].idx \in Nat
    BY ChannelsAssumption DEF Inv, Typed, Frame
  <2>2. o.ports \in Seq(Ports)
    BY <2>1 DEF Calls
  <2>3. QED
    BY <2>1, <2>2
<1>2. CASE f[t].op # o
  <2>1. Due(t, o) = Len(o.ports) + 1
    BY <1>2 DEF Due
  <2>2. f'[t].op # o \/ f'[t].pc = "reflect"
    <3>1. Ways(t) /\ NoOp.op # "reflect"
      BY RunWays DEF NoOp
    <3>2. ASSUME NEW q, NewFrame(t, Entry(q), q.ch, q, 1, "idle") PROVE f'[t].op # o \/ f'[t].pc = "reflect"
      BY <3>2 DEF NewFrame, Entry
    <3>3. ASSUME NEW p, Went(t, p) PROVE f'[t].op # o
      BY <1>2, <3>1, <3>3 DEF Went, NewFrame
    <3>4. ASSUME NEW p, NEW c, NEW i, NEW r, NewFrame(t, p, c, f[t].op, i, r) PROVE f'[t].op # o
      BY <1>2, <3>4 DEF NewFrame
    <3>5. CASE f' = f
      BY <1>2, <3>5
    <3>6. QED
      BY <3>1, <3>2, <3>3, <3>4, <3>5 DEF Ways
  <2>3. Due(t, o)' = Len(o.ports) + 1
    BY <2>2 DEF Due
  <2>4. QED
    BY <1>1, <1>2, <2>1, <2>3 DEF DueMove
<1>3. CASE f[t].op = o
  <2>1. RelayMove(t)
    BY <1>3, Relays
  <2>2. CASE /\ f[t].pc \in {"reflect", "b_next"} /\ (f[t].pc = "b_next" => AtEnd(t))
             /\ NewFrame(t, "r_writer", f[t].op.ch, f[t].op, 1, "b_next")
    <3>1. Due(t, o)' = Len(o.ports) + 1
      BY <1>3, <2>2 DEF NewFrame, Due, ReadPcs
    <3>2. f[t].pc = "b_next" => f[t].idx > Len(o.ports)
      BY <1>3, <2>2 DEF AtEnd, AltPorts
    <3>3. Due(t, o) > Len(o.ports)
      BY <1>1, <1>3, <2>2, <3>2 DEF Due, ReadPcs
    <3>4. QED
      BY <1>1, <2>2, <3>1, <3>3 DEF DueMove
  <2>3. CASE /\ f[t].pc = "b_next" /\ ~AtEnd(t)
             /\ NewFrame(t, "w_notify", Sink(t), f[t].op, f[t].idx + 1, f[t].ret)
    <3>1. Due(t, o) = f[t].idx
      BY <1>3, <2>3 DEF Due, ReadPcs
    <3>2. f'[t].pc = "w_notify" /\ f'[t].op = o /\ f'[t].idx = f[t].idx + 1
      BY <1>3, <2>3 DEF NewFrame
    <3>3. Due(t, o)' = f'[t].idx - 1
      BY <3>2 DEF Due, ReadPcs
    <3>4. QED
      BY <1>1, <2>3, <3>1, <3>2, <3>3 DEF DueMove
  <2>4. ASSUME NEW p, f[t].pc \in ReadPcs \cup WritePcs, Edge(f[t], p), p # "idle",
               NewFrame(t, p, f[t].ch, f[t].op, f[t].idx, f[t].ret)
        PROVE  DueMove(t, o)
    <3>1. f'[t].pc = p /\ f'[t].op = o /\ f'[t].idx = f[t].idx
      BY <1>3, <2>4 DEF NewFrame
    <3>2. /\ f[t].ret = "b_next" /\ (f[t].pc \in ReadPcs => f[t].idx = 1)
          /\ f[t].pc \in WritePcs => f[t].idx - 1 \in 1..Len(o.ports) /\ f[t].ch = o.ports[f[t].idx - 1]
      BY <1>3, <2>4 DEF Filling, ReadPcs, WritePcs
    <3>3. CASE f[t].pc = "r_take"
      <4>1. p = "r_again"
        BY <2>4, <3>3 DEF Edge
      <4>2. Due(t, o) = Len(o.ports) + 1 /\ Due(t, o)' = 1
        BY <1>3, <3>1, <3>2, <3>3, <4>1 DEF Due, ReadPcs
      <4>3. QED
        BY <1>3, <3>3, <4>2 DEF DueMove
    <3>4. CASE f[t].pc = "w_store"
      <4>1. p = "w_again"
        BY <2>4, <3>4 DEF Edge
      <4>2. Due(t, o) = f[t].idx - 1 /\ Due(t, o)' = f[t].idx
        BY <1>3, <3>1, <3>4, <4>1 DEF Due, ReadPcs
      <4>3. f[t].idx - 1 \in 1..Len(o.ports) /\ f[t].ch = o.ports[f[t].idx - 1]
        BY <3>2, <3>4 DEF WritePcs
      <4>4. QED
        BY <1>1, <1>3, <3>4, <4>2, <4>3 DEF DueMove
    <3>5. CASE f[t].pc \in ReadPcs \ {"r_take", "r_again"}
      <4>1. p \in ReadPcs \ {"r_again"}
        BY <2>4, <3>5 DEF Edge, ReadPcs
      <4>2. Due(t, o) = Len(o.ports) + 1 /\ Due(t, o)' = Len(o.ports) + 1
        BY <1>3, <3>1, <3>5, <4>1 DEF Due
      <4>3. QED
        BY <3>5, <4>2 DEF DueMove, ReadPcs
    <3>6. CASE f[t].pc \in {"r_again", "w_again", "w_held", "held_sleep"}
      <4>1. p \in {"b_next", "w_held", "held_sleep"}
        BY <2>4, <3>2, <3>6 DEF Edge
      <4>2. Due(t, o) = f[t].idx /\ Due(t, o)' = f[t].idx
        BY <1>3, <3>1, <3>6, <4>1 DEF Due, ReadPcs
      <4>3. QED
        BY <3>6, <4>2 DEF DueMove
    <3>7. CASE f[t].pc \in {"w_notify", "w_full", "w_sleep"}
      <4>1. p \in {"w_full", "w_sleep", "w_store"}
        BY <2>4, <3>7 DEF Edge
      <4>2. Due(t, o) = f[t].idx - 1 /\ Due(t, o)' = f[t].idx - 1
        BY <1>3, <3>1, <3>7, <4>1 DEF Due, ReadPcs
      <4>3. QED
        BY <3>7, <4>2 DEF DueMove
    <3>8. QED
      BY <2>4, <3>3, <3>4, <3>5, <3>6, <3>7 DEF ReadPcs, WritePcs
  <2>5. QED
    BY <2>1, <2>2, <2>3, <2>4 DEF RelayMove
<1>4. QED
  BY <1>2, <1>3

LEMMA FillingStep ==
  ASSUME NEW S, Inv(S), NEW t \in Users, Run(t), FoundBy(t), Filling(t)
  PROVE  Filling(t)'
<1>0. FrameFits(f[t]) /\ f[t].idx \in Nat /\ f[t].ret \in {"idle", "a_unlock", "b_next"}
  BY DEF Inv, Typed, Frame
<1>1. CASE f[t].op.op = "reflect"
  <2>1. RelayMove(t)
    BY <1>1, Relays
  <2>2. CASE NewFrame(t, "r_writer", f[t].op.ch, f[t].op, 1, "b_next")
    BY <2>2 DEF NewFrame, Filling, ReadPcs, WritePcs
  <2>3. CASE /\ f[t].pc = "b_next" /\ ~AtEnd(t)
             /\ NewFrame(t, "w_notify", Sink(t), f[t].op, f[t].idx + 1, f[t].ret)
    <3>1. f[t].op \in Calls /\ f[t].idx # 0 /\ f[t].ret = "b_next" /\ AltPorts(t) = f[t].op.ports
      BY <1>0, <1>1, <2>3 DEF FrameFits, Filling, AltPorts
    <3>2. PICK q \in Seq(Ports) : q = f[t].op.ports
      BY <3>1 DEF Calls
    <3>3. f[t].idx \in 1..Len(q)
      BY <1>0, <2>3, <3>1, <3>2 DEF AtEnd
    <3>4. Sink(t) \in ToSet(q) /\ Sink(t) = q[f[t].idx]
      BY <3>2, <3>3 DEF Sink, ToSet
    <3>5. /\ f'[t].pc = "w_notify" /\ f'[t].ch = Sink(t) /\ f'[t].op = f[t].op
          /\ f'[t].idx = f[t].idx + 1 /\ f'[t].ret = "b_next"
      BY <2>3, <3>1 DEF NewFrame
    <3>6. f'[t].idx - 1 = f[t].idx
      BY <1>0, <3>5
    <3>7. f'[t].ch \in Fills(f'[t].op)
      BY <1>1, <3>2, <3>4, <3>5 DEF Fills
    <3>8. QED
      BY <3>2, <3>3, <3>4, <3>5, <3>6, <3>7 DEF Filling, ReadPcs, WritePcs
  <2>4. ASSUME NEW p, f[t].pc \in ReadPcs \cup WritePcs, Edge(f[t], p),
               NewFrame(t, p, f[t].ch, f[t].op, f[t].idx, f[t].ret)
        PROVE  Filling(t)'
    <3>1. /\ f'[t].pc = p /\ f'[t].op = f[t].op /\ f'[t].idx = f[t].idx /\ f'[t].ch = f[t].ch
          /\ f'[t].ret = f[t].ret
      BY <2>4 DEF NewFrame
    <3>2. f[t].ret = "b_next"
      BY <1>1, <2>4 DEF Filling, ReadPcs, WritePcs
    <3>3. \/ p \in WritePcs /\ f[t].pc \in WritePcs /\ p \notin ReadPcs
          \/ p \in ReadPcs /\ f[t].pc \in ReadPcs /\ p \notin WritePcs
          \/ p = "b_next" /\ p \notin ReadPcs \cup WritePcs
      BY <2>4, <3>2 DEF Edge, ReadPcs, WritePcs
    <3>4. QED
      BY <1>1, <3>1, <3>2, <3>3 DEF Filling
  <2>5. QED
    BY <2>1, <2>2, <2>3, <2>4 DEF RelayMove
<1>2. CASE f[t].op.op # "reflect"
  <2>1. Ways(t) /\ NoOp.op # "reflect"
    BY RunWays DEF NoOp
  <2>2. ASSUME NEW p, Edge(f[t], p), Went(t, p) PROVE Filling(t)'
    <3>1. f'[t].pc = p /\ f'[t].op.op # "reflect"
      BY <1>2, <2>1, <2>2 DEF Went, NewFrame
    <3>2. p \in WritePcs => f[t].pc \in WritePcs /\ f'[t].op = f[t].op /\ f'[t].ch = f[t].ch
      BY <1>0, <2>2 DEF Edge, WritePcs, Went, NewFrame
    <3>3. QED
      BY <3>1, <3>2 DEF Filling
  <2>3. ASSUME NEW o \in prog.menu[t], NewFrame(t, Entry(o), o.ch, o, 1, "idle") PROVE Filling(t)'
    <3>1. o \in Calls
      BY ChannelsAssumption DEF Inv, Typed
    <3>2. o.op \in ChanOps \cup ResOps \cup AltOps \cup {"to_get", "delay"}
      BY <3>1 DEF Calls
    <3>3. f'[t].pc = Entry(o) /\ f'[t].ch = o.ch /\ f'[t].op = o
      BY <2>3 DEF NewFrame
    <3>4. CASE o.op = "write"
      BY <3>3, <3>4 DEF Filling, Fills
    <3>5. CASE o.op = "reflect"
      BY <3>3, <3>5 DEF Filling, Entry, WritePcs, ReadPcs
    <3>6. CASE o.op \notin {"write", "reflect"}
      <4>1. Entry(o) \notin WritePcs
        BY <3>2, <3>6 DEF Entry, WritePcs, ChanOps, ResOps, AltOps
      <4>2. QED
        BY <3>3, <3>6, <4>1 DEF Filling
    <3>7. QED
      BY <3>4, <3>5, <3>6
  <2>4. ASSUME NEW p, NEW c, NEW i, NEW r, NewFrame(t, p, c, f[t].op, i, r), p \notin WritePcs
        PROVE  Filling(t)'
    BY <1>2, <2>4 DEF NewFrame, Filling
  <2>5. f[t].pc \notin {"reflect", "b_next"}
    BY <1>0, <1>2 DEF FrameFits
  <2>6. CASE f' = f
    BY <2>6 DEF Filling
  <2>7. /\ "a_scan" \notin WritePcs /\ "a_clear" \notin WritePcs /\ "a_unlock" \notin WritePcs
        /\ "a_register" \notin WritePcs /\ "r_writer" \notin WritePcs /\ "to_get" \notin WritePcs
        /\ "res_get" \notin WritePcs
    BY DEF WritePcs
  <2>8. QED
    BY <2>1, <2>2, <2>3, <2>4, <2>5, <2>6, <2>7 DEF Ways
<1>3. QED
  BY <1>1, <1>2

LEMMA RereadsStep ==
  ASSUME NEW S, Inv(S), NEW t \in Users, Run(t), FoundBy(t), Filling(t)
  PROVE  Rereads(t)'
<1>1. SUFFICES ASSUME f'[t].op.op = "reflect", f'[t].pc = "r_again", OneItem(prog'.class[f'[t].ch])
               PROVE  w'.ch[f'[t].ch].data = f'[t].val
  BY DEF Rereads, Class
<1>2. Ways(t) /\ NoOp.op # "reflect" /\ prog' = prog
  BY RunWays, RunRest DEF NoOp
<1>3. f[t].pc = "r_take" /\ f[t].op.op = "reflect" /\ f'[t].ch = f[t].ch
  <2>1. ASSUME NEW p, NEW c, NEW o, NEW i, NEW r, NewFrame(t, p, c, o, i, r), p # "r_again" PROVE FALSE
    BY <1>1, <2>1 DEF NewFrame
  <2>2. ASSUME NEW o \in prog.menu[t] PROVE Entry(o) # "r_again"
    <3>1. o \in Calls
      BY ChannelsAssumption DEF Inv, Typed
    <3>2. o.op \in ChanOps \cup ResOps \cup AltOps \cup {"to_get", "delay"}
      BY <3>1 DEF Calls
    <3>3. QED
      BY <3>2 DEF Entry, ChanOps, ResOps, AltOps
  <2>3. ASSUME NEW p, Edge(f[t], p), Went(t, p)
        PROVE  f[t].pc = "r_take" /\ f[t].op.op = "reflect" /\ f'[t].ch = f[t].ch
    <3>1. p = "r_again" /\ f'[t].op = f[t].op /\ f'[t].ch = f[t].ch
      BY <1>1, <2>3 DEF Went, NewFrame
    <3>2. f[t].ret \in {"idle", "a_unlock", "b_next"}
      BY DEF Inv, Typed, Frame
    <3>3. QED
      BY <1>1, <2>3, <3>1, <3>2 DEF Edge
  <2>4. ASSUME End(t) \/ ReadTake(t), f' = f PROVE FALSE
    BY <1>1, <2>4 DEF End, ReadTake, At
  <2>5. QED
    BY <1>2, <2>1, <2>2, <2>3, <2>4 DEF Ways
<1>4. ReadTake(t)
  BY <1>3 DEF Run, Start, End, DelayCall, Sleep, Sleeps, WriteNotify, WriteFull, WriteStore, WriteHeld,
       ReadWriter, ReadReady, ReadWoken, ReadReturn, Clear, ToGet, ResGet, ResClear,
       AltLock, AltScan, AltRegister, AltClear, AltGet, AltUnlock, Reflect, At, ResOps
<1>5. QED
  BY <1>1, <1>2, <1>3, <1>4, TakeVal DEF Class

-----------------------------------------------------------------------------
(* Sink i of the call o of t has been sent what was taken from the source, *)
(* or all but the last item, which the reflector holds.                    *)
Lacks(b, s, g, v) == \E h \in Seq(Value) : g = Append(h, v) /\ Fits(b, s, h)
Level(t, o, i) == IF i < Due(t, o) THEN Fits(o.bind, Sent(o.ports[i]), got[o.ch])
                  ELSE Lacks(o.bind, Sent(o.ports[i]), got[o.ch], f[t].val)
Levels == \A t \in Users : \A o \in prog.menu[t] :
            o.op = "reflect" => \A i \in 1..Len(o.ports) : Level(t, o, i)
Relaying == Levels /\ \A t \in Users : Filling(t) /\ Rereads(t)

LEMMA SinkTypes ==
  ASSUME NEW S, Inv(S), NEW t \in Users, NEW o \in prog.menu[t], o.op = "reflect",
         NEW i \in 1..Len(o.ports)
  PROVE  /\ o.ports[i] \in Chans /\ o.ports[i] \in ToSet(o.ports) /\ o.ch \in Chans
         /\ o.bind \in BOOLEAN /\ Len(o.ports) \in Nat /\ DOMAIN o.ports = 1..Len(o.ports)
<1>1. o \in Calls
  BY ChannelsAssumption DEF Inv, Typed
<1>2. PICK q \in Seq(Chans) : q = o.ports
  BY <1>1 DEF Calls
<1>3. q[i] \in Chans /\ q[i] \in ToSet(q) /\ Len(q) \in Nat /\ DOMAIN q = 1..Len(q)
  BY <1>2 DEF ToSet
<1>4. QED
  BY <1>1, <1>2, <1>3 DEF Calls, ChanOps

(* A sink that is left alone, or is thinned and may be.                    *)
Spared(b, c) == Sent(c)' = Sent(c) \/ (b /\ Thinned(c))
LEMMA FitsKept ==
  ASSUME NEW b \in BOOLEAN, NEW c \in Chans, Spared(b, c), NEW g \in Seq(Value)
  PROVE  /\ Fits(b, Sent(c), g) => Fits(b, Sent(c)', g)
         /\ \A v : Lacks(b, Sent(c), g, v) => Lacks(b, Sent(c)', g, v)
<1>1. ASSUME NEW h \in Seq(Value), Fits(b, Sent(c), h) PROVE Fits(b, Sent(c)', h)
  BY <1>1 DEF Spared, Thinned, Fits
<1>2. QED
  BY <1>1 DEF Lacks

LEMMA FitsSent ==
  ASSUME NEW b \in BOOLEAN, NEW s \in Seq(Value), NEW g \in Seq(Value), NEW v \in Value
  PROVE  /\ Fits(b, s, g) => Lacks(b, s, Append(g, v), v)
         /\ Lacks(b, s, g, v) => Fits(b, Append(s, v), g)
<1>1. Fits(b, s, g) => Lacks(b, s, Append(g, v), v)
  BY DEF Lacks
<1>2. ASSUME NEW h \in Seq(Value), g = Append(h, v), Fits(b, s, h) PROVE Fits(b, Append(s, v), g)
  BY <1>2, SubAppend DEF Fits
<1>3. QED
  BY <1>1, <1>2 DEF Lacks

(* What the step of thread u does to sink i and to the source of o, a call *)
(* of t.                                                                   *)
LEMMA SinkStep ==
  ASSUME NEW S, Inv(S), Sound, OwnSinks(prog), NEW u \in Users, Run(u), Filling(u),
         NEW t \in Users, NEW o \in prog.menu[t], o.op = "reflect", NEW i \in 1..Len(o.ports)
  PROVE  /\ \/ Spared(o.bind, o.ports[i])
            \/ u = t /\ f[t].op = o /\ f[t].pc = "w_store" /\ f[t].ch = o.ports[i]
         /\ got'[o.ch] = got[o.ch] \/ (u = t /\ f[t].op = o /\ f[t].pc = "r_take")
<1>0. Doing(u) /\ o.ports[i] \in Chans /\ o.ports[i] \in ToSet(o.ports) /\ o.ch \in Chans
  BY SinkTypes DEF Sound, Does
<1>1. PICK c \in Chans : c = o.ports[i] /\ c \in ToSet(o.ports)
  BY <1>0
<1>4. \/ Spared(o.bind, c)
      \/ u = t /\ f[t].op = o /\ f[t].pc = "w_store" /\ f[t].ch = c
  <2>1. CASE Sent(c)' = Sent(c)
    BY <2>1 DEF Spared
  <2>2. CASE f[u].pc = "w_store" /\ f[u].ch = c
    <3>1. f[u].op \in prog.menu[u] /\ c \in Fills(f[u].op)
      BY <1>0, <2>2 DEF Doing, Filling, WritePcs
    <3>2. u = t /\ f[u].op = o
      BY <1>1, <3>1 DEF OwnSinks
    <3>3. QED
      BY <2>2, <3>2
  <2>3. CASE f[u].op \in prog.menu[u] /\ c \in Empties(f[u].op) /\ Thinned(c)
    <3>1. o.bind
      BY <1>1, <2>3 DEF OwnSinks
    <3>2. QED
      BY <2>3, <3>1 DEF Spared
  <2>4. QED
    BY <2>1, <2>2, <2>3, SentStep
<1>5. ASSUME got'[o.ch] # got[o.ch] PROVE u = t /\ f[t].op = o /\ f[t].pc = "r_take"
  <2>1. Takes(u, o.ch)
    BY <1>0, <1>5, RunItems DEF Kept, Stores, Drops
  <2>2. f[u].pc = "r_take" /\ f[u].ch = o.ch
    BY <2>1 DEF Takes
  <2>3. f[u].op \in prog.menu[u] /\ o.ch \in ReadsFrom(f[u].op)
    BY <1>0, <2>2 DEF Doing, ReadPcs
  <2>4. u = t /\ f[u].op = o
    BY <2>3 DEF OwnSinks
  <2>5. QED
    BY <2>2, <2>4
<1>6. QED
  BY <1>1, <1>4, <1>5

LEMMA LevelRun ==
  ASSUME NEW S, Inv(S), Sound, OwnSinks(prog), Relaying, NEW u \in Users, Run(u),
         NEW t \in Users, NEW o \in prog.menu[t], o.op = "reflect", NEW i \in 1..Len(o.ports)
  PROVE  Level(t, o, i)'
<1>0. /\ Filling(u) /\ FoundBy(u) /\ Rereads(u) /\ Level(t, o, i) /\ Doing(u) /\ Fifo
      /\ f[t].val \in Value /\ f[t].idx \in Nat
  BY DEF Relaying, Levels, Sound, Found, Does, Inv, Typed, Frame
<1>1. /\ o.ports[i] \in Chans /\ o.ch \in Chans /\ o.bind \in BOOLEAN /\ Len(o.ports) \in Nat
      /\ DOMAIN o.ports = 1..Len(o.ports)
  BY SinkTypes
<1>2. PICK c \in Chans, b \in BOOLEAN, d \in Chans : c = o.ports[i] /\ b = o.bind /\ d = o.ch
  BY <1>1
<1>3. got[d] \in Seq(Value) /\ Sent(c) \in Seq(Value)
  BY SentTypes
<1>4. Due(t, o) \in Int
  BY <1>0, <1>1 DEF Due
<1>5. Level(t, o, i)' = IF i < Due(t, o)' THEN Fits(b, Sent(c)', got'[d])
                        ELSE Lacks(b, Sent(c)', got'[d], f'[t].val)
  BY <1>2 DEF Level
<1>6. Level(t, o, i) = IF i < Due(t, o) THEN Fits(b, Sent(c), got[d])
                       ELSE Lacks(b, Sent(c), got[d], f[t].val)
  BY <1>2 DEF Level
<1>7. /\ \/ Spared(b, c)
         \/ u = t /\ f[t].op = o /\ f[t].pc = "w_store" /\ f[t].ch = c
      /\ got'[d] = got[d] \/ (u = t /\ f[t].op = o /\ f[t].pc = "r_take")
  BY <1>0, <1>2, SinkStep
<1>12. i < Len(o.ports) + 1 /\ ~(i < 1)
  BY <1>1
(* A step with no item taken or stored.                                    *)
<1>8. ASSUME Spared(b, c), got'[d] = got[d], i < Due(t, o) <=> i < Due(t, o)',
             ~(i < Due(t, o)) => f'[t].val = f[t].val
      PROVE  Level(t, o, i)'
  BY <1>0, <1>3, <1>5, <1>6, <1>8, FitsKept
<1>9. CASE u # t
  <2>1. f'[t] = f[t]
    BY <1>9, RunMoves DEF Moves
  <2>2. Due(t, o)' = Due(t, o)
    BY <2>1 DEF Due
  <2>3. QED
    BY <1>7, <1>8, <1>9, <2>1, <2>2
<1>10. CASE u = t
  <2>0. Run(t) /\ Filling(t) /\ FoundBy(t) /\ Rereads(t) /\ Doing(t)
    BY <1>0, <1>10
  <2>1. DueMove(t, o)
    BY <2>0, DueStep
  <2>2. CASE f[t].op # o
    <3>1. Due(t, o) = Len(o.ports) + 1 /\ Due(t, o)' = Len(o.ports) + 1
      <4>1. Due(t, o) = Len(o.ports) + 1
        BY <2>2 DEF Due
      <4>2. QED
        BY <2>1, <2>2, <4>1 DEF DueMove
    <3>2. Spared(b, c) /\ got'[d] = got[d]
      BY <1>7, <2>2
    <3>3. i < Due(t, o) /\ i < Due(t, o)'
      BY <1>12, <3>1
    <3>4. QED
      BY <1>8, <3>2, <3>3
  <2>3. CASE f[t].op = o /\ f[t].pc = "r_take"
    <3>1. Due(t, o) = Len(o.ports) + 1 /\ Due(t, o)' = 1
      BY <1>1, <2>1, <2>3 DEF DueMove
    <3>2. ReadTake(t)
      BY <2>0, <2>3 DEF Run, Start, End, DelayCall, Sleep, Sleeps, WriteNotify, WriteFull, WriteStore, WriteHeld,
       ReadWriter, ReadReady, ReadWoken, ReadReturn, Clear, ToGet, ResGet, ResClear,
       AltLock, AltScan, AltRegister, AltClear, AltGet, AltUnlock, Reflect, At, ResOps
    <3>3. f[t].ch = d
      BY <1>2, <2>0, <2>3 DEF Doing, ReadPcs, ReadsFrom
    <3>4. got'[d] = Append(got[d], f'[t].val) /\ f'[t].val \in Value
      BY <1>0, <2>0, <2>3, <3>2, <3>3, TakeVal
    <3>5. Fits(b, Sent(c), got[d]) /\ Spared(b, c)
      <4>1. i < Due(t, o)
        BY <1>12, <3>1
      <4>2. QED
        BY <1>0, <1>6, <1>7, <2>3, <4>1
    <3>6. Fits(b, Sent(c)', got[d])
      BY <1>3, <3>5, FitsKept
    <3>7. Lacks(b, Sent(c)', got'[d], f'[t].val)
      BY <1>3, <3>4, <3>6 DEF Lacks
    <3>8. QED
      BY <1>1, <1>5, <3>1, <3>7
  <2>4. CASE f[t].op = o /\ f[t].pc = "w_store"
    <3>1. /\ Due(t, o)' = Due(t, o) + 1 /\ Due(t, o) \in 1..Len(o.ports)
          /\ f[t].ch = o.ports[Due(t, o)]
      BY <1>1, <2>1, <2>4 DEF DueMove
    <3>2. f'[t].val = f[t].val /\ got'[d] = got[d]
      BY <1>7, <2>0, <2>4, RelayVal
    <3>3. CASE i = Due(t, o)
      <4>1. Lacks(b, Sent(c), got[d], f[t].val)
        <5>1. ~(i < Due(t, o))
          BY <1>1, <3>3
        <5>2. QED
          BY <1>0, <1>6, <5>1
      <4>2. WriteStore(t)
        BY <2>0, <2>4 DEF Run, Start, End, DelayCall, Sleep, Sleeps, WriteNotify, WriteFull, WriteHeld,
       ReadWriter, ReadReady, ReadWoken, ReadTake, ReadReturn, Clear, ToGet, ResGet, ResClear,
       AltLock, AltScan, AltRegister, AltClear, AltGet, AltUnlock, Reflect, At, ResOps
      <4>3. f[t].ch = c
        BY <1>2, <3>1, <3>3
      <4>4. Stores(t, c)
        BY <2>4, <4>2, <4>3, WriteStoreFacts DEF Stores, WriteStore, Keeps, Quiet
      <4>5. Sent(c)' = Append(Sent(c), f[t].val)
        BY <1>0, <4>4, SentStores
      <4>6. Fits(b, Sent(c)', got'[d])
        BY <1>0, <1>3, <3>2, <4>1, <4>5, FitsSent
      <4>7. i < Due(t, o)'
        BY <1>4, <3>1, <3>3
      <4>8. QED
        BY <1>5, <4>6, <4>7
    <3>4. CASE i # Due(t, o)
      <4>1. IsInjective(o.ports)
        BY DEF OwnSinks
      <4>2. f[t].ch # c
        BY <1>1, <1>2, <3>1, <3>4, <4>1 DEF IsInjective
      <4>3. Spared(b, c)
        BY <1>7, <4>2
      <4>4. i < Due(t, o) <=> i < Due(t, o)'
        BY <1>4, <3>1, <3>4
      <4>5. QED
        BY <1>8, <3>2, <4>3, <4>4
    <3>5. QED
      BY <3>3, <3>4
  <2>5. CASE f[t].op = o /\ f[t].pc \notin {"r_take", "w_store"}
    <3>1. f'[t].val = f[t].val
      BY <2>0, <2>5, RelayVal
    <3>2. i < Due(t, o) <=> i < Due(t, o)'
      <4>1. CASE Due(t, o)' = Due(t, o)
        BY <4>1
      <4>2. CASE Due(t, o) > Len(o.ports) /\ Due(t, o)' = Len(o.ports) + 1
        BY <1>1, <1>4, <4>2
      <4>3. QED
        BY <2>1, <2>5, <4>1, <4>2 DEF DueMove
    <3>3. QED
      BY <1>7, <1>8, <2>5, <3>1, <3>2
  <2>6. QED
    BY <2>2, <2>3, <2>4, <2>5
<1>11. QED
  BY <1>9, <1>10

LEMMA RelayingRun ==
  ASSUME NEW S, Inv(S), Sound, OwnSinks(prog), Relaying, NEW u \in Users, Run(u)
  PROVE  Relaying'
<1>1. prog' = prog /\ Moves(u) /\ cur = u
  BY RunRest, RunMoves
<1>2. Levels'
  BY <1>1, LevelRun DEF Levels
<1>3. ASSUME NEW t \in Users PROVE Filling(t)' /\ Rereads(t)'
  <2>1. CASE t = u
    BY <2>1, FillingStep, RereadsStep DEF Relaying, Sound, Found
  <2>2. CASE t # u
    <3>1. f'[t] = f[t] /\ f[t].pc # "r_again"
      BY <1>1, <2>2 DEF Moves, Sound, Fifo, Parked, RestPcs
    <3>2. QED
      BY <3>1 DEF Relaying, Filling, Rereads
  <2>3. QED
    BY <2>1, <2>2
<1>4. QED
  BY <1>2, <1>3 DEF Relaying

(* The scheduler and the helpers move no item and no user thread.          *)
LEMMA RelayingAside ==
  ASSUME NEW S, Inv(S), Sound, Relaying, Scheduler
  PROVE  Relaying' /\ prog' = prog
<1>1. f' = f /\ prog' = prog /\ (\A c \in Chans : Kept(c)) /\ \A t \in Users : f[t].pc \in RestPcs
  BY SchedulerIdle DEF Sound, Fifo
<1>2. ASSUME NEW c \in Chans PROVE Sent(c)' = Sent(c) /\ got'[c] = got[c]
  BY <1>1 DEF Kept, Sent, Values
<1>3. ASSUME NEW t \in Users, NEW o \in prog.menu[t], o.op = "reflect", NEW i \in 1..Len(o.ports)
      PROVE  Level(t, o, i)'
  <2>1. o.ports[i] \in Chans /\ o.ch \in Chans
    BY <1>3, SinkTypes
  <2>2. Due(t, o)' = Due(t, o)
    BY <1>1 DEF Due
  <2>3. PICK c \in Chans, d \in Chans : c = o.ports[i] /\ d = o.ch
    BY <2>1
  <2>4. Level(t, o, i)
    BY <1>3 DEF Relaying, Levels
  <2>5. Sent(c)' = Sent(c) /\ got'[d] = got[d]
    BY <1>2
  <2>6. Level(t, o, i)' = Level(t, o, i)
    BY <1>1, <2>2, <2>3, <2>5 DEF Level
  <2>7. QED
    BY <2>4, <2>6
<1>4. \A t \in Users : Filling(t)' /\ Rereads(t)'
  BY <1>1 DEF Relaying, Filling, Rereads, RestPcs
<1>5. QED
  BY <1>1, <1>3, <1>4 DEF Relaying, Levels

LEMMA RelayingInit == Init => Relaying
<1>1. SUFFICES ASSUME Init PROVE Relaying
  OBVIOUS
<1>2. PICK S : Inv(S)
  BY <1>1, InvInit DEF Invariant
<1>3. ASSUME NEW t \in Users PROVE f[t] = Rest
  BY <1>1 DEF Init
<1>4. ASSUME NEW c \in Chans PROVE got[c] = <<>> /\ Sent(c) = <<>>
  <2>1. got[c] = <<>> /\ w.ch[c].store = <<>>
    BY <1>1 DEF Init, Fresh
  <2>2. Values(c) = <<>>
    BY <2>1 DEF Values
  <2>3. QED
    BY <2>1, <2>2 DEF Sent
<1>5. ASSUME NEW t \in Users, NEW o \in prog.menu[t], o.op = "reflect", NEW i \in 1..Len(o.ports)
      PROVE  Level(t, o, i)
  <2>1. o.ports[i] \in Chans /\ o.ch \in Chans /\ o.bind \in BOOLEAN /\ Len(o.ports) \in Nat
    BY <1>2, <1>5, SinkTypes
  <2>2. f[t].op # o
    BY <1>3, <1>5 DEF Rest, NoOp
  <2>3. Due(t, o) = Len(o.ports) + 1
    BY <2>2 DEF Due
  <2>4. i < Due(t, o)
    BY <2>1, <2>3
  <2>5. Fits(o.bind, Sent(o.ports[i]), got[o.ch])
    BY <1>4, <2>1, FitsEmpty
  <2>6. QED
    BY <2>4, <2>5 DEF Level
<1>6. \A t \in Users : Filling(t) /\ Rereads(t)
  BY <1>3 DEF Filling, Rereads, Rest, NoOp, WritePcs
<1>7. QED
  BY <1>5, <1>6 DEF Relaying, Levels

LEMMA PrefixAppend ==
  ASSUME NEW V, NEW h \in Seq(V), NEW v \in V
  PROVE  IsPrefix(h, h) /\ IsPrefix(h, Append(h, v))
  BY DEF IsPrefix

LEMMA RelayingOrder == Sound /\ Relaying => BroadcastOrder
<1>1. SUFFICES ASSUME Sound, Relaying, NEW t \in Users, NEW o \in prog.menu[t], o.op = "reflect",
                      NEW x \in ToSet(o.ports)
               PROVE  IF o.bind THEN Subsequence(Sent(x), got[o.ch])
                      ELSE IsPrefix(Sent(x), got[o.ch])
  BY DEF BroadcastOrder, Sent
<1>2. PICK S : Inv(S)
  BY <1>1 DEF Sound, Invariant
<1>3. PICK i \in 1..Len(o.ports) : x = o.ports[i]
  <2>1. o \in Calls
    BY <1>1, <1>2, ChannelsAssumption DEF Inv, Typed
  <2>2. PICK q \in Seq(Chans) : q = o.ports
    BY <1>1, <2>1 DEF Calls
  <2>3. QED
    BY <1>1, <2>2 DEF ToSet
<1>4. x \in Chans /\ o.ch \in Chans /\ o.bind \in BOOLEAN /\ Level(t, o, i) /\ f[t].val \in Value
  <2>1. x \in Chans /\ o.ch \in Chans /\ o.bind \in BOOLEAN
    BY <1>1, <1>2, <1>3, SinkTypes
  <2>2. Level(t, o, i) /\ f[t].val \in Value
    BY <1>1, <1>2, <1>3 DEF Relaying, Levels, Inv, Typed, Frame
  <2>3. QED
    BY <2>1, <2>2
<1>5. PICK s \in Seq(Value), g \in Seq(Value) : s = Sent(x) /\ g = got[o.ch]
  BY <1>2, <1>4, SentTypes
<1>6. Fits(o.bind, s, g) \/ Lacks(o.bind, s, g, f[t].val)
  BY <1>3, <1>4, <1>5 DEF Level
<1>7. CASE Fits(o.bind, s, g)
  BY <1>4, <1>5, <1>7, PrefixAppend DEF Fits
<1>8. ASSUME NEW h \in Seq(Value), g = Append(h, f[t].val), Fits(o.bind, s, h)
      PROVE  IF o.bind THEN Subsequence(s, g) ELSE IsPrefix(s, g)
  BY <1>4, <1>8, PrefixAppend, SubAppend DEF Fits
<1>9. QED
  BY <1>5, <1>6, <1>7, <1>8 DEF Lacks

(* BroadcastOrder for every program in which, besides, the reflector of a  *)
(* Broadcaster has its channels to itself (OwnSinks): every sink is handed *)
(* the items of the source in order, none left out and none doubled, or a  *)
(* subsequence if sinks are emptied, for any number of sinks, whatever     *)
(* classes the channels are of, and however their readers come and go.     *)
THEOREM SinksInOrder ==
  (ByTheRules /\ \A p \in Programs : OwnSinks(p)) /\ Spec => []BroadcastOrder
<1> DEFINE H == ByTheRules /\ \A p \in Programs : OwnSinks(p)
           I == Sound /\ OwnSinks(prog) /\ Relaying
<1>1. H /\ Init => I
  <2>1. Init => prog \in Programs
    BY DEF Init
  <2>2. QED
    BY <2>1, SoundInit, RelayingInit
<1>2. I /\ [Next]_vars => I'
  <2>1. SUFFICES ASSUME I, [Next]_vars PROVE prog' = prog /\ Relaying'
    <3>1. prog' = prog => (OwnSinks(prog) => OwnSinks(prog'))
      OBVIOUS
    <3>2. QED
      BY <3>1, SoundStep
  <2>2. PICK S : Inv(S)
    BY <2>1 DEF Sound, Invariant
  <2>3. CASE UNCHANGED vars
    BY <2>1, <2>3 DEF vars, Relaying, Levels, Level, Due, Sent, Values, Filling, Rereads, Class
  <2>4. CASE Scheduler
    BY <2>1, <2>2, <2>4, RelayingAside
  <2>5. ASSUME NEW t \in Users, Run(t) PROVE prog' = prog /\ Relaying'
    BY <2>1, <2>2, <2>5, RelayingRun, RunRest
  <2>6. QED
    BY <2>1, <2>3, <2>4, <2>5 DEF Next, Scheduler
<1>3. I => BroadcastOrder
  BY RelayingOrder
<1> HIDE DEF H, I
<1>4. H /\ Spec => []BroadcastOrder
  BY <1>1, <1>2, <1>3, PTL DEF Spec
<1>5. QED
  BY <1>4 DEF H
=============================================================================
