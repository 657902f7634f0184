---------------------------- MODULE ChanSupport -----------------------------
(***************************************************************************)
(* The state of a channel object and the queries and updates its base      *)
(* classes offer: src/src/ChanSupport.h and ChanSupport.C, with the        *)
(* members of the channel templates of src/src/plasma.h that do not block. *)
(*                                                                         *)
(* k is what the class and its constructor fix:                            *)
(*     kind       "chan" Channel, "busy" BusyChan, "queue" QueueChan,      *)
(*                "clock" ClockChan                                        *)
(*     multi      a MultiConsumer... base class                            *)
(*     size       the size argument of the queued classes                  *)
(*     period, skew   those of ClockChan                                   *)
(* x is the object:                                                        *)
(*     store      _store, oldest item first; for one-item channels the     *)
(*                item while _ready is set                                 *)
(*     data       _data of a one-item channel, which outlives _ready       *)
(*     readers    _readt or _cons: the threads to notify                   *)
(*     wakers     those of them a waker thread is under way for            *)
(*     writers    _writers                                                 *)
(***************************************************************************)
EXTENDS Integers, Sequences

CONSTANT NULL

Fresh == [store |-> <<>>, data |-> NULL, readers |-> {}, wakers |-> {}, writers |-> <<>>]

OneItem(k) == k.kind \in {"chan", "busy"}
HaveWriters(x) == x.writers # <<>>
HaveReader(x) == x.readers # {}
IsEmpty(x) == x.store = <<>>

(* Clock edges.  (NextPhiNow is a mutant: on an edge, the next edge is now.)*)
IsPhi(k, time) == k.period = 0 \/ time % k.period = k.skew
NextPhiNow(k, time) ==
  (((time + k.period - 1) - k.skew) \div k.period) * k.period + k.skew
NextPhi(k, time) == (((time + k.period) - k.skew) \div k.period) * k.period + k.skew

(* "We have current data if we have data (duh!) and it's either older than *)
(* now or we have a zero clock period."                                    *)
CurrentData(k, x, time) ==
  ~IsEmpty(x) /\ (k.period = 0 \/ Head(x.store).at < time)

Ready(k, x, time) ==
  IF k.kind = "clock" THEN CurrentData(k, x, time) /\ IsPhi(k, time) ELSE ~IsEmpty(x)

(* Mutant of Full: a queue takes one item too many.                        *)
FullLate(k, x) ==
  CASE OneItem(k)       -> ~IsEmpty(x)
    [] k.kind = "queue" -> k.size # 0 /\ Len(x.store) > k.size
    [] k.kind = "clock" -> Len(x.store) >= IF k.size = 0 THEN 1 ELSE k.size

(* full(): the size 0 means no limit to a QueueChan and, to a ClockChan,   *)
(* one item that its writer waits with.                                    *)
Full(k, x) ==
  CASE OneItem(k)       -> ~IsEmpty(x)
    [] k.kind = "queue" -> k.size # 0 /\ Len(x.store) >= k.size
    [] k.kind = "clock" -> Len(x.store) >= IF k.size = 0 THEN 1 ELSE k.size
Interlocked(k) == k.kind = "clock" /\ k.size = 0

SetWriteNotify(x, t) == [x EXCEPT !.writers = Append(@, t)]
PushWriter(x, t) == [x EXCEPT !.writers = <<t>> \o @]
PopWriter(x) == [x EXCEPT !.writers = Tail(@)]

(* The item enters.  A one-item channel has room for no other.             *)
Stored(k, x, v, time) ==
  IF OneItem(k) THEN [x EXCEPT !.store = <<[v |-> v, at |-> time]>>, !.data = v]
  ELSE [x EXCEPT !.store = Append(@, [v |-> v, at |-> time])]

(* check_size() after a write.                                             *)
SizeOK(k, x) == OneItem(k) \/ k.size = 0 \/ Len(x.store) <= k.size

(* clear_ready() removes the item that is next to be read; clear() removes *)
(* all.                                                                    *)
ClearReady(x) == [x EXCEPT !.store = IF @ = <<>> THEN @ ELSE Tail(@)]
ClearAll(x) == [x EXCEPT !.store = <<>>]
=============================================================================
