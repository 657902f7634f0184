------------------------------ MODULE Quantity ------------------------------
(***************************************************************************)
(* The Quantity class (src/src/Quantity.h): a resource that serves the     *)
(* requests of several threads in slices of time, one unit per slice.      *)
(*                                                                         *)
(* The class needs pDelay and pBusySleep and so runs without preemption:   *)
(* an action is what one thread does until it blocks.  Its two channels    *)
(* are a Channel on which requests are announced and, per request, a       *)
(* BusyChan on which its end is reported; ImplementsChan of Channels       *)
(* justifies that they appear here as a place for one item.                *)
(***************************************************************************)
EXTENDS Integers, SequencesExt

CONSTANTS NULL,
          Threads,    \* Threads that make requests, one at a time each.
          Amounts,    \* Arguments of request().
          ts,         \* Quantity::_ts.
          OwnProcs,   \* A thread that is ready runs before time goes on.
          MaxReq,     \* Bound: requests a thread makes; 0 for no bound.
          MaxAge      \* Bound: where the history counters stop; 0 for no bound.

ASSUME QuantityAssumption ==
  /\ NULL \notin Threads \cup [t : Threads, listed : BOOLEAN]
  /\ Amounts \subseteq Nat /\ ts \in Nat \ {0}
  /\ OwnProcs \in BOOLEAN /\ MaxReq \in Nat /\ MaxAge \in Nat
  /\ IsFiniteSet(Threads)

VARIABLES
  returns,   \* _returns: the threads whose requests are listed, front first.
  amount,    \* amount[t]: what is left of t's request (iter->second).
  reply,     \* reply[t]: t's BusyChan holds the reply.
  request,   \* _request: NULL, or whose iterator it holds and if that is listed.
  writers,   \* Threads registered as writers of _request.
  pc,        \* pc[t]: where thread t is.
  worker,    \* "get": blocked in _request.get(); "delay": in pDelay(_ts).
  iter,      \* The iterator of work().
  left,      \* What is left of the worker's pDelay.
  calls,     \* calls[t]: requests t may still make.
  age, units, offset   \* History of each request: see SliceExact.

object == <<returns, amount, reply, request, writers>>
history == <<age, units, offset>>
vars == <<object, pc, worker, iter, left, calls, history>>

Init ==
  /\ returns = <<>> /\ request = NULL /\ writers = <<>>
  /\ amount = [t \in Threads |-> 0] /\ reply = [t \in Threads |-> FALSE]
  /\ pc = [t \in Threads |-> "away"]
  /\ worker = "get" /\ iter = NULL /\ left = 0
  /\ calls = [t \in Threads |-> MaxReq]
  /\ age = [t \in Threads |-> 0] /\ units = age /\ offset = age

Listed(t) == t \in ToSet(returns)
Elapsed == IF worker = "delay" THEN ts - left ELSE 0
Capped(n) == IF MaxAge = 0 \/ n < MaxAge THEN n ELSE MaxAge

-----------------------------------------------------------------------------
(* request()                                                               *)

(* _request.write(iter) blocks while the channel holds another; get() on   *)
(* the BusyChan does not block if the reply is there.                      *)
Announce(t, replied) ==
  IF request # NULL
  THEN /\ writers' = Append(writers, t) /\ pc' = [pc EXCEPT ![t] = "blocked"]
       /\ UNCHANGED request
  ELSE /\ request' = [t |-> t, listed |-> ~replied]
       /\ pc' = [pc EXCEPT ![t] = IF replied THEN "away" ELSE "busy"]
       /\ UNCHANGED writers

(* register_request(amount) puts the request in front of the list.         *)
Request(t, n) ==
  /\ pc[t] = "away" /\ (MaxReq = 0 \/ calls[t] > 0)
  /\ calls' = [calls EXCEPT ![t] = IF MaxReq = 0 THEN 0 ELSE @ - 1]
  /\ returns' = <<t>> \o returns
  /\ amount' = [amount EXCEPT ![t] = n] /\ reply' = [reply EXCEPT ![t] = FALSE]
  /\ Announce(t, FALSE)
  /\ age' = [age EXCEPT ![t] = 0] /\ units' = [units EXCEPT ![t] = 0]
  /\ offset' = [offset EXCEPT ![t] = Elapsed]
  /\ UNCHANGED <<worker, iter, left>>

(* A writer that was woken looks again.                                    *)
AnnounceAgain(t) ==
  /\ pc[t] = "woken" /\ Announce(t, reply[t])
  /\ UNCHANGED <<returns, amount, reply, worker, iter, left, calls, history>>

-----------------------------------------------------------------------------
(* work()                                                                  *)

(* The item is taken from the channel and up to n writers are woken: get() *)
(* wakes one before it looks for an item and one after it has it.          *)
Woken(n) == {writers[i] : i \in DOMAIN writers \cap 1..n}
Drain(pcs, n) ==
  /\ request' = NULL
  /\ pc' = [t \in Threads |-> IF t \in Woken(n) THEN "woken" ELSE pcs[t]]
  /\ writers' = SubSeq(writers, n + 1, Len(writers))

(* Mutant of Take: the first slice takes no time.                          *)
TakeAtOnce ==
  /\ worker = "get" /\ request # NULL /\ request.listed
  /\ worker' = "delay" /\ iter' = request.t /\ left' = 0
  /\ Drain(pc, 1)
  /\ UNCHANGED <<returns, amount, reply, calls, history>>

(* "Block if nothing to do", then the first slice.  The worker entered     *)
(* get() when there were no writers.  What an iterator that is not of the  *)
(* list would lead to is undefined: see NoStaleRequest.                    *)
Take ==
  /\ worker = "get" /\ request # NULL /\ request.listed
  /\ worker' = "delay" /\ iter' = request.t /\ left' = ts
  /\ Drain(pc, 1)
  /\ UNCHANGED <<returns, amount, reply, calls, history>>

(* The k-th item behind iter, around the list, and the first of them that  *)
(* is not at zero.  If there is none the search does not end, and Serve is *)
(* never enabled.                                                          *)
Position(t) == CHOOSE i \in DOMAIN returns : returns[i] = t
Behind(k) == LET i == Position(iter) + k
             IN  returns[IF i <= Len(returns) THEN i ELSE i - Len(returns)]
Open(t) ==
  \E k \in DOMAIN returns :
    /\ t = Behind(k) /\ amount[t] # 0
    /\ \A j \in 1..(k - 1) : amount[Behind(j)] = 0

Finish(t) ==
  /\ returns' = RemoveAt(returns, Position(t))
  /\ reply' = [reply EXCEPT ![t] = TRUE]

(* A reader that sleeps in get() goes on; an iterator that is still in the *)
(* channel is no longer one of the list.                                   *)
Replied(t) == [pc EXCEPT ![t] = IF @ = "busy" THEN "away" ELSE @]
Unlist(t) == IF request # NULL /\ request.t = t THEN [request EXCEPT !.listed = FALSE] ELSE request

(* "Check for any new requests."                                           *)
Poll(pcs) ==
  IF request # NULL THEN Drain(pcs, 2) ELSE pc' = pcs /\ UNCHANGED <<request, writers>>

Due == worker = "delay" /\ left = 0 /\ (OwnProcs => \A t \in Threads : pc[t] # "woken")
Past(h, t) == IF Listed(t)' THEN h ELSE 0
Count ==
  /\ units' = [t \in Threads |-> Past(Capped(units[t] + 1), t)]
  /\ age' = [t \in Threads |-> Past(age[t], t)]
  /\ offset' = [t \in Threads |-> Past(offset[t], t)]

(* Mutants of Serve: after a request has ended the worker does not look    *)
(* for new ones, keeps its iterator, or waits for the next request.        *)
ServeNoPoll ==
  /\ Due
  /\ \E t \in Threads :
     /\ Open(t) /\ amount' = [amount EXCEPT ![t] = @ - 1]
     /\ IF amount[t] > 1
        THEN iter' = t /\ Poll(pc) /\ UNCHANGED <<returns, reply, worker>>
        ELSE /\ Finish(t)
             /\ iter' = IF returns' = <<>> THEN NULL ELSE Head(returns')
             /\ worker' = IF returns' = <<>> THEN "get" ELSE "delay"
             /\ pc' = Replied(t) /\ request' = Unlist(t) /\ UNCHANGED writers
  /\ left' = ts /\ Count /\ UNCHANGED calls

ServeKeepIter ==
  /\ Due
  /\ \E t \in Threads :
     /\ Open(t) /\ amount' = [amount EXCEPT ![t] = @ - 1]
     /\ iter' = t
     /\ IF amount[t] > 1 THEN Poll(pc) /\ UNCHANGED <<returns, reply, worker>>
        ELSE Finish(t) /\ Poll(Replied(t)) /\ UNCHANGED worker
  /\ left' = ts /\ Count /\ UNCHANGED calls

ServeStops ==
  /\ Due
  /\ \E t \in Threads :
     /\ Open(t) /\ amount' = [amount EXCEPT ![t] = @ - 1]
     /\ IF amount[t] > 1
        THEN iter' = t /\ Poll(pc) /\ UNCHANGED <<returns, reply, worker>>
        ELSE /\ Finish(t) /\ iter' = NULL /\ worker' = "get"
             /\ pc' = Replied(t) /\ request' = Unlist(t) /\ UNCHANGED writers
  /\ left' = ts /\ Count /\ UNCHANGED calls

(* One unit is served at the end of a slice.  When that ends the last      *)
(* request the worker blocks at once; otherwise it looks at the channel    *)
(* and begins the next slice.                                              *)
Serve ==
  /\ Due
  /\ \E t \in Threads :
     /\ Open(t) /\ amount' = [amount EXCEPT ![t] = @ - 1]
     /\ \/ /\ amount[t] > 1
           /\ iter' = t /\ Poll(pc) /\ UNCHANGED <<returns, reply, worker>>
        \/ /\ amount[t] = 1 /\ Finish(t) /\ returns' # <<>>
           /\ iter' = Head(returns') /\ Poll(Replied(t)) /\ UNCHANGED worker
        \/ /\ amount[t] = 1 /\ Finish(t) /\ returns' = <<>>
           /\ iter' = NULL /\ worker' = "get"
           /\ pc' = Replied(t) /\ request' = Unlist(t) /\ UNCHANGED writers
  /\ left' = ts /\ Count /\ UNCHANGED calls

(* Time goes on when no thread has anything to do now.                     *)
Tick ==
  /\ worker = "delay" /\ left > 0 /\ (OwnProcs => \A t \in Threads : pc[t] # "woken")
  /\ left' = left - 1
  /\ age' = [t \in Threads |-> IF Listed(t) THEN Capped(age[t] + 1) ELSE age[t]]
  /\ UNCHANGED <<object, pc, worker, iter, calls, units, offset>>

Next == \/ \E t \in Threads, n \in Amounts : Request(t, n)
        \/ \E t \in Threads : AnnounceAgain(t)
        \/ Take \/ Serve \/ Tick

Spec == Init /\ [][Next]_vars

(* The simulation goes on: ready threads run, and time passes.  Nothing is *)
(* assumed of the requests.                                                *)
FairSpec == /\ Spec
            /\ WF_vars(Take) /\ WF_vars(Serve) /\ WF_vars(Tick)
            /\ \A t \in Threads : WF_vars(AnnounceAgain(t))

-----------------------------------------------------------------------------
(* Properties.                                                             *)

(* Types, and the iterator that work() increments is always one of the     *)
(* list although finished requests are erased from it.                     *)
TypeOK ==
  /\ returns \in Seq(Threads) /\ IsInjective(returns)
  /\ amount \in [Threads -> Nat] /\ reply \in [Threads -> BOOLEAN]
  /\ request \in {NULL} \cup [t : Threads, listed : BOOLEAN]
  /\ writers \in Seq(Threads) /\ IsInjective(writers)
  /\ pc \in [Threads -> {"away", "blocked", "woken", "busy"}]
  /\ worker \in {"get", "delay"} /\ left \in 0..ts
  /\ iter \in Threads \cup {NULL} /\ (worker = "delay" => Listed(iter))

(* A request may be served while its thread is still blocked announcing    *)
(* it, so announcements outlive requests.  All of them are read by the     *)
(* poll before the list is empty: when work() blocks in get() it is for a  *)
(* request that is listed, never for the iterator of an erased one.        *)
NoStaleRequest ==
  worker = "get" =>
    /\ request # NULL => request.listed
    /\ \A t \in Threads : pc[t] \in {"blocked", "woken"} => Listed(t)

(* What the proof of NoStaleRequest rests on.  The threads blocked or      *)
(* woken in write() and the announcement in the channel are together fewer *)
(* than the requests that are listed: a slice ends at most one request and *)
(* takes in one announcement.  No writer sleeps on an empty channel unless *)
(* another has been woken.                                                 *)
Waiting == {t \in Threads : pc[t] \in {"blocked", "woken"}}
Pending == Cardinality(Waiting) + IF request = NULL THEN 0 ELSE 1
FewPending == worker = "delay" => Pending < Len(returns)
WriterStirs == request = NULL /\ writers # <<>> => \E t \in Threads : pc[t] = "woken"

(* Who is where: the registered writers are the blocked threads; a thread  *)
(* is away only when its request is not listed, and waits for its reply    *)
(* only while it is; a reply is there once the request is not.             *)
Whereabouts ==
  /\ \A t \in Threads :
       /\ pc[t] = "blocked" <=> t \in ToSet(writers)
       /\ Listed(t) => pc[t] # "away" /\ ~reply[t]
       /\ pc[t] = "busy" => Listed(t)
       /\ pc[t] \in {"blocked", "woken"} => Listed(t) \/ reply[t]
  /\ request # NULL => (request.listed => Listed(request.t))

(* Every slice serves one unit to someone as long as a request is listed:  *)
(* the time since a request was made is that of the units served since,    *)
(* less the part of the slice that had already gone when it came.  A       *)
(* request that is alone takes timeslice * amount.                         *)
SliceExact == \A t \in Threads : Listed(t) => age[t] = ts * units[t] + Elapsed - offset[t]

(* Every request is satisfied.                                             *)
Served == \A t \in Threads : pc[t] # "away" ~> pc[t] = "away"

(* "At a minimum, this will be satisifed in amount*timeslice time units":  *)
(* no request, which is for one unit or more, ends before a whole slice    *)
(* has gone.  This is not so when it comes during a slice.                 *)
NotEarly == [][\A t \in Threads : Listed(t) /\ ~Listed(t)' => age[t] >= ts]_vars
=============================================================================
