--------------------------- MODULE QuantityProofs ---------------------------
(***************************************************************************)
(* Proofs about Quantity, for any finite set of threads, any amounts and   *)
(* any length of a slice.                                                  *)
(***************************************************************************)
EXTENDS Quantity, FiniteSetTheorems, TLAPS

-----------------------------------------------------------------------------
(* Sequences without repetition: what the list of requests and the queue   *)
(* of writers go through.                                                  *)

(* A list with a new item in front.                                        *)
LEMMA InFront ==
  ASSUME NEW S, NEW s \in Seq(S), IsInjective(s), NEW t \in S, t \notin ToSet(s)
  PROVE  LET r == <<t>> \o s IN
         /\ r \in Seq(S) /\ IsInjective(r) /\ Len(r) = Len(s) + 1
         /\ ToSet(r) = ToSet(s) \cup {t}
<1> DEFINE r == <<t>> \o s
<1>1. r \in Seq(S) /\ Len(r) = Len(s) + 1
  OBVIOUS
<1>2. \A i \in 1..Len(r) : r[i] = IF i = 1 THEN t ELSE s[i - 1]
  OBVIOUS
<1>3. \A i \in 1..Len(s) : s[i] \in ToSet(s) /\ r[i + 1] = s[i]
  BY <1>2 DEF ToSet
<1> HIDE DEF r
<1>4. IsInjective(r)
  BY <1>1, <1>2, <1>3 DEF IsInjective
<1>5. ToSet(r) = ToSet(s) \cup {t}
  <2>1. ASSUME NEW x \in ToSet(r) PROVE x \in ToSet(s) \cup {t}
    <3>1. PICK i \in 1..Len(r) : x = r[i]
      BY <1>1 DEF ToSet
    <3>2. i = 1 \/ i - 1 \in 1..Len(s)
      BY <1>1
    <3>3. QED
      BY <1>2, <1>3, <3>1, <3>2
  <2>2. t \in ToSet(r)
    BY <1>1, <1>2 DEF ToSet
  <2>3. ASSUME NEW x \in ToSet(s) PROVE x \in ToSet(r)
    <3>1. PICK i \in 1..Len(s) : x = s[i]
      BY DEF ToSet
    <3>2. i + 1 \in 1..Len(r) /\ x = r[i + 1]
      BY <1>1, <1>3, <3>1
    <3>3. QED
      BY <1>1, <3>2 DEF ToSet
  <2>4. QED
    BY <2>1, <2>2, <2>3
<1>6. QED
  BY <1>1, <1>4, <1>5 DEF r

(* A queue with a new item at the end.                                     *)
LEMMA AtTheEnd ==
  ASSUME NEW S, NEW s \in Seq(S), IsInjective(s), NEW t \in S, t \notin ToSet(s)
  PROVE  /\ Append(s, t) \in Seq(S) /\ IsInjective(Append(s, t))
         /\ ToSet(Append(s, t)) = ToSet(s) \cup {t}
<1> DEFINE r == Append(s, t)
<1>1. r \in Seq(S) /\ Len(r) = Len(s) + 1
  OBVIOUS
<1>2. \A i \in 1..Len(r) : r[i] = IF i = Len(s) + 1 THEN t ELSE s[i]
  OBVIOUS
<1>3. \A i \in 1..Len(s) : s[i] \in ToSet(s) /\ r[i] = s[i]
  BY <1>2 DEF ToSet
<1> HIDE DEF r
<1>4. IsInjective(r)
  BY <1>1, <1>2, <1>3 DEF IsInjective
<1>5. ToSet(r) = ToSet(s) \cup {t}
  BY <1>1, <1>2, <1>3 DEF ToSet
<1>6. QED
  BY <1>1, <1>4, <1>5 DEF r

(* A list without its p-th item.                                           *)
LEMMA Without ==
  ASSUME NEW S, NEW s \in Seq(S), IsInjective(s), NEW p \in 1..Len(s)
  PROVE  LET r == RemoveAt(s, p) IN
         /\ r \in Seq(S) /\ IsInjective(r) /\ Len(r) = Len(s) - 1
         /\ ToSet(r) = ToSet(s) \ {s[p]}
<1> DEFINE r == RemoveAt(s, p)
           a == SubSeq(s, 1, p - 1)
           b == SubSeq(s, p + 1, Len(s))
<1>a. a \in Seq(S) /\ Len(a) = p - 1 /\ \A i \in 1..(p - 1) : a[i] = s[i]
  OBVIOUS
<1>b. b \in Seq(S) /\ Len(b) = Len(s) - p /\ \A i \in 1..(Len(s) - p) : b[i] = s[i + p]
  OBVIOUS
<1>r. r = a \o b
  BY DEF RemoveAt
<1> HIDE DEF r, a, b
<1>1. r \in Seq(S) /\ Len(r) = Len(s) - 1
  BY <1>a, <1>b, <1>r
<1>2. \A i \in 1..Len(r) : r[i] = IF i < p THEN s[i] ELSE s[i + 1]
  <2>1. \A i \in 1..Len(r) : r[i] = IF i <= Len(a) THEN a[i] ELSE b[i - Len(a)]
    BY <1>a, <1>b, <1>r
  <2>2. QED
    BY <2>1, <1>1, <1>a, <1>b
<1>3. IsInjective(r)
  <2>1. SUFFICES ASSUME NEW i \in 1..Len(r), NEW j \in 1..Len(r), r[i] = r[j]
                 PROVE  i = j
    BY <1>1 DEF IsInjective
  <2> DEFINE at(k) == IF k < p THEN k ELSE k + 1
  <2>2. at(i) \in 1..Len(s) /\ at(j) \in 1..Len(s) /\ s[at(i)] = s[at(j)]
    BY <1>1, <1>2, <2>1
  <2>3. at(i) = at(j)
    BY <2>2 DEF IsInjective
  <2>4. QED
    BY <2>3
<1>4. ToSet(r) = ToSet(s) \ {s[p]}
  <2>1. ASSUME NEW x \in ToSet(r) PROVE x \in ToSet(s) \ {s[p]}
    <3>1. PICK i \in 1..Len(r) : x = r[i]
      BY <1>1 DEF ToSet
    <3>2. PICK j \in 1..Len(s) : x = s[j] /\ j # p
      BY <1>1, <1>2, <3>1
    <3>3. QED
      BY <3>2 DEF ToSet, IsInjective
  <2>2. ASSUME NEW x \in ToSet(s) \ {s[p]} PROVE x \in ToSet(r)
    <3>1. PICK j \in 1..Len(s) : x = s[j] /\ j # p
      BY DEF ToSet
    <3>2. PICK i \in 1..Len(r) : x = r[i]
      <4>1. CASE j < p
        BY <1>1, <1>2, <3>1, <4>1
      <4>2. CASE ~(j < p)
        <5>1. j - 1 \in 1..Len(r) /\ ~(j - 1 < p) /\ (j - 1) + 1 = j
          BY <1>1, <3>1, <4>2
        <5>2. QED
          BY <1>2, <3>1, <5>1
      <4>3. QED
        BY <4>1, <4>2
    <3>3. QED
      BY <1>1, <3>2 DEF ToSet
  <2>3. QED
    BY <2>1, <2>2
<1>5. QED
  BY <1>1, <1>3, <1>4 DEF r

(* A queue without its first n items.                                      *)
LEMMA Behindhand ==
  ASSUME NEW S, NEW s \in Seq(S), IsInjective(s), NEW n \in Nat
  PROVE  LET r == SubSeq(s, n + 1, Len(s)) IN
         /\ r \in Seq(S) /\ IsInjective(r)
         /\ ToSet(r) = ToSet(s) \ {s[i] : i \in DOMAIN s \cap 1..n}
<1> DEFINE r == SubSeq(s, n + 1, Len(s))
           W == {s[i] : i \in DOMAIN s \cap 1..n}
<1>1. r \in Seq(S) /\ Len(r) = IF n <= Len(s) THEN Len(s) - n ELSE 0
  OBVIOUS
<1>2. \A i \in 1..Len(r) : r[i] = s[i + n] /\ i + n \in 1..Len(s)
  OBVIOUS
<1> HIDE DEF r
<1>3. IsInjective(r)
  BY <1>1, <1>2, SMTT(30) DEF IsInjective
<1>4. ToSet(r) = ToSet(s) \ W
  <2>1. ASSUME NEW x \in ToSet(r) PROVE x \in ToSet(s) \ W
    <3>1. PICK i \in 1..Len(r) : x = r[i]
      BY <1>1 DEF ToSet
    <3>2. x = s[i + n] /\ i + n \in 1..Len(s) /\ i + n \notin 1..n
      BY <1>1, <1>2, <3>1
    <3>3. QED
      BY <3>2 DEF ToSet, IsInjective
  <2>2. ASSUME NEW x \in ToSet(s) \ W PROVE x \in ToSet(r)
    <3>1. PICK j \in 1..Len(s) : x = s[j] /\ j \notin 1..n
      BY DEF ToSet
    <3>2. j - n \in 1..Len(r) /\ (j - n) + n = j
      BY <1>1, <3>1
    <3>3. x = r[j - n]
      BY <1>2, <3>1, <3>2
    <3>4. QED
      BY <1>1, <3>2, <3>3 DEF ToSet
  <2>3. QED
    BY <2>1, <2>2
<1>5. QED
  BY <1>1, <1>3, <1>4 DEF r

-----------------------------------------------------------------------------
(* Types and whereabouts.                                                  *)

Places == {"away", "blocked", "woken", "busy"}

(* The invariant, and what it says of the queue of writers.                *)
Sound == TypeOK /\ Whereabouts

(* A listed thread has a place in the list.                                *)
LEMMA ListedAt ==
  ASSUME TypeOK, NEW t \in Threads, Listed(t)
  PROVE  Position(t) \in 1..Len(returns) /\ returns[Position(t)] = t
<1>1. \E i \in DOMAIN returns : returns[i] = t
  BY DEF Listed, ToSet
<1>2. Position(t) \in DOMAIN returns /\ returns[Position(t)] = t
  BY <1>1 DEF Position
<1>3. QED
  BY <1>2 DEF TypeOK

(* The request that a slice goes to is one of the list.                    *)
LEMMA OpenListed ==
  ASSUME TypeOK, worker = "delay", NEW t \in Threads, Open(t)
  PROVE  Listed(t) /\ amount[t] \in Nat /\ amount[t] # 0
<1>1. PICK k \in DOMAIN returns : t = Behind(k) /\ amount[t] # 0
  BY DEF Open
<1>2. returns \in Seq(Threads) /\ iter \in Threads /\ Listed(iter)
  BY QuantityAssumption DEF TypeOK, Listed, ToSet
<1>3. Position(iter) \in 1..Len(returns) /\ k \in 1..Len(returns)
  BY <1>1, <1>2, ListedAt
<1>4. \E i \in 1..Len(returns) : t = returns[i]
  BY <1>1, <1>2, <1>3 DEF Behind
<1>5. Listed(t)
  BY <1>2, <1>4 DEF Listed, ToSet
<1>6. QED
  BY <1>1, <1>5 DEF TypeOK

(* The end of a request removes it from the list.                          *)
LEMMA FinishRemoves ==
  ASSUME TypeOK, NEW t \in Threads, Listed(t), Finish(t)
  PROVE  /\ returns' \in Seq(Threads) /\ IsInjective(returns')
         /\ Len(returns') = Len(returns) - 1
         /\ ToSet(returns') = ToSet(returns) \ {t}
         /\ reply' = [reply EXCEPT ![t] = TRUE]
<1>1. Position(t) \in 1..Len(returns) /\ returns[Position(t)] = t
  BY ListedAt
<1>2. returns \in Seq(Threads) /\ IsInjective(returns)
  BY DEF TypeOK
<1>3. QED
  BY <1>1, <1>2, Without DEF Finish

(* Draining the channel wakes writers that were blocked and moves nobody   *)
(* else.                                                                   *)
LEMMA DrainWakes ==
  ASSUME Sound, NEW pcs \in [Threads -> Places], NEW n \in Nat, Drain(pcs, n),
         \A t \in Threads : pcs[t] = "blocked" <=> pc[t] = "blocked"
  PROVE  /\ request' = NULL
         /\ writers' \in Seq(Threads) /\ IsInjective(writers')
         /\ pc' \in [Threads -> Places]
         /\ \A t \in Threads : pc'[t] = "blocked" <=> t \in ToSet(writers')
         /\ \A t \in Threads : pc'[t] = pcs[t] \/ (pcs[t] = "blocked" /\ pc'[t] = "woken")
<1>1. writers \in Seq(Threads) /\ IsInjective(writers)
  BY DEF Sound, TypeOK
<1>2. /\ writers' \in Seq(Threads) /\ IsInjective(writers')
      /\ ToSet(writers') = ToSet(writers) \ Woken(n)
  <2> DEFINE r == SubSeq(writers, n + 1, Len(writers))
  <2>1. r \in Seq(Threads) /\ IsInjective(r) /\ ToSet(r) = ToSet(writers) \ Woken(n)
    BY <1>1, Behindhand, Zenon DEF Woken
  <2>2. writers' = r
    BY DEF Drain
  <2>3. QED
    BY <2>1, <2>2, Zenon
<1>3. Woken(n) \subseteq ToSet(writers)
  BY DEF Woken, ToSet
<1>4. \A t \in Threads : pcs[t] = "blocked" <=> t \in ToSet(writers)
  BY DEF Sound, Whereabouts
<1>5. pc' = [t \in Threads |-> IF t \in Woken(n) THEN "woken" ELSE pcs[t]]
  BY DEF Drain
<1>6. pc' \in [Threads -> Places]
  BY <1>5 DEF Places
<1>7. \A t \in Threads : pc'[t] = IF t \in Woken(n) THEN "woken" ELSE pcs[t]
  BY <1>5
<1>8. \A t \in Threads : pc'[t] = "blocked" <=> t \in ToSet(writers')
  BY <1>2, <1>4, <1>7
<1>9. \A t \in Threads : pc'[t] = pcs[t] \/ (pcs[t] = "blocked" /\ pc'[t] = "woken")
  BY <1>3, <1>4, <1>7
<1>10. QED
  BY <1>2, <1>6, <1>8, <1>9 DEF Drain

(* The same of the poll of work(), which finds the channel empty or drains *)
(* it.                                                                     *)
LEMMA PollWakes ==
  ASSUME Sound, NEW pcs \in [Threads -> Places], Poll(pcs),
         \A t \in Threads : pcs[t] = "blocked" <=> pc[t] = "blocked"
  PROVE  /\ request' = NULL
         /\ writers' \in Seq(Threads) /\ IsInjective(writers')
         /\ pc' \in [Threads -> Places]
         /\ \A t \in Threads : pc'[t] = "blocked" <=> t \in ToSet(writers')
         /\ \A t \in Threads : pc'[t] = pcs[t] \/ (pcs[t] = "blocked" /\ pc'[t] = "woken")
<1>1. CASE request # NULL
  <2>1. Drain(pcs, 2)
    BY <1>1 DEF Poll
  <2>2. QED
    BY <2>1, DrainWakes
<1>2. CASE request = NULL
  <2>1. pc' = pcs /\ request' = request /\ writers' = writers
    BY <1>2 DEF Poll
  <2>2. writers \in Seq(Threads) /\ IsInjective(writers)
    BY DEF Sound, TypeOK
  <2>3. \A t \in Threads : pcs[t] = "blocked" <=> t \in ToSet(writers)
    BY DEF Sound, Whereabouts
  <2>4. QED
    BY <1>2, <2>1, <2>2, <2>3
<1>3. QED
  BY <1>1, <1>2

(* Announcing a request: the thread is blocked as a writer, or its         *)
(* announcement is in the channel.                                         *)
LEMMA Announced ==
  ASSUME Sound, NEW t \in Threads, NEW b \in BOOLEAN, Announce(t, b), pc[t] # "blocked"
  PROVE  /\ writers' \in Seq(Threads) /\ IsInjective(writers')
         /\ pc' \in [Threads -> Places]
         /\ \A u \in Threads : pc'[u] = "blocked" <=> u \in ToSet(writers')
         /\ \A u \in Threads \ {t} : pc'[u] = pc[u]
         /\ \/ request # NULL /\ request' = request /\ pc'[t] = "blocked"
            \/ /\ request = NULL /\ request' = [t |-> t, listed |-> ~b]
               /\ pc'[t] = IF b THEN "away" ELSE "busy"
<1>1. /\ writers \in Seq(Threads) /\ IsInjective(writers) /\ pc \in [Threads -> Places]
      /\ \A u \in Threads : pc[u] = "blocked" <=> u \in ToSet(writers)
  BY DEF Sound, TypeOK, Whereabouts, Places
<1>2. t \notin ToSet(writers)
  BY <1>1
<1>3. CASE request # NULL
  <2>1. writers' = Append(writers, t) /\ pc' = [pc EXCEPT ![t] = "blocked"] /\ request' = request
    BY <1>3 DEF Announce
  <2>2. /\ writers' \in Seq(Threads) /\ IsInjective(writers')
        /\ ToSet(writers') = ToSet(writers) \cup {t}
    BY <1>1, <1>2, <2>1, AtTheEnd
  <2>3. pc' \in [Threads -> Places] /\ \A u \in Threads : pc'[u] = IF u = t THEN "blocked" ELSE pc[u]
    BY <1>1, <2>1 DEF Places
  <2>4. QED
    BY <1>1, <1>3, <2>1, <2>2, <2>3
<1>4. CASE request = NULL
  <2>1. /\ writers' = writers /\ request' = [t |-> t, listed |-> ~b]
        /\ pc' = [pc EXCEPT ![t] = IF b THEN "away" ELSE "busy"]
    BY <1>4 DEF Announce
  <2>2. pc' \in [Threads -> Places]
    BY <1>1, <2>1 DEF Places
  <2>3. \A u \in Threads : pc'[u] = IF u = t THEN (IF b THEN "away" ELSE "busy") ELSE pc[u]
    BY <1>1, <2>1
  <2>4. QED
    BY <1>1, <1>2, <1>4, <2>1, <2>2, <2>3
<1>5. QED
  BY <1>3, <1>4

(* What a thread whose request ends does.                                  *)
LEMMA RepliedPlaces ==
  ASSUME pc \in [Threads -> Places], NEW t \in Threads
  PROVE  /\ Replied(t) \in [Threads -> Places]
         /\ \A u \in Threads : Replied(t)[u] =
              IF u = t /\ pc[u] = "busy" THEN "away" ELSE pc[u]
  BY DEF Replied, Places

(* Every step keeps the invariant.                                         *)
LEMMA SoundKept == Sound /\ [Next]_vars => Sound'
<1> SUFFICES ASSUME Sound, [Next]_vars PROVE Sound'
  OBVIOUS
<1>0. /\ returns \in Seq(Threads) /\ IsInjective(returns)
      /\ amount \in [Threads -> Nat] /\ reply \in [Threads -> BOOLEAN]
      /\ request \in {NULL} \cup [t : Threads, listed : BOOLEAN]
      /\ writers \in Seq(Threads) /\ IsInjective(writers)
      /\ pc \in [Threads -> Places]
      /\ worker \in {"get", "delay"} /\ left \in 0..ts
      /\ iter \in Threads \cup {NULL} /\ (worker = "delay" => iter \in ToSet(returns))
  BY DEF Sound, TypeOK, Places, Listed
<1>w. /\ \A t \in Threads :
           /\ pc[t] = "blocked" <=> t \in ToSet(writers)
           /\ t \in ToSet(returns) => pc[t] # "away" /\ ~reply[t]
           /\ pc[t] = "busy" => t \in ToSet(returns)
           /\ pc[t] \in {"blocked", "woken"} => t \in ToSet(returns) \/ reply[t]
      /\ request # NULL => (request.listed => request.t \in ToSet(returns))
  BY DEF Sound, Whereabouts, Listed
<1>q. SUFFICES
      /\ returns' \in Seq(Threads) /\ IsInjective(returns')
      /\ amount' \in [Threads -> Nat] /\ reply' \in [Threads -> BOOLEAN]
      /\ request' \in {NULL} \cup [t : Threads, listed : BOOLEAN]
      /\ writers' \in Seq(Threads) /\ IsInjective(writers')
      /\ pc' \in [Threads -> Places]
      /\ worker' \in {"get", "delay"} /\ left' \in 0..ts
      /\ iter' \in Threads \cup {NULL} /\ (worker' = "delay" => iter' \in ToSet(returns'))
      /\ \A t \in Threads :
           /\ pc'[t] = "blocked" <=> t \in ToSet(writers')
           /\ t \in ToSet(returns') => pc'[t] # "away" /\ ~reply'[t]
           /\ pc'[t] = "busy" => t \in ToSet(returns')
           /\ pc'[t] \in {"blocked", "woken"} => t \in ToSet(returns') \/ reply'[t]
      /\ request' # NULL => (request'.listed => request'.t \in ToSet(returns'))
  BY DEF Sound, TypeOK, Whereabouts, Places, Listed
<1>1. ASSUME NEW t \in Threads, NEW n \in Amounts, Request(t, n) PROVE <1>q!1
  <2>1. /\ pc[t] = "away" /\ returns' = <<t>> \o returns
        /\ amount' = [amount EXCEPT ![t] = n] /\ reply' = [reply EXCEPT ![t] = FALSE]
        /\ Announce(t, FALSE) /\ worker' = worker /\ iter' = iter /\ left' = left
    BY <1>1 DEF Request
  <2>2. t \notin ToSet(returns)
    BY <1>w, <2>1
  <2>3. /\ returns' \in Seq(Threads) /\ IsInjective(returns')
        /\ ToSet(returns') = ToSet(returns) \cup {t}
    BY <1>0, <2>1, <2>2, InFront
  <2>4. /\ writers' \in Seq(Threads) /\ IsInjective(writers')
        /\ pc' \in [Threads -> Places]
        /\ \A u \in Threads : pc'[u] = "blocked" <=> u \in ToSet(writers')
        /\ \A u \in Threads \ {t} : pc'[u] = pc[u]
        /\ \/ request # NULL /\ request' = request /\ pc'[t] = "blocked"
           \/ request = NULL /\ request' = [t |-> t, listed |-> TRUE] /\ pc'[t] = "busy"
    BY <2>1, Announced
  <2>5. amount' \in [Threads -> Nat] /\ reply' \in [Threads -> BOOLEAN]
    BY <1>0, <2>1, QuantityAssumption
  <2>6. \A u \in Threads : reply'[u] = IF u = t THEN FALSE ELSE reply[u]
    BY <1>0, <2>1
  <2>7. request' \in {NULL} \cup [t : Threads, listed : BOOLEAN]
    <3>1. [t |-> t, listed |-> TRUE] \in [t : Threads, listed : BOOLEAN]
      OBVIOUS
    <3>2. QED
      BY <1>0, <2>4, <3>1
  <2>8. request' # NULL => (request'.listed => request'.t \in ToSet(returns'))
    BY <1>0, <1>w, <2>3, <2>4
  <2>9. \A u \in Threads :
           /\ u \in ToSet(returns') => pc'[u] # "away" /\ ~reply'[u]
           /\ pc'[u] = "busy" => u \in ToSet(returns')
           /\ pc'[u] \in {"blocked", "woken"} => u \in ToSet(returns') \/ reply'[u]
    BY <1>w, <2>3, <2>4, <2>6
  <2>10. QED
    BY <1>0, <2>1, <2>3, <2>4, <2>5, <2>7, <2>8, <2>9
<1>2. ASSUME NEW t \in Threads, AnnounceAgain(t) PROVE <1>q!1
  <2>1. /\ pc[t] = "woken" /\ Announce(t, reply[t])
        /\ returns' = returns /\ amount' = amount /\ reply' = reply
        /\ worker' = worker /\ iter' = iter /\ left' = left
    BY <1>2 DEF AnnounceAgain
  <2>2. reply[t] \in BOOLEAN
    BY <1>0
  <2>3. /\ writers' \in Seq(Threads) /\ IsInjective(writers')
        /\ pc' \in [Threads -> Places]
        /\ \A u \in Threads : pc'[u] = "blocked" <=> u \in ToSet(writers')
        /\ \A u \in Threads \ {t} : pc'[u] = pc[u]
        /\ \/ request # NULL /\ request' = request /\ pc'[t] = "blocked"
           \/ /\ request = NULL /\ request' = [t |-> t, listed |-> ~reply[t]]
              /\ pc'[t] = IF reply[t] THEN "away" ELSE "busy"
    BY <2>1, <2>2, Announced
  <2>4. t \in ToSet(returns) \/ reply[t]
    BY <1>w, <2>1
  <2> DEFINE a == [t |-> t, listed |-> ~reply[t]]
  <2>a. a \in [t : Threads, listed : BOOLEAN] /\ a.t = t /\ a.listed = ~reply[t]
    BY <2>2
  <2>b. request' = request \/ request' = a
    BY <2>3
  <2> HIDE DEF a
  <2>5. request' \in {NULL} \cup [t : Threads, listed : BOOLEAN]
    BY <1>0, <2>a, <2>b
  <2>6. request' # NULL => (request'.listed => request'.t \in ToSet(returns'))
    BY <1>w, <2>1, <2>2, <2>4, <2>a, <2>b
  <2>7. \A u \in Threads :
           /\ u \in ToSet(returns') => pc'[u] # "away" /\ ~reply'[u]
           /\ pc'[u] = "busy" => u \in ToSet(returns')
           /\ pc'[u] \in {"blocked", "woken"} => u \in ToSet(returns') \/ reply'[u]
    BY <1>w, <2>1, <2>3, <2>4
  <2>8. QED
    BY <1>0, <2>1, <2>3, <2>5, <2>6, <2>7
<1>3. ASSUME Take PROVE <1>q!1
  <2>1. /\ request # NULL /\ request.listed /\ worker' = "delay" /\ iter' = request.t
        /\ left' = ts /\ Drain(pc, 1)
        /\ returns' = returns /\ amount' = amount /\ reply' = reply
    BY <1>3 DEF Take
  <2>2. /\ request' = NULL
        /\ writers' \in Seq(Threads) /\ IsInjective(writers')
        /\ pc' \in [Threads -> Places]
        /\ \A u \in Threads : pc'[u] = "blocked" <=> u \in ToSet(writers')
        /\ \A u \in Threads : pc'[u] = pc[u] \/ (pc[u] = "blocked" /\ pc'[u] = "woken")
    BY <1>0, <2>1, DrainWakes
  <2>3. request.t \in Threads /\ request.t \in ToSet(returns)
    BY <1>0, <1>w, <2>1
  <2>4. ts \in 0..ts
    BY QuantityAssumption
  <2>5. QED
    BY <1>0, <1>w, <2>1, <2>2, <2>3, <2>4
<1>4. ASSUME Serve PROVE <1>q!1
  <2>1. PICK t \in Threads :
        /\ Open(t) /\ amount' = [amount EXCEPT ![t] = @ - 1]
        /\ \/ /\ amount[t] > 1
              /\ iter' = t /\ Poll(pc) /\ UNCHANGED <<returns, reply, worker>>
           \/ /\ amount[t] = 1 /\ Finish(t) /\ returns' # <<>>
              /\ iter' = Head(returns') /\ Poll(Replied(t)) /\ UNCHANGED worker
           \/ /\ amount[t] = 1 /\ Finish(t) /\ returns' = <<>>
              /\ iter' = NULL /\ worker' = "get"
              /\ pc' = Replied(t) /\ request' = Unlist(t) /\ UNCHANGED writers
    BY <1>4 DEF Serve
  <2>2. t \in ToSet(returns) /\ amount[t] \in Nat /\ amount[t] # 0
    BY <1>4, <2>1, OpenListed DEF Serve, Due, Sound, Listed
  <2>3. amount' \in [Threads -> Nat]
    BY <1>0, <2>1, <2>2
  <2>4. left' \in 0..ts
    BY <1>4, QuantityAssumption DEF Serve
  <2>5. CASE amount[t] > 1
    <3>1. iter' = t /\ Poll(pc) /\ returns' = returns /\ reply' = reply /\ worker' = worker
      BY <2>1, <2>5
    <3>2. /\ request' = NULL
          /\ writers' \in Seq(Threads) /\ IsInjective(writers')
          /\ pc' \in [Threads -> Places]
          /\ \A u \in Threads : pc'[u] = "blocked" <=> u \in ToSet(writers')
          /\ \A u \in Threads : pc'[u] = pc[u] \/ (pc[u] = "blocked" /\ pc'[u] = "woken")
      BY <1>0, <3>1, PollWakes
    <3>3. QED
      BY <1>0, <1>w, <2>2, <2>3, <2>4, <3>1, <3>2
  <2>6. CASE amount[t] = 1
    <3>1. Finish(t)
      BY <2>1, <2>6
    <3>2. /\ returns' \in Seq(Threads) /\ IsInjective(returns')
          /\ ToSet(returns') = ToSet(returns) \ {t}
          /\ reply' = [reply EXCEPT ![t] = TRUE]
      BY <2>2, <3>1, FinishRemoves DEF Sound, Listed
    <3>3. reply' \in [Threads -> BOOLEAN] /\ \A u \in Threads : reply'[u] = IF u = t THEN TRUE ELSE reply[u]
      BY <1>0, <3>2
    <3>4. /\ Replied(t) \in [Threads -> Places]
          /\ \A u \in Threads : Replied(t)[u] = IF u = t /\ pc[u] = "busy" THEN "away" ELSE pc[u]
      BY <1>0, RepliedPlaces
    <3>5. \A u \in Threads : Replied(t)[u] = "blocked" <=> pc[u] = "blocked"
      BY <3>4
    <3>6. CASE returns' # <<>>
      <4>1. iter' = Head(returns') /\ Poll(Replied(t)) /\ worker' = worker
        BY <2>1, <2>6, <3>6
      <4>2. /\ request' = NULL
            /\ writers' \in Seq(Threads) /\ IsInjective(writers')
            /\ pc' \in [Threads -> Places]
            /\ \A u \in Threads : pc'[u] = "blocked" <=> u \in ToSet(writers')
            /\ \A u \in Threads : \/ pc'[u] = Replied(t)[u]
                                  \/ Replied(t)[u] = "blocked" /\ pc'[u] = "woken"
        BY <3>4, <3>5, <4>1, PollWakes
      <4>3. iter' \in ToSet(returns') /\ iter' \in Threads
        BY <3>2, <3>6, <4>1 DEF ToSet
      <4>4. \A u \in Threads :
              /\ u \in ToSet(returns') => pc'[u] # "away" /\ ~reply'[u]
              /\ pc'[u] = "busy" => u \in ToSet(returns')
              /\ pc'[u] \in {"blocked", "woken"} => u \in ToSet(returns') \/ reply'[u]
        BY <1>w, <3>2, <3>3, <3>4, <4>2
      <4>5. QED
        BY <1>0, <2>3, <2>4, <3>2, <3>3, <4>1, <4>2, <4>3, <4>4
    <3>7. CASE returns' = <<>>
      <4>1. iter' = NULL /\ worker' = "get" /\ pc' = Replied(t) /\ request' = Unlist(t) /\ writers' = writers
        BY <2>1, <2>6, <3>7
      <4>2. /\ request' \in {NULL} \cup [t : Threads, listed : BOOLEAN]
            /\ request' # NULL => (request'.listed => request'.t \in ToSet(returns'))
        BY <1>0, <1>w, <3>2, <4>1 DEF Unlist
      <4>3. \A u \in Threads :
              /\ pc'[u] = "blocked" <=> u \in ToSet(writers')
              /\ u \in ToSet(returns') => pc'[u] # "away" /\ ~reply'[u]
              /\ pc'[u] = "busy" => u \in ToSet(returns')
              /\ pc'[u] \in {"blocked", "woken"} => u \in ToSet(returns') \/ reply'[u]
        BY <1>w, <3>2, <3>3, <3>4, <4>1
      <4>4. QED
        BY <1>0, <2>3, <2>4, <3>2, <3>3, <3>4, <4>1, <4>2, <4>3
    <3>8. QED
      BY <3>6, <3>7
  <2>7. QED
    BY <2>2, <2>5, <2>6
<1>5. ASSUME Tick PROVE <1>q!1
  <2>1. left' = left - 1 /\ left > 0 /\ UNCHANGED <<object, pc, worker, iter>>
    BY <1>5 DEF Tick
  <2>2. left' \in 0..ts
    BY <1>0, <2>1, QuantityAssumption
  <2>3. QED
    BY <1>0, <1>w, <2>1, <2>2 DEF object
<1>6. CASE UNCHANGED vars
  BY <1>0, <1>w, <1>6 DEF vars, object
<1>7. QED
  BY <1>1, <1>2, <1>3, <1>4, <1>5, <1>6 DEF Next

(* It holds at first.                                                      *)
LEMMA SoundAtFirst == Init => Sound
<1> SUFFICES ASSUME Init PROVE Sound
  OBVIOUS
<1>1. ToSet(<<>>) = {} /\ IsInjective(<<>>)
  BY DEF ToSet, IsInjective
<1>2. ts \in Nat /\ 0 \in 0..ts
  BY QuantityAssumption
<1>3. TypeOK
  BY <1>1, <1>2 DEF Init, TypeOK
<1>4. Whereabouts
  BY <1>1 DEF Init, Whereabouts, Listed
<1>5. QED
  BY <1>3, <1>4 DEF Sound

(* The iterator that work() increments at the end of a slice is one of the *)
(* list (Quantity.h: iter++ and _returns.erase), whatever order requests,  *)
(* announcements and slices come in, and whether or not a thread that is   *)
(* ready runs before time goes on.                                         *)
THEOREM QuantityTypes == Spec => []TypeOK
<1>1. Sound => TypeOK
  BY DEF Sound
<1>2. QED
  BY <1>1, SoundAtFirst, SoundKept, PTL DEF Spec

-----------------------------------------------------------------------------
(* Time.                                                                   *)

Histories == /\ age \in [Threads -> Nat] /\ units \in [Threads -> Nat]
             /\ offset \in [Threads -> Nat]
Timed == Sound /\ Histories /\ SliceExact

(* A step ends a request or lists one, and nothing else touches the list;  *)
(* the histories of the others go on.                                      *)
LEMMA TimedKept == ASSUME MaxAge = 0 PROVE Timed /\ [Next]_vars => Timed'
<1> SUFFICES ASSUME Timed, [Next]_vars PROVE Histories' /\ SliceExact'
  BY SoundKept DEF Timed
<1>0. /\ returns \in Seq(Threads) /\ IsInjective(returns) /\ left \in 0..ts /\ ts \in Nat
      /\ worker \in {"get", "delay"}
  BY QuantityAssumption DEF Timed, Sound, TypeOK
<1>h. /\ age \in [Threads -> Nat] /\ units \in [Threads -> Nat] /\ offset \in [Threads -> Nat]
      /\ \A u \in Threads : u \in ToSet(returns) => age[u] = ts * units[u] + Elapsed - offset[u]
  BY DEF Timed, Histories, SliceExact, Listed
<1>e. Elapsed \in Nat
  BY <1>0 DEF Elapsed
<1>c. \A n \in Nat : Capped(n) = n
  BY DEF Capped
<1>m. \A n \in Nat : ts * n \in Nat /\ ts * (n + 1) = ts * n + ts
  BY <1>0
<1>q. SUFFICES
      /\ age' \in [Threads -> Nat] /\ units' \in [Threads -> Nat] /\ offset' \in [Threads -> Nat]
      /\ \A u \in Threads : u \in ToSet(returns') => age'[u] = ts * units'[u] + Elapsed' - offset'[u]
  BY DEF Histories, SliceExact, Listed
<1>1. ASSUME NEW t \in Threads, NEW n \in Amounts, Request(t, n) PROVE <1>q!1
  <2>1. /\ pc[t] = "away" /\ returns' = <<t>> \o returns
        /\ age' = [age EXCEPT ![t] = 0] /\ units' = [units EXCEPT ![t] = 0]
        /\ offset' = [offset EXCEPT ![t] = Elapsed] /\ worker' = worker /\ left' = left
    BY <1>1 DEF Request
  <2>2. t \notin ToSet(returns)
    BY <2>1 DEF Timed, Sound, Whereabouts, Listed
  <2>3. ToSet(returns') = ToSet(returns) \cup {t}
    BY <1>0, <2>1, <2>2, InFront
  <2>4. Elapsed' = Elapsed
    BY <2>1 DEF Elapsed
  <2>5. \A u \in Threads : /\ age'[u] = IF u = t THEN 0 ELSE age[u]
                           /\ units'[u] = IF u = t THEN 0 ELSE units[u]
                           /\ offset'[u] = IF u = t THEN Elapsed ELSE offset[u]
    BY <1>h, <2>1
  <2>6. age' \in [Threads -> Nat] /\ units' \in [Threads -> Nat] /\ offset' \in [Threads -> Nat]
    BY <1>h, <1>e, <2>1
  <2>7. ts * 0 = 0 /\ 0 = 0 + Elapsed - Elapsed
    BY <1>0, <1>e
  <2>8. QED
    BY <1>h, <2>3, <2>4, <2>5, <2>6, <2>7
<1>2. ASSUME NEW t \in Threads, AnnounceAgain(t) PROVE <1>q!1
  <2>1. UNCHANGED <<returns, worker, left, age, units, offset>>
    BY <1>2 DEF AnnounceAgain, history
  <2>2. QED
    BY <1>h, <2>1 DEF Elapsed
<1>3. ASSUME Take PROVE <1>q!1
  <2>1. /\ worker = "get" /\ worker' = "delay" /\ left' = ts
        /\ UNCHANGED <<returns, age, units, offset>>
    BY <1>3 DEF Take, history
  <2>2. Elapsed' = Elapsed
    BY <1>0, <2>1 DEF Elapsed
  <2>3. QED
    BY <1>h, <2>1, <2>2
<1>4. ASSUME Serve PROVE <1>q!1
  <2>1. /\ worker = "delay" /\ left = 0 /\ left' = ts /\ worker' \in {"get", "delay"}
        /\ units' = [u \in Threads |-> IF u \in ToSet(returns') THEN Capped(units[u] + 1) ELSE 0]
        /\ age' = [u \in Threads |-> IF u \in ToSet(returns') THEN age[u] ELSE 0]
        /\ offset' = [u \in Threads |-> IF u \in ToSet(returns') THEN offset[u] ELSE 0]
    BY <1>0, <1>4 DEF Serve, Due, Count, Past, Listed
  <2>2. Elapsed = ts /\ Elapsed' = 0
    BY <1>0, <2>1 DEF Elapsed
  <2>3. ToSet(returns') \subseteq ToSet(returns)
    <3>1. PICK t \in Threads : Open(t) /\ (returns' = returns \/ Finish(t))
      BY <1>4 DEF Serve
    <3>2. CASE returns' = returns
      BY <3>2
    <3>3. CASE Finish(t)
      BY <2>1, <3>1, <3>3, OpenListed, FinishRemoves DEF Timed, Sound
    <3>4. QED
      BY <3>1, <3>2, <3>3
  <2>4. age' \in [Threads -> Nat] /\ units' \in [Threads -> Nat] /\ offset' \in [Threads -> Nat]
    <3>1. \A u \in Threads : Capped(units[u] + 1) \in Nat
      BY <1>h, <1>c
    <3>2. QED
      BY <1>h, <2>1, <3>1
  <2>5. ASSUME NEW u \in Threads, u \in ToSet(returns')
        PROVE  age'[u] = ts * units'[u] + Elapsed' - offset'[u]
    <3>1. age'[u] = age[u] /\ units'[u] = units[u] + 1 /\ offset'[u] = offset[u]
      BY <1>h, <1>c, <2>1, <2>5
    <3>2. age[u] = ts * units[u] + ts - offset[u]
      BY <1>h, <2>2, <2>3, <2>5
    <3>3. ts * (units[u] + 1) = ts * units[u] + ts /\ ts * units[u] \in Nat
      BY <1>m, <1>h
    <3>4. QED
      BY <1>0, <1>h, <2>2, <3>1, <3>2, <3>3
  <2>6. QED
    BY <2>4, <2>5
<1>5. ASSUME Tick PROVE <1>q!1
  <2>1. /\ worker = "delay" /\ left > 0 /\ left' = left - 1 /\ worker' = worker
        /\ returns' = returns /\ units' = units /\ offset' = offset
        /\ age' = [u \in Threads |-> IF u \in ToSet(returns) THEN Capped(age[u] + 1) ELSE age[u]]
    BY <1>5 DEF Tick, object, Listed
  <2>2. Elapsed' = Elapsed + 1
    BY <1>0, <2>1 DEF Elapsed
  <2>3. \A u \in Threads : /\ Capped(age[u] + 1) = age[u] + 1
                           /\ u \in ToSet(returns) => age'[u] = age[u] + 1
    BY <1>h, <1>c, <2>1
  <2>4. age' \in [Threads -> Nat]
    BY <1>h, <2>1, <2>3
  <2>5. ASSUME NEW u \in Threads, u \in ToSet(returns)
        PROVE  age'[u] = ts * units[u] + Elapsed' - offset[u]
    <3>1. age[u] = ts * units[u] + Elapsed - offset[u] /\ ts * units[u] \in Nat
      BY <1>h, <1>m, <2>5
    <3>2. QED
      BY <1>h, <1>e, <2>2, <2>3, <2>5, <3>1
  <2>6. QED
    BY <1>h, <2>1, <2>4, <2>5
<1>6. CASE UNCHANGED vars
  <2>1. UNCHANGED <<returns, worker, left, age, units, offset>>
    BY <1>6 DEF vars, object, history
  <2>2. QED
    BY <1>h, <2>1 DEF Elapsed
<1>7. QED
  BY <1>1, <1>2, <1>3, <1>4, <1>5, <1>6 DEF Next

(* While a request is listed every slice of _ts serves one unit (work():   *)
(* pDelay(_ts), then --iter->second): the time since it was made is that   *)
(* of the units served since, less what of the slice had already gone.     *)
(* The histories are not cut off.                                          *)
THEOREM QuantityTime == ASSUME MaxAge = 0 PROVE Spec => []SliceExact
<1>1. Init => Timed
  <2> SUFFICES ASSUME Init PROVE Histories /\ SliceExact
    BY SoundAtFirst DEF Timed
  <2>1. ToSet(<<>>) = {}
    BY DEF ToSet
  <2>2. QED
    BY <2>1 DEF Init, Histories, SliceExact, Listed
<1>2. Timed /\ [Next]_vars => Timed'
  BY TimedKept
<1>3. Timed => SliceExact
  BY DEF Timed
<1>4. QED
  BY <1>1, <1>2, <1>3, PTL DEF Spec

-----------------------------------------------------------------------------
(* Announcements.                                                          *)

(* While work() is blocked in get() there may be as many announcements as  *)
(* requests.                                                               *)
NoMorePending == worker = "get" => Pending <= Len(returns)
Heard == Sound /\ NoStaleRequest /\ FewPending /\ NoMorePending /\ WriterStirs

(* Waking a writer leaves it in write().                                   *)
LEMMA WakingKeeps ==
  ASSUME pc \in [Threads -> Places], pc' \in [Threads -> Places],
         \A u \in Threads : \/ pc'[u] = pc[u]
                            \/ pc[u] = "blocked" /\ pc'[u] = "woken"
                            \/ pc[u] = "busy" /\ pc'[u] = "away"
  PROVE  Waiting' = Waiting
  BY DEF Waiting

(* A channel that is drained has a writer woken if it has one.             *)
LEMMA DrainStirs ==
  ASSUME Sound, NEW pcs, NEW n \in Nat \ {0}, Drain(pcs, n)
  PROVE  WriterStirs'
<1> SUFFICES ASSUME writers' # <<>> PROVE \E t \in Threads : pc'[t] = "woken"
  BY DEF WriterStirs
<1>1. writers \in Seq(Threads)
  BY DEF Sound, TypeOK
<1>2. writers # <<>>
  BY <1>1 DEF Drain
<1>3. writers[1] \in Threads /\ writers[1] \in Woken(n)
  BY <1>1, <1>2 DEF Woken
<1>4. QED
  BY <1>3 DEF Drain

(* When nobody is woken and the channel is empty, nobody is in write().    *)
LEMMA NobodyWaits ==
  ASSUME Sound, WriterStirs, request = NULL, \A t \in Threads : pc[t] # "woken"
  PROVE  Waiting = {} /\ Pending = 0
<1>1. writers = <<>>
  BY DEF WriterStirs
<1>2. ToSet(<<>>) = {}
  BY DEF ToSet
<1>3. Waiting = {}
  BY <1>1, <1>2 DEF Sound, Whereabouts, Waiting
<1>4. QED
  BY <1>3, FS_EmptySet DEF Pending

(* Every step keeps announcements fewer than requests, if threads that are *)
(* ready run before time goes on.                                          *)
LEMMA HeardKept == ASSUME OwnProcs PROVE Heard /\ [Next]_vars => Heard'
<1> SUFFICES ASSUME Heard, [Next]_vars
             PROVE  NoStaleRequest' /\ FewPending' /\ NoMorePending' /\ WriterStirs'
  BY SoundKept DEF Heard
<1>s. Sound /\ TypeOK /\ Whereabouts /\ WriterStirs
  BY DEF Heard, Sound
<1>0. /\ returns \in Seq(Threads) /\ IsInjective(returns) /\ Len(returns) \in Nat
      /\ pc \in [Threads -> Places] /\ worker \in {"get", "delay"}
      /\ request \in {NULL} \cup [t : Threads, listed : BOOLEAN]
  BY <1>s DEF TypeOK, Places
<1>1. IsFiniteSet(Waiting) /\ Cardinality(Waiting) \in Nat
  BY FS_Subset, FS_CardinalityType, QuantityAssumption DEF Waiting
<1>2. Pending \in Nat /\ Pending = Cardinality(Waiting) + IF request = NULL THEN 0 ELSE 1
  BY <1>1 DEF Pending
<1>3. Pending' = Cardinality(Waiting') + IF request' = NULL THEN 0 ELSE 1
  BY DEF Pending
<1>4. (worker = "delay" => Pending < Len(returns)) /\ (worker = "get" => Pending <= Len(returns))
  BY DEF Heard, FewPending, NoMorePending
<1>q. /\ NoStaleRequest' <=>
           (worker' = "get" =>
             /\ request' # NULL => request'.listed
             /\ \A u \in Threads : pc'[u] \in {"blocked", "woken"} => u \in ToSet(returns'))
      /\ FewPending' <=> (worker' = "delay" => Pending' < Len(returns'))
      /\ NoMorePending' <=> (worker' = "get" => Pending' <= Len(returns'))
      /\ WriterStirs' <=> (request' = NULL /\ writers' # <<>> => \E u \in Threads : pc'[u] = "woken")
  BY DEF NoStaleRequest, FewPending, NoMorePending, WriterStirs, Listed
<1>n. worker = "get" =>
        /\ request # NULL => request.listed
        /\ \A u \in Threads : pc[u] \in {"blocked", "woken"} => u \in ToSet(returns)
  BY DEF Heard, NoStaleRequest, Listed
<1>5. ASSUME NEW t \in Threads, NEW n \in Amounts, Request(t, n)
      PROVE  NoStaleRequest' /\ FewPending' /\ NoMorePending' /\ WriterStirs'
  <2>1. /\ pc[t] = "away" /\ returns' = <<t>> \o returns
        /\ Announce(t, FALSE) /\ worker' = worker
    BY <1>5 DEF Request
  <2>2. t \notin ToSet(returns)
    BY <1>s, <2>1 DEF Whereabouts, Listed
  <2>3. ToSet(returns') = ToSet(returns) \cup {t} /\ Len(returns') = Len(returns) + 1
    BY <1>0, <2>1, <2>2, InFront
  <2>4. /\ \A u \in Threads \ {t} : pc'[u] = pc[u]
        /\ \/ request # NULL /\ request' = request /\ pc'[t] = "blocked"
           \/ request = NULL /\ request' = [t |-> t, listed |-> TRUE] /\ pc'[t] = "busy"
    BY <1>s, <2>1, Announced
  <2>5. request' # NULL /\ (request = NULL => request'.listed)
    <3>1. [t |-> t, listed |-> TRUE] \in [t : Threads, listed : BOOLEAN]
      OBVIOUS
    <3>2. QED
      BY <2>4, <3>1, QuantityAssumption
  <2>6. Pending' = Pending + 1
    <3>1. CASE request # NULL
      <4>1. Waiting' = Waiting \cup {t} /\ t \notin Waiting
        BY <2>1, <2>4, <3>1 DEF Waiting
      <4>2. Cardinality(Waiting') = Cardinality(Waiting) + 1
        BY <1>1, <4>1, FS_AddElement
      <4>3. QED
        BY <1>1, <1>2, <1>3, <2>5, <3>1, <4>2
    <3>2. CASE request = NULL
      <4>1. Waiting' = Waiting
        BY <2>1, <2>4, <3>2 DEF Waiting
      <4>2. QED
        BY <1>1, <1>2, <1>3, <2>5, <3>2, <4>1
    <3>3. QED
      BY <3>1, <3>2
  <2>7. FewPending' /\ NoMorePending'
    BY <1>0, <1>2, <1>4, <1>q, <2>1, <2>3, <2>6
  <2>8. NoStaleRequest'
    BY <1>q, <1>n, <2>1, <2>3, <2>4, <2>5
  <2>9. WriterStirs'
    BY <1>q, <2>5
  <2>10. QED
    BY <2>7, <2>8, <2>9
<1>6. ASSUME NEW t \in Threads, AnnounceAgain(t)
      PROVE  NoStaleRequest' /\ FewPending' /\ NoMorePending' /\ WriterStirs'
  <2>1. /\ pc[t] = "woken" /\ Announce(t, reply[t])
        /\ returns' = returns /\ worker' = worker
    BY <1>6 DEF AnnounceAgain
  <2>2. reply[t] \in BOOLEAN /\ (t \in ToSet(returns) => ~reply[t])
    BY <1>s DEF TypeOK, Whereabouts, Listed
  <2>3. /\ \A u \in Threads \ {t} : pc'[u] = pc[u]
        /\ \/ request # NULL /\ request' = request /\ pc'[t] = "blocked"
           \/ /\ request = NULL /\ request' = [t |-> t, listed |-> ~reply[t]]
              /\ pc'[t] = IF reply[t] THEN "away" ELSE "busy"
    BY <1>s, <2>1, <2>2, Announced
  <2>4. request' # NULL /\ (request = NULL => request'.listed = ~reply[t])
    <3>1. [t |-> t, listed |-> ~reply[t]] \in [t : Threads, listed : BOOLEAN]
      BY <2>2
    <3>2. QED
      BY <2>3, <3>1, QuantityAssumption
  <2>5. Pending' = Pending
    <3>1. CASE request # NULL
      <4>1. Waiting' = Waiting
        BY <2>1, <2>3, <3>1 DEF Waiting
      <4>2. QED
        BY <1>1, <1>2, <1>3, <2>4, <3>1, <4>1
    <3>2. CASE request = NULL
      <4>1. Waiting' = Waiting \ {t} /\ t \in Waiting
        BY <2>1, <2>3, <3>2 DEF Waiting
      <4>2. Cardinality(Waiting') = Cardinality(Waiting) - 1
        BY <1>1, <4>1, FS_RemoveElement
      <4>3. QED
        BY <1>1, <1>2, <1>3, <2>4, <3>2, <4>2
    <3>3. QED
      BY <3>1, <3>2
  <2>6. FewPending' /\ NoMorePending'
    BY <1>4, <1>q, <2>1, <2>5
  <2>7. NoStaleRequest'
    <3>1. worker = "get" => ~reply[t]
      BY <1>n, <2>1, <2>2
    <3>2. QED
      BY <1>q, <1>n, <2>1, <2>3, <2>4, <3>1
  <2>8. WriterStirs'
    BY <1>q, <2>4
  <2>9. QED
    BY <2>6, <2>7, <2>8
<1>7. ASSUME Take PROVE NoStaleRequest' /\ FewPending' /\ NoMorePending' /\ WriterStirs'
  <2>1. /\ worker = "get" /\ request # NULL /\ worker' = "delay"
        /\ Drain(pc, 1) /\ returns' = returns
    BY <1>7 DEF Take
  <2>2. /\ request' = NULL /\ pc' \in [Threads -> Places]
        /\ \A u \in Threads : pc'[u] = pc[u] \/ (pc[u] = "blocked" /\ pc'[u] = "woken")
    BY <1>s, <1>0, <2>1, DrainWakes
  <2>3. Waiting' = Waiting
    BY <1>0, <2>2, WakingKeeps
  <2>4. Pending' = Pending - 1
    BY <1>1, <1>2, <1>3, <2>1, <2>2, <2>3
  <2>5. WriterStirs'
    BY <1>s, <2>1, DrainStirs
  <2>6. QED
    BY <1>0, <1>2, <1>4, <1>q, <2>1, <2>4, <2>5
<1>8. ASSUME Serve PROVE NoStaleRequest' /\ FewPending' /\ NoMorePending' /\ WriterStirs'
  <2>1. PICK t \in Threads :
        /\ Open(t)
        /\ \/ Poll(pc) /\ UNCHANGED <<returns, worker>>
           \/ Finish(t) /\ returns' # <<>> /\ Poll(Replied(t)) /\ UNCHANGED worker
           \/ /\ Finish(t) /\ returns' = <<>> /\ worker' = "get"
              /\ pc' = Replied(t) /\ request' = Unlist(t) /\ UNCHANGED writers
    BY <1>8 DEF Serve
  <2>2. worker = "delay" /\ \A u \in Threads : pc[u] # "woken"
    BY <1>8 DEF Serve, Due
  <2>3. Listed(t)
    BY <1>s, <2>1, <2>2, OpenListed
  <2>4. Pending < Len(returns) /\ (request = NULL => Waiting = {} /\ Pending = 0)
    BY <1>s, <1>4, <2>2, NobodyWaits
  <2>5. ASSUME NEW pcs \in [Threads -> Places], Poll(pcs), worker' = worker,
               \A u \in Threads : pcs[u] = IF u = t /\ pc[u] = "busy" THEN pcs[t] ELSE pc[u],
               pcs[t] \in {"away", pc[t]}, returns' \in Seq(Threads), returns' # <<>>,
               Len(returns') \in {Len(returns), Len(returns) - 1}
        PROVE  NoStaleRequest' /\ FewPending' /\ NoMorePending' /\ WriterStirs'
    <3>1. \A u \in Threads : pcs[u] = "blocked" <=> pc[u] = "blocked"
      BY <2>5
    <3>2. /\ request' = NULL /\ pc' \in [Threads -> Places]
          /\ \A u \in Threads : pc'[u] = pcs[u] \/ (pcs[u] = "blocked" /\ pc'[u] = "woken")
      BY <1>s, <2>5, <3>1, PollWakes
    <3>3. Waiting' = Waiting
      BY <1>0, <2>5, <3>2, WakingKeeps
    <3>4. Pending' = Pending - IF request = NULL THEN 0 ELSE 1
      BY <1>1, <1>2, <1>3, <3>2, <3>3
    <3>5. Len(returns') \in Nat /\ Len(returns') > 0
      BY <2>5
    <3>6. Pending' < Len(returns')
      BY <1>0, <1>2, <2>4, <2>5, <3>4, <3>5
    <3>7. WriterStirs'
      <4>1. CASE request # NULL
        BY <1>s, <2>5, <4>1, DrainStirs DEF Poll
      <4>2. CASE request = NULL
        BY <1>s, <2>2, <2>5, <4>2 DEF Poll, WriterStirs
      <4>3. QED
        BY <4>1, <4>2
    <3>8. QED
      BY <1>q, <2>2, <2>5, <3>6, <3>7
  <2>6. CASE Poll(pc) /\ UNCHANGED <<returns, worker>>
    <3>1. returns # <<>>
      BY <1>0, <1>2, <2>4
    <3>2. QED
      BY <1>0, <2>5, <2>6, <3>1
  <2>r. /\ Replied(t) \in [Threads -> Places]
        /\ \A u \in Threads : Replied(t)[u] = IF u = t /\ pc[u] = "busy" THEN "away" ELSE pc[u]
    BY <1>0, RepliedPlaces
  <2>f. ASSUME Finish(t) PROVE returns' \in Seq(Threads) /\ Len(returns') = Len(returns) - 1
    BY <1>s, <2>3, <2>f, FinishRemoves
  <2>7. CASE Finish(t) /\ returns' # <<>> /\ Poll(Replied(t)) /\ UNCHANGED worker
    BY <2>5, <2>7, <2>r, <2>f
  <2>8. CASE /\ Finish(t) /\ returns' = <<>> /\ worker' = "get"
             /\ pc' = Replied(t) /\ request' = Unlist(t) /\ UNCHANGED writers
    <3>1. Len(returns) = 1 /\ Len(returns') = 0
      BY <1>0, <2>8, <2>f
    <3>2. Pending = 0
      BY <1>2, <2>4, <3>1
    <3>3. request = NULL /\ Waiting = {}
      BY <1>1, <1>2, <2>4, <3>2
    <3>4. request' = NULL
      BY <2>8, <3>3 DEF Unlist
    <3>5. Waiting' = Waiting
      BY <1>0, <2>8, <2>r, WakingKeeps
    <3>6. Pending' = 0
      BY <1>3, <3>3, <3>4, <3>5, FS_EmptySet
    <3>7. \A u \in Threads : pc'[u] \notin {"blocked", "woken"}
      BY <3>3, <3>5 DEF Waiting
    <3>8. WriterStirs'
      <4>1. writers = <<>>
        BY <1>s, <2>2, <3>3 DEF WriterStirs
      <4>2. QED
        BY <2>8, <4>1, <1>q
    <3>9. QED
      BY <1>q, <2>8, <3>1, <3>4, <3>6, <3>7, <3>8
  <2>9. QED
    BY <2>1, <2>6, <2>7, <2>8
<1>9. ASSUME Tick \/ UNCHANGED vars
      PROVE  NoStaleRequest' /\ FewPending' /\ NoMorePending' /\ WriterStirs'
  <2>1. UNCHANGED <<returns, request, writers, pc, worker>>
    BY <1>9 DEF Tick, vars, object
  <2>2. Pending' = Pending
    BY <2>1 DEF Pending, Waiting
  <2>3. QED
    BY <1>4, <1>n, <1>q, <1>s, <2>1, <2>2 DEF WriterStirs
<1>10. QED
  BY <1>5, <1>6, <1>7, <1>8, <1>9 DEF Next

(* work() blocks in _request.get() for a request that is listed, never for *)
(* the iterator of one it has erased: every announcement that a thread     *)
(* makes late is read by the poll before the list is empty.  This rests on *)
(* threads that are ready running before time goes on.                     *)
THEOREM QuantityNoStaleRequest == ASSUME OwnProcs PROVE Spec => []NoStaleRequest
<1>1. Init => Heard
  <2> SUFFICES ASSUME Init PROVE NoStaleRequest /\ FewPending /\ NoMorePending /\ WriterStirs
    BY SoundAtFirst DEF Heard
  <2>1. Waiting = {}
    BY DEF Init, Waiting
  <2>2. Pending = 0
    BY <2>1, FS_EmptySet DEF Init, Pending
  <2>3. QED
    BY <2>2 DEF Init, NoStaleRequest, FewPending, NoMorePending, WriterStirs
<1>2. Heard /\ [Next]_vars => Heard'
  BY HeardKept
<1>3. Heard => NoStaleRequest
  BY DEF Heard
<1>4. QED
  BY <1>1, <1>2, <1>3, PTL DEF Spec

=============================================================================
