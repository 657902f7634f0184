----------------------- MODULE IntrusiveQueueProofs -----------------------
(***************************************************************************)
(* The pointer queue of Queue.C represents the intended sequences, for any *)
(* number of objects and queues.  The inductive invariant is TypeOK /\ Repr *)
(* itself; TLC checks it on the runs of MCQueue.                           *)
(*                                                                         *)
(* The calls fall into two groups: add() and push() lengthen a sequence at *)
(* one end (AddKeeps, PushKeeps); get(), get(t) and remove() all have the  *)
(* effect Dropped(q, k) on the objects that stay, which keeps the          *)
(* invariant whatever k is (DropKeeps).  The second part shows that what a *)
(* walk along the links lists is that sequence, and so that the pointer    *)
(* queue implements Fifo.                                                  *)
(***************************************************************************)
EXTENDS IntrusiveQueue, WalkTheorems, FiniteSetTheorems, SequenceTheorems, TLAPS

(* The inductive invariant.                                                *)
Inv == TypeOK /\ Repr

(* Empty queues with clean links satisfy the invariant.                    *)
LEMMA InitRepr == Init => Inv
  BY QueueAssumption DEF Init, Inv, TypeOK, Repr, OncePerQueue, ForwardLinks,
     HeadHasNoPrev, WalkInQueue, NoWalk, Ptr

(* Length and elements of a sequence without its i-th element.             *)
LEMMA DropAtFacts ==
  ASSUME NEW S, NEW s \in Seq(S), NEW i \in 1..Len(s)
  PROVE  /\ DropAt(s, i) \in Seq(S)
         /\ Len(DropAt(s, i)) = Len(s) - 1
         /\ \A j \in 1..(Len(s) - 1) :
              DropAt(s, i)[j] = IF j < i THEN s[j] ELSE s[j + 1]
<1> DEFINE n == Len(s) - 1
           d == [j \in 1..n |-> IF j < i THEN s[j] ELSE s[j + 1]]
<1>1. n \in Nat
  OBVIOUS
<1>2. \A j \in 1..n : d[j] \in S
  OBVIOUS
<1>3. d \in Seq(S) /\ Len(d) = n
  <2>1. d \in [1..n -> S]
    BY <1>2
  <2>2. QED
    BY <1>1, <2>1
<1>4. QED
  BY <1>3 DEF DropAt

(* Length and elements of a sequence with an element appended.             *)
LEMMA AppendFacts ==
  ASSUME NEW S, NEW s \in Seq(S), NEW x \in S
  PROVE  /\ Append(s, x) \in Seq(S)
         /\ Len(Append(s, x)) = Len(s) + 1
         /\ Append(s, x)[Len(s) + 1] = x
         /\ \A i \in 1..Len(s) : Append(s, x)[i] = s[i]
  OBVIOUS

(* Queue::add of an object in no queue keeps the invariant.                *)
LEMMA AddKeeps ==
  ASSUME Inv, NEW q \in Queues, NEW x \in Nodes, AddItem(q, x)
  PROVE  Inv'
<1> DEFINE L == Len(order[q])
<1> USE QueueAssumption DEF Ptr
<1>1. TypeOK /\ OncePerQueue /\ ForwardLinks /\ HeadHasNoPrev
  BY DEF Inv, Repr
<1>2. TypeOK'
  BY <1>1 DEF AddItem, TypeOK, Add, NoWalk
<1>3. /\ mem.next \in [Nodes -> Ptr] /\ mem.prev \in [Nodes -> Ptr]
      /\ mem.head \in [Queues -> Ptr] /\ mem.tail \in [Queues -> Ptr]
      /\ \A r \in Queues : order[r] \in Seq(Nodes)
      /\ \A r \in Queues : Len(order[r]) \in Nat
      /\ \A r \in Queues : \A i \in 1..Len(order[r]) : order[r][i] \in Nodes
  BY <1>1 DEF TypeOK
<1>4. /\ order'[q] = Append(order[q], x)
      /\ \A r \in Queues : r # q => order'[r] = order[r]
  BY <1>1 DEF AddItem, TypeOK
<1>5. /\ Len(order'[q]) = L + 1
      /\ order'[q][L + 1] = x
      /\ \A i \in 1..L : order'[q][i] = order[q][i]
  BY <1>3, <1>4, AppendFacts
<1>5a. ASSUME NEW r \in Queues, NEW i \in 1..Len(order'[r])
       PROVE  \/ i \in 1..Len(order[r]) /\ order'[r][i] = order[r][i]
              \/ r = q /\ i = L + 1 /\ order'[r][i] = x
  <2>1. CASE r = q
    BY <1>3, <1>5, <2>1
  <2>2. CASE r # q
    BY <1>4, <2>2
  <2>3. QED
    BY <2>1, <2>2
<1>6. \A r \in Queues : \A i \in 1..Len(order[r]) : order[r][i] # x
  BY DEF AddItem, Queued, Elems
<1>7. OncePerQueue'
  <2> SUFFICES ASSUME NEW q1 \in Queues, NEW q2 \in Queues,
                      NEW i \in 1..Len(order'[q1]), NEW j \in 1..Len(order'[q2]),
                      order'[q1][i] = order'[q2][j]
               PROVE  q1 = q2 /\ i = j
    BY DEF OncePerQueue
  <2>1. \/ i \in 1..Len(order[q1]) /\ order'[q1][i] = order[q1][i]
        \/ q1 = q /\ i = L + 1 /\ order'[q1][i] = x
    BY <1>5a
  <2>2. \/ j \in 1..Len(order[q2]) /\ order'[q2][j] = order[q2][j]
        \/ q2 = q /\ j = L + 1 /\ order'[q2][j] = x
    BY <1>5a
  <2>3. QED
    BY <1>1, <1>6, <2>1, <2>2 DEF OncePerQueue
<1>8. /\ mem'.next = IF mem.tail[q] = NULL
                     THEN [mem.next EXCEPT ![x] = NULL]
                     ELSE [mem.next EXCEPT ![x] = NULL, ![mem.tail[q]] = x]
      /\ mem'.prev = [mem.prev EXCEPT ![x] = mem.tail[q]]
      /\ mem'.head = IF mem.tail[q] = NULL THEN [mem.head EXCEPT ![q] = x]
                                           ELSE mem.head
      /\ mem'.tail = [mem.tail EXCEPT ![q] = x]
  BY DEF AddItem, Add
<1>9. /\ L = 0 => mem.head[q] = NULL /\ mem.tail[q] = NULL
      /\ L > 0 => /\ L \in 1..L /\ 1 \in 1..L
                  /\ mem.head[q] = order[q][1] /\ mem.head[q] \in Nodes
                  /\ mem.tail[q] = order[q][L] /\ mem.tail[q] \in Nodes
  BY <1>1, <1>3 DEF ForwardLinks
<1>10. ForwardLinks'
  <2> SUFFICES ASSUME NEW r \in Queues
               PROVE  /\ Len(order'[r]) = 0 => mem'.head[r] = NULL /\ mem'.tail[r] = NULL
                      /\ Len(order'[r]) > 0 => /\ mem'.head[r] = order'[r][1]
                                               /\ mem'.tail[r] = order'[r][Len(order'[r])]
                      /\ \A i \in 1..Len(order'[r]) :
                           mem'.next[order'[r][i]] =
                             IF i = Len(order'[r]) THEN NULL ELSE order'[r][i + 1]
    BY DEF ForwardLinks
  <2>1. CASE r # q
    <3>1. /\ order'[r] = order[r]
          /\ mem'.head[r] = mem.head[r] /\ mem'.tail[r] = mem.tail[r]
      BY <1>3, <1>4, <1>8, <2>1
    <3>2. \A i \in 1..Len(order[r]) : order[r][i] # x /\ (L > 0 => order[r][i] # mem.tail[q])
      BY <1>1, <1>6, <1>9, <2>1 DEF OncePerQueue
    <3>3. \A i \in 1..Len(order[r]) : mem'.next[order[r][i]] = mem.next[order[r][i]]
      BY <1>3, <1>8, <1>9, <3>2
    <3>4. QED
      BY <1>1, <3>1, <3>3 DEF ForwardLinks
  <2>2. CASE r = q
    <3>1. mem'.head[q] = order'[q][1] /\ mem'.tail[q] = order'[q][L + 1]
      BY <1>3, <1>5, <1>8, <1>9
    <3>2. mem'.next[x] = NULL
      BY <1>3, <1>6, <1>8, <1>9
    <3>3. ASSUME NEW i \in 1..L
          PROVE  mem'.next[order[q][i]] = order'[q][i + 1]
      <4>1. CASE i = L
        BY <1>3, <1>5, <1>8, <1>9, <4>1
      <4>2. CASE i # L
        <5>1. i + 1 \in 1..L /\ order[q][i] # x /\ order[q][i] # mem.tail[q]
          BY <1>1, <1>3, <1>6, <1>9, <4>2 DEF OncePerQueue
        <5>2. mem'.next[order[q][i]] = mem.next[order[q][i]]
          BY <1>3, <1>8, <5>1
        <5>3. QED
          BY <1>1, <1>5, <5>1, <5>2, <4>2 DEF ForwardLinks
      <4>3. QED
        BY <4>1, <4>2
    <3>4. QED
      <4>1. ASSUME NEW i \in 1..(L + 1)
            PROVE  mem'.next[order'[q][i]] =
                     IF i = L + 1 THEN NULL ELSE order'[q][i + 1]
        <5>1. CASE i = L + 1
          BY <1>5, <3>2, <5>1
        <5>2. CASE i # L + 1
          <6>1. i \in 1..L
            BY <1>3, <5>2
          <6>2. QED
            BY <1>5, <3>3, <5>2, <6>1
        <5>3. QED
          BY <5>1, <5>2
      <4>2. Len(order'[r]) = L + 1 /\ L + 1 > 0
        BY <1>3, <1>5, <2>2
      <4>3. QED
        BY <2>2, <3>1, <4>1, <4>2, SMTT(30)
  <2>3. QED
    BY <2>1, <2>2
<1>11. HeadHasNoPrev'
  <2> SUFFICES ASSUME NEW r \in Queues, NEW i \in 1..Len(order'[r])
               PROVE  mem'.prev[order'[r][i]] = NULL <=> i = 1
    BY DEF HeadHasNoPrev
  <2>1. CASE r = q /\ i = L + 1
    BY <1>3, <1>5, <1>8, <1>9, <2>1
  <2>2. CASE ~(r = q /\ i = L + 1)
    <3>1. i \in 1..Len(order[r]) /\ order'[r][i] = order[r][i]
      BY <1>3, <1>4, <1>5, <2>2
    <3>2. mem'.prev[order[r][i]] = mem.prev[order[r][i]]
      BY <1>3, <1>6, <1>8, <3>1
    <3>3. QED
      BY <1>1, <3>1, <3>2 DEF HeadHasNoPrev
  <2>3. QED
    BY <2>1, <2>2
<1>12. WalkInQueue'
  BY DEF AddItem, WalkInQueue
<1>13. QED
  BY <1>2, <1>7, <1>10, <1>11, <1>12 DEF Inv, Repr

(* The effect of every call that takes an object out of a queue, seen from *)
(* the objects that stay: the k-th object of q is bypassed.                *)
Dropped(q, k) ==
  LET x == order[q][k]
  IN  /\ order' = [order EXCEPT ![q] = DropAt(order[q], k)]
      /\ mem'.head = [mem.head EXCEPT
            ![q] = IF k = 1 THEN mem.next[x] ELSE mem.head[q]]
      /\ mem'.tail = [mem.tail EXCEPT
            ![q] = IF k < Len(order[q]) THEN mem.tail[q]
                   ELSE IF k = 1 THEN NULL ELSE order[q][k - 1]]
      /\ \A y \in Nodes \ {x} :
            mem'.next[y] = IF k > 1 /\ y = order[q][k - 1]
                           THEN mem.next[x] ELSE mem.next[y]
      /\ \A y \in Nodes \ {x} :
            mem'.prev[y] = IF k = 1 /\ y = mem.next[x]
                           THEN NULL ELSE mem.prev[y]

(* Bypassing the k-th object of a queue keeps the invariant, including     *)
(* the other queues.                                                       *)
LEMMA DropKeeps ==
  ASSUME TypeOK, OncePerQueue, ForwardLinks, HeadHasNoPrev,
         NEW q \in Queues, NEW k \in 1..Len(order[q]), Dropped(q, k)
  PROVE  OncePerQueue' /\ ForwardLinks' /\ HeadHasNoPrev'
<1> DEFINE L == Len(order[q])
           x == order[q][k]
           Old(r, i) == IF r = q /\ i >= k THEN i + 1 ELSE i
<1>1. /\ mem.head \in [Queues -> Ptr] /\ mem.tail \in [Queues -> Ptr]
      /\ \A r \in Queues : order[r] \in Seq(Nodes)
      /\ \A r \in Queues : Len(order[r]) \in Nat
      /\ \A r \in Queues : \A i \in 1..Len(order[r]) : order[r][i] \in Nodes
      /\ L \in Nat /\ L >= 1 /\ k \in 1..L
  BY DEF TypeOK
<1>2. /\ order'[q] = DropAt(order[q], k)
      /\ \A r \in Queues : r # q => order'[r] = order[r]
  BY DEF TypeOK, Dropped
<1>2a. /\ \A r \in Queues : r # q => mem'.head[r] = mem.head[r] /\ mem'.tail[r] = mem.tail[r]
       /\ mem'.head[q] = IF k = 1 THEN mem.next[x] ELSE mem.head[q]
       /\ mem'.tail[q] = IF k < L THEN mem.tail[q]
                         ELSE IF k = 1 THEN NULL ELSE order[q][k - 1]
  BY <1>1 DEF Dropped
<1>2b. \A y \in Nodes \ {x} :
          /\ mem'.next[y] = IF k > 1 /\ y = order[q][k - 1]
                            THEN mem.next[x] ELSE mem.next[y]
          /\ mem'.prev[y] = IF k = 1 /\ y = mem.next[x]
                            THEN NULL ELSE mem.prev[y]
  BY DEF Dropped
<1>3. /\ Len(order'[q]) = L - 1
      /\ \A j \in 1..(L - 1) : order'[q][j] = IF j < k THEN order[q][j] ELSE order[q][j + 1]
  <2>1. order[q] \in Seq(Nodes) /\ k \in 1..Len(order[q])
    BY <1>1
  <2>2. /\ Len(DropAt(order[q], k)) = L - 1
        /\ \A j \in 1..(L - 1) :
             DropAt(order[q], k)[j] = IF j < k THEN order[q][j] ELSE order[q][j + 1]
    BY <2>1, DropAtFacts
  <2>3. QED
    BY <1>2, <2>2
<1>4. ASSUME NEW r \in Queues, NEW i \in 1..Len(order'[r])
      PROVE  /\ Old(r, i) \in 1..Len(order[r])
             /\ order'[r][i] = order[r][Old(r, i)]
             /\ ~(r = q /\ Old(r, i) = k)
             /\ Old(r, i) = IF r = q /\ i >= k THEN i + 1 ELSE i
  <2>1. CASE r = q
    BY <1>1, <1>3, <2>1, SMTT(30)
  <2>2. CASE r # q
    BY <1>1, <1>2, <2>2
  <2>3. QED
    BY <2>1, <2>2
<1> HIDE DEF Old
<1>5. \A r \in Queues : \A i \in 1..Len(order[r]) :
         /\ order[r][i] = x => r = q /\ i = k
         /\ k > 1 /\ order[r][i] = order[q][k - 1] => r = q /\ i = k - 1
         /\ k < L /\ order[r][i] = order[q][k + 1] => r = q /\ i = k + 1
  BY <1>1, SMTT(30) DEF OncePerQueue
<1>6. OncePerQueue'
  <2> SUFFICES ASSUME NEW q1 \in Queues, NEW q2 \in Queues,
                      NEW i \in 1..Len(order'[q1]), NEW j \in 1..Len(order'[q2]),
                      order'[q1][i] = order'[q2][j]
               PROVE  q1 = q2 /\ i = j
    BY DEF OncePerQueue
  <2>1. order[q1][Old(q1, i)] = order[q2][Old(q2, j)]
    BY <1>4
  <2>2. Old(q1, i) \in 1..Len(order[q1]) /\ Old(q2, j) \in 1..Len(order[q2])
    BY <1>4
  <2>3. q1 = q2 /\ Old(q1, i) = Old(q2, j)
    BY <2>1, <2>2 DEF OncePerQueue
  <2>4. i \in Int /\ j \in Int
    BY <1>1
  <2>5. QED
    BY <1>1, <2>3, <2>4 DEF Old
<1>7. mem.next[x] = IF k = L THEN NULL ELSE order[q][k + 1]
  BY <1>1 DEF ForwardLinks
<1>8. ASSUME NEW r \in Queues, NEW i \in 1..Len(order'[r])
      PROVE  mem'.next[order'[r][i]] =
               IF i = Len(order'[r]) THEN NULL ELSE order'[r][i + 1]
  <2>1. order'[r][i] = order[r][Old(r, i)] /\ order[r][Old(r, i)] \in Nodes \ {x}
    BY <1>1, <1>4, <1>5
  <2>2. CASE r # q
    <3>1. order'[r] = order[r] /\ i \in 1..Len(order[r])
      BY <1>2, <2>2
    <3>2. mem'.next[order[r][i]] = mem.next[order[r][i]]
      BY <1>1, <1>2b, <1>5, <2>1, <2>2, <3>1
    <3>3. QED
      BY <3>1, <3>2 DEF ForwardLinks
  <2>3. CASE r = q /\ i = k - 1
    <3>1. k > 1 /\ i \in 1..(L - 1) /\ i < k /\ order'[q][i] = order[q][k - 1]
      BY <1>1, <1>3, <2>3
    <3>2. mem'.next[order'[q][i]] = mem.next[x]
      BY <1>2b, <2>1, <2>3, <3>1
    <3>3. k # L => i + 1 \in 1..(L - 1) /\ order'[q][i + 1] = order[q][k + 1]
      <4>1. k # L => i + 1 = k /\ k \in 1..(L - 1) /\ ~(k < k)
        BY <1>1, <2>3
      <4>2. QED
        BY <1>3, <4>1
    <3>4. QED
      BY <1>1, <1>3, <1>7, <2>3, <3>2, <3>3
  <2>4. CASE r = q /\ i # k - 1
    <3>1. i \in 1..(L - 1)
      BY <1>3, <2>4
    <3>2. ~(k > 1 /\ order'[q][i] = order[q][k - 1])
      <4>1. Old(q, i) # k - 1
        BY <1>1, <2>4, <3>1 DEF Old
      <4>2. order'[q][i] = order[q][Old(q, i)] /\ Old(q, i) \in 1..L
        BY <1>4, <2>4
      <4>3. QED
        BY <1>5, <4>1, <4>2
    <3>3. mem'.next[order'[q][i]] = mem.next[order'[q][i]]
      BY <1>2b, <2>1, <2>4, <3>2
    <3>4. mem.next[order[q][Old(q, i)]] = IF Old(q, i) = L THEN NULL
                                          ELSE order[q][Old(q, i) + 1]
      BY <1>4, <2>4 DEF ForwardLinks
    <3>5. Old(q, i) = L <=> i = L - 1
      BY <1>1, <2>4, <3>1 DEF Old
    <3>6. i # L - 1 => order'[q][i + 1] = order[q][Old(q, i) + 1]
      <4>1. CASE i >= k
        <5>1. i # L - 1 => i + 1 \in 1..(L - 1) /\ ~(i + 1 < k)
          BY <1>1, <3>1, <4>1
        <5>2. Old(q, i) = i + 1
          BY <4>1 DEF Old
        <5>3. QED
          BY <1>3, <5>1, <5>2
      <4>2. CASE ~(i >= k)
        <5>1. i + 1 \in 1..(L - 1) \/ i = L - 1
          BY <1>1, <3>1
        <5>2. Old(q, i) = i /\ i + 1 < k
          BY <1>1, <2>4, <3>1, <4>2 DEF Old
        <5>3. QED
          BY <1>3, <5>1, <5>2
      <4>3. QED
        BY <4>1, <4>2
    <3>7. QED
      BY <1>3, <2>1, <2>4, <3>3, <3>4, <3>5, <3>6
  <2>5. QED
    BY <2>2, <2>3, <2>4
<1>9. ForwardLinks'
  <2> SUFFICES ASSUME NEW r \in Queues
               PROVE  /\ Len(order'[r]) = 0 => mem'.head[r] = NULL /\ mem'.tail[r] = NULL
                      /\ Len(order'[r]) > 0 => /\ mem'.head[r] = order'[r][1]
                                               /\ mem'.tail[r] = order'[r][Len(order'[r])]
    BY <1>8 DEF ForwardLinks
  <2>1. CASE r # q
    BY <1>1, <1>2, <1>2a, <2>1 DEF ForwardLinks
  <2>2. CASE r = q
    <3>1. mem.head[q] = order[q][1] /\ mem.tail[q] = order[q][L]
      BY <1>1 DEF ForwardLinks
    <3>2. /\ mem'.head[q] = IF k = 1 THEN mem.next[x] ELSE order[q][1]
          /\ mem'.tail[q] = IF k < L THEN order[q][L]
                            ELSE IF k = 1 THEN NULL ELSE order[q][k - 1]
      BY <1>1, <1>2a, <3>1
    <3>3. CASE L = 1
      BY <1>1, <1>3, <1>7, <2>2, <3>2, <3>3
    <3>4. CASE L > 1
      <4>1. /\ order'[q][1] = IF k = 1 THEN order[q][2] ELSE order[q][1]
            /\ order'[q][L - 1] = IF k = L THEN order[q][L - 1] ELSE order[q][L]
        <5>1. 1 \in 1..(L - 1) /\ L - 1 \in 1..(L - 1) /\ (1 < k <=> k # 1)
              /\ (L - 1 < k <=> k = L) /\ (L - 1) + 1 = L /\ 1 + 1 = 2
          BY <1>1, <3>4
        <5>2. QED
          BY <1>3, <5>1
      <4>2. QED
        <5>1. mem'.head[q] = order'[q][1]
          BY <1>1, <1>7, <3>2, <3>4, <4>1
        <5>2. mem'.tail[q] = order'[q][L - 1]
          BY <1>1, <3>2, <3>4, <4>1
        <5>3. QED
          BY <1>1, <1>3, <2>2, <3>4, <5>1, <5>2
    <3>5. L = 1 \/ L > 1
      <4>1. L \in Nat /\ L >= 1
        BY <1>1
      <4> HIDE DEF L
      <4>2. QED
        BY <4>1
    <3>6. QED
      BY <3>3, <3>4, <3>5
  <2>3. QED
    BY <2>1, <2>2
<1>10. HeadHasNoPrev'
  <2> SUFFICES ASSUME NEW r \in Queues, NEW i \in 1..Len(order'[r])
               PROVE  mem'.prev[order'[r][i]] = NULL <=> i = 1
    BY DEF HeadHasNoPrev
  <2>1. order'[r][i] = order[r][Old(r, i)] /\ order[r][Old(r, i)] \in Nodes \ {x}
    BY <1>1, <1>4, <1>5
  <2>2. mem.prev[order[r][Old(r, i)]] = NULL <=> Old(r, i) = 1
    BY <1>4 DEF HeadHasNoPrev
  <2>3. CASE r = q /\ k = 1
    <3>1. Old(r, i) = i + 1 /\ i \in 1..(L - 1)
      BY <1>1, <1>3, <2>3 DEF Old
    <3>2. order[r][Old(r, i)] = mem.next[x] <=> i = 1
      BY <1>1, <1>5, <1>7, <2>3, <3>1
    <3>3. QED
      BY <1>1, <1>2b, <2>1, <2>2, <2>3, <3>1, <3>2
  <2>4. CASE r # q \/ k # 1
    <3>1. ~(k = 1 /\ order[r][Old(r, i)] = mem.next[x])
      <4>1. CASE k # 1
        BY <4>1
      <4>2. CASE r # q
        BY <1>1, <1>4, <1>5, <1>7, <2>1, <4>2, QueueAssumption
      <4>3. QED
        BY <2>4, <4>1, <4>2
    <3>2. Old(r, i) = 1 <=> i = 1
      BY <1>1, <1>4, <2>4 DEF Old
    <3>3. QED
      BY <1>2b, <2>1, <2>2, <3>1, <3>2
  <2>5. QED
    BY <2>3, <2>4
<1>11. QED
  BY <1>6, <1>9, <1>10

(* Length and elements of a sequence with an element in front.             *)
LEMMA ConsFacts ==
  ASSUME NEW S, NEW s \in Seq(S), NEW x \in S
  PROVE  /\ <<x>> \o s \in Seq(S)
         /\ Len(<<x>> \o s) = Len(s) + 1
         /\ (<<x>> \o s)[1] = x
         /\ \A i \in 2..(Len(s) + 1) : (<<x>> \o s)[i] = s[i - 1]
  OBVIOUS

(* Queue::push of an object in no queue keeps the invariant.               *)
LEMMA PushKeeps ==
  ASSUME Inv, NEW q \in Queues, NEW x \in Nodes, PushItem(q, x)
  PROVE  Inv'
<1> DEFINE L == Len(order[q])
           h == mem.head[q]
<1> USE QueueAssumption DEF Ptr
<1>1. TypeOK /\ OncePerQueue /\ ForwardLinks /\ HeadHasNoPrev
  BY DEF Inv, Repr
<1>2. /\ mem.next \in [Nodes -> Ptr] /\ mem.prev \in [Nodes -> Ptr]
      /\ mem.head \in [Queues -> Ptr] /\ mem.tail \in [Queues -> Ptr]
      /\ \A r \in Queues : order[r] \in Seq(Nodes)
      /\ \A r \in Queues : Len(order[r]) \in Nat
      /\ \A r \in Queues : \A i \in 1..Len(order[r]) : order[r][i] \in Nodes
  BY <1>1 DEF TypeOK
<1>3. /\ order'[q] = <<x>> \o order[q]
      /\ \A r \in Queues : r # q => order'[r] = order[r]
  BY <1>1 DEF PushItem, TypeOK
<1>4. /\ Len(order'[q]) = L + 1
      /\ order'[q][1] = x
      /\ \A i \in 2..(L + 1) : order'[q][i] = order[q][i - 1]
  <2>1. order[q] \in Seq(Nodes)
    BY <1>2
  <2>2. QED
    BY <1>3, <2>1, ConsFacts
<1>5. ASSUME NEW r \in Queues, NEW i \in 1..Len(order'[r])
      PROVE  \/ r = q /\ i = 1 /\ order'[r][i] = x
             \/ r = q /\ i - 1 \in 1..L /\ order'[r][i] = order[r][i - 1] /\ i # 1
             \/ r # q /\ i \in 1..Len(order[r]) /\ order'[r] = order[r]
  <2>1. CASE r = q
    BY <1>2, <1>4, <2>1
  <2>2. CASE r # q
    BY <1>3, <2>2
  <2>3. QED
    BY <2>1, <2>2
<1>6. \A r \in Queues : \A i \in 1..Len(order[r]) : order[r][i] # x
  BY DEF PushItem, Queued, Elems
<1>7. OncePerQueue'
  <2> SUFFICES ASSUME NEW q1 \in Queues, NEW q2 \in Queues,
                      NEW i \in 1..Len(order'[q1]), NEW j \in 1..Len(order'[q2]),
                      order'[q1][i] = order'[q2][j]
               PROVE  q1 = q2 /\ i = j
    BY DEF OncePerQueue
  <2>1. i \in Int /\ j \in Int
    BY <1>2
  <2>2. \/ q1 = q /\ i = 1 /\ order'[q1][i] = x
        \/ q1 = q /\ i - 1 \in 1..L /\ order'[q1][i] = order[q1][i - 1] /\ i # 1
        \/ q1 # q /\ i \in 1..Len(order[q1]) /\ order'[q1] = order[q1]
    BY <1>5
  <2>3. \/ q2 = q /\ j = 1 /\ order'[q2][j] = x
        \/ q2 = q /\ j - 1 \in 1..L /\ order'[q2][j] = order[q2][j - 1] /\ j # 1
        \/ q2 # q /\ j \in 1..Len(order[q2]) /\ order'[q2] = order[q2]
    BY <1>5
  <2>4. QED
    BY <1>1, <1>6, <2>1, <2>2, <2>3, SMTT(30) DEF OncePerQueue
<1>8. /\ mem'.next = [mem.next EXCEPT ![x] = h]
      /\ mem'.prev = IF h = NULL THEN [mem.prev EXCEPT ![x] = NULL]
                                 ELSE [mem.prev EXCEPT ![x] = NULL, ![h] = x]
      /\ mem'.head = [mem.head EXCEPT ![q] = x]
      /\ mem'.tail = IF h = NULL THEN [mem.tail EXCEPT ![q] = x] ELSE mem.tail
  BY DEF PushItem, Push
<1>9. /\ L = 0 => h = NULL /\ mem.tail[q] = NULL
      /\ L > 0 => /\ L \in 1..L /\ 1 \in 1..L
                  /\ h = order[q][1] /\ h \in Nodes
                  /\ mem.tail[q] = order[q][L]
  BY <1>1, <1>2 DEF ForwardLinks
<1>10. ForwardLinks'
  <2> SUFFICES ASSUME NEW r \in Queues
               PROVE  /\ Len(order'[r]) = 0 => mem'.head[r] = NULL /\ mem'.tail[r] = NULL
                      /\ Len(order'[r]) > 0 => /\ mem'.head[r] = order'[r][1]
                                               /\ mem'.tail[r] = order'[r][Len(order'[r])]
                      /\ \A i \in 1..Len(order'[r]) :
                           mem'.next[order'[r][i]] =
                             IF i = Len(order'[r]) THEN NULL ELSE order'[r][i + 1]
    BY DEF ForwardLinks
  <2>1. CASE r # q
    <3>1. /\ order'[r] = order[r]
          /\ mem'.head[r] = mem.head[r] /\ mem'.tail[r] = mem.tail[r]
      BY <1>2, <1>3, <1>8, <2>1
    <3>2. \A i \in 1..Len(order[r]) : mem'.next[order[r][i]] = mem.next[order[r][i]]
      BY <1>2, <1>6, <1>8
    <3>3. QED
      BY <1>1, <3>1, <3>2 DEF ForwardLinks
  <2>2. CASE r = q
    <3>1. mem'.head[q] = order'[q][1]
      BY <1>2, <1>4, <1>8
    <3>2. mem'.tail[q] = order'[q][L + 1]
      <4>1. CASE L = 0
        BY <1>2, <1>4, <1>8, <1>9, <4>1
      <4>2. CASE L > 0
        BY <1>2, <1>4, <1>8, <1>9, <4>2
      <4>3. QED
        BY <1>2, <4>1, <4>2
    <3>3. ASSUME NEW i \in 1..(L + 1)
          PROVE  mem'.next[order'[q][i]] =
                   IF i = L + 1 THEN NULL ELSE order'[q][i + 1]
      <4>1. CASE i = 1
        <5>1. mem'.next[order'[q][i]] = h
          BY <1>2, <1>4, <1>8, <4>1
        <5>2. L > 0 => order'[q][i + 1] = order[q][1]
          BY <1>2, <1>4, <4>1, SMTT(30)
        <5>3. QED
          BY <1>2, <1>9, <4>1, <5>1, <5>2
      <4>2. CASE i # 1
        <5>1. i - 1 \in 1..L /\ order'[q][i] = order[q][i - 1]
          BY <1>2, <1>4, <4>2
        <5>2. mem'.next[order'[q][i]] = mem.next[order[q][i - 1]]
          BY <1>2, <1>6, <1>8, <5>1
        <5>3. mem.next[order[q][i - 1]] = IF i - 1 = L THEN NULL ELSE order[q][(i - 1) + 1]
          BY <1>1, <5>1 DEF ForwardLinks
        <5>4. i # L + 1 => order'[q][i + 1] = order[q][(i - 1) + 1]
          BY <1>2, <1>4, <5>1
        <5>5. QED
          BY <1>2, <5>1, <5>2, <5>3, <5>4
      <4>3. QED
        BY <4>1, <4>2
    <3>4. Len(order'[q]) = L + 1 /\ L + 1 > 0
      BY <1>2, <1>4
    <3>5. QED
      BY <2>2, <3>1, <3>2, <3>3, <3>4
  <2>3. QED
    BY <2>1, <2>2
<1>11. HeadHasNoPrev'
  <2> SUFFICES ASSUME NEW r \in Queues, NEW i \in 1..Len(order'[r])
               PROVE  mem'.prev[order'[r][i]] = NULL <=> i = 1
    BY DEF HeadHasNoPrev
  <2>1. mem'.prev[x] = NULL
    BY <1>2, <1>6, <1>8, <1>9
  <2>2. ASSUME NEW s \in Queues, NEW j \in 1..Len(order[s])
        PROVE  mem'.prev[order[s][j]] = IF s = q /\ j = 1 THEN x ELSE mem.prev[order[s][j]]
    <3>1. order[s][j] = h <=> s = q /\ j = 1
      <4>1. CASE L = 0
        BY <1>2, <1>9, <4>1
      <4>2. CASE L > 0
        BY <1>1, <1>9, <4>2 DEF OncePerQueue
      <4>3. QED
        BY <1>2, <4>1, <4>2
    <3>2. QED
      BY <1>2, <1>6, <1>8, <3>1
  <2>3. \/ r = q /\ i = 1 /\ order'[r][i] = x
        \/ r = q /\ i - 1 \in 1..L /\ order'[r][i] = order[r][i - 1] /\ i # 1
        \/ r # q /\ i \in 1..Len(order[r]) /\ order'[r] = order[r]
    BY <1>5
  <2>4. QED
    BY <1>1, <1>2, <2>1, <2>2, <2>3, SMTT(30) DEF HeadHasNoPrev
<1>12. WalkInQueue'
  BY DEF PushItem, WalkInQueue
<1>13. TypeOK'
  BY <1>1, <1>2, ConsFacts DEF PushItem, TypeOK, Push, NoWalk
<1>14. QED
  BY <1>7, <1>10, <1>11, <1>12, <1>13 DEF Inv, Repr

(* An object has one position, so dropping it is dropping that position.   *)
LEMMA IndexFacts ==
  ASSUME TypeOK, OncePerQueue, NEW q \in Queues, NEW k \in 1..Len(order[q])
  PROVE  /\ order[q][k] \in Nodes
         /\ Drop(order[q], order[q][k]) = DropAt(order[q], k)
         /\ [order EXCEPT ![q] = DropAt(order[q], k)] \in [Queues -> Seq(Nodes)]
<1>1. order[q] \in Seq(Nodes) /\ Len(order[q]) \in Nat
  BY DEF TypeOK
<1>2. \A i \in 1..Len(order[q]) : order[q][i] = order[q][k] => i = k
  BY DEF OncePerQueue
<1>3. IndexOf(order[q], order[q][k]) = k
  BY <1>2 DEF IndexOf
<1>4. DropAt(order[q], k) \in Seq(Nodes)
  BY <1>1, DropAtFacts
<1>5. order[q][k] \in Elems(order[q])
  BY DEF Elems
<1>6. Drop(order[q], order[q][k]) = DropAt(order[q], k)
  BY <1>3, <1>5 DEF Drop
<1>7. [order EXCEPT ![q] = DropAt(order[q], k)] \in [Queues -> Seq(Nodes)]
  BY <1>4 DEF TypeOK
<1>8. QED
  BY <1>1, <1>6, <1>7

(* Queue::get() on a non-empty queue drops the first object.               *)
LEMMA GetDrops ==
  ASSUME TypeOK, OncePerQueue, ForwardLinks, NEW q \in Queues, mem.head[q] # NULL,
         mem' = Get(mem, q),
         order' = [order EXCEPT ![q] = DropAt(order[q], 1)]
  PROVE  /\ 1 \in 1..Len(order[q])
         /\ mem.head[q] = order[q][1]
         /\ Dropped(q, 1)
         /\ mem' \in [next : [Nodes -> Ptr], prev : [Nodes -> Ptr],
                      head : [Queues -> Ptr], tail : [Queues -> Ptr]]
<1> DEFINE L == Len(order[q])
           h == mem.head[q]
           n == mem.next[h]
<1>1. /\ mem.next \in [Nodes -> Ptr] /\ mem.prev \in [Nodes -> Ptr]
      /\ mem.head \in [Queues -> Ptr] /\ mem.tail \in [Queues -> Ptr]
      /\ L \in Nat /\ \A i \in 1..L : order[q][i] \in Nodes
  BY DEF TypeOK
<1>2. L > 0
  BY <1>1 DEF ForwardLinks
<1>3. 1 \in 1..L /\ h = order[q][1] /\ h \in Nodes /\ n \in Ptr
      /\ mem.tail[q] = order[q][L]
  BY <1>1, <1>2 DEF ForwardLinks
<1>4. n = IF L = 1 THEN NULL ELSE order[q][2]
  <2>1. mem.next[order[q][1]] = IF 1 = L THEN NULL ELSE order[q][1 + 1]
    BY <1>3 DEF ForwardLinks
  <2>2. QED
    BY <1>3, <2>1
<1>5. n = NULL <=> L = 1
  <2>1. CASE L = 1
    BY <1>4, <2>1
  <2>2. CASE L # 1
    <3>1. 2 \in 1..L
      <4>1. L \in Nat /\ L > 0 /\ L # 1
        BY <1>1, <1>2, <2>2
      <4> HIDE DEF L
      <4>2. QED
        BY <4>1
    <3>2. QED
      BY <1>1, <1>4, <2>2, <3>1, QueueAssumption
  <2>3. QED
    BY <2>1, <2>2
<1>6. /\ mem'.next = [mem.next EXCEPT ![h] = NULL]
      /\ mem'.prev = IF n = NULL THEN [mem.prev EXCEPT ![h] = NULL]
                                 ELSE [mem.prev EXCEPT ![n] = NULL, ![h] = NULL]
      /\ mem'.head = [mem.head EXCEPT ![q] = n]
      /\ mem'.tail = IF n = NULL THEN [mem.tail EXCEPT ![q] = NULL] ELSE mem.tail
  BY DEF Get
<1>7. mem' \in [next : [Nodes -> Ptr], prev : [Nodes -> Ptr],
                head : [Queues -> Ptr], tail : [Queues -> Ptr]]
  BY <1>1, <1>3 DEF Get, Ptr
<1>8. mem'.tail = [mem.tail EXCEPT ![q] = IF 1 < L THEN mem.tail[q] ELSE NULL]
  <2>1. CASE L = 1
    BY <1>5, <1>6, <2>1
  <2>2. CASE L # 1
    <3>1. 1 < L
      <4>1. L \in Nat /\ L > 0 /\ L # 1
        BY <1>1, <1>2, <2>2
      <4> HIDE DEF L
      <4>2. QED
        BY <4>1
    <3>2. mem'.tail = mem.tail
      BY <1>5, <1>6, <2>2
    <3>3. QED
      BY <1>1, <3>1, <3>2
  <2>3. QED
    BY <2>1, <2>2
<1>9. \A y \in Nodes \ {h} : /\ mem'.next[y] = mem.next[y]
                             /\ mem'.prev[y] = IF y = n THEN NULL ELSE mem.prev[y]
  BY <1>1, <1>3, <1>6, QueueAssumption DEF Ptr
<1>10. Dropped(q, 1)
  BY <1>2, <1>3, <1>6, <1>8, <1>9 DEF Dropped
<1>11. QED
  BY <1>3, <1>7, <1>10

(* The found branch of Queue::get(t) drops the object behind the cursor.   *)
LEMMA UnlinkDrops ==
  ASSUME TypeOK, OncePerQueue, ForwardLinks, NEW q \in Queues,
         NEW k \in 2..Len(order[q]),
         mem' = Unlink(mem, q, order[q][k - 1], order[q][k]),
         order' = [order EXCEPT ![q] = DropAt(order[q], k)]
  PROVE  /\ Dropped(q, k)
         /\ mem' \in [next : [Nodes -> Ptr], prev : [Nodes -> Ptr],
                      head : [Queues -> Ptr], tail : [Queues -> Ptr]]
<1> DEFINE L == Len(order[q])
           x == order[q][k]
           c == order[q][k - 1]
<1>1. /\ mem.next \in [Nodes -> Ptr] /\ mem.prev \in [Nodes -> Ptr]
      /\ mem.head \in [Queues -> Ptr] /\ mem.tail \in [Queues -> Ptr]
      /\ L \in Nat /\ \A i \in 1..L : order[q][i] \in Nodes
  BY DEF TypeOK
<1>2. k \in 1..L /\ k - 1 \in 1..L /\ k > 1 /\ k # 1 /\ x \in Nodes /\ c \in Nodes
  BY <1>1
<1>3. mem.next[x] = NULL <=> ~(k < L)
  BY <1>1, <1>2, QueueAssumption DEF ForwardLinks
<1>4. /\ mem'.next = [mem.next EXCEPT ![c] = mem.next[x]]
      /\ mem'.prev = mem.prev /\ mem'.head = mem.head
      /\ mem'.tail = IF mem.next[x] = NULL THEN [mem.tail EXCEPT ![q] = c] ELSE mem.tail
  BY DEF Unlink
<1>5. mem' \in [next : [Nodes -> Ptr], prev : [Nodes -> Ptr],
                head : [Queues -> Ptr], tail : [Queues -> Ptr]]
  BY <1>1, <1>2 DEF Unlink, Ptr
<1>6. /\ mem'.tail = [mem.tail EXCEPT ![q] = IF k < L THEN mem.tail[q] ELSE c]
      /\ mem'.head = [mem.head EXCEPT ![q] = mem.head[q]]
  BY <1>1, <1>3, <1>4
<1>7. \A y \in Nodes \ {x} : /\ mem'.next[y] = IF y = c THEN mem.next[x] ELSE mem.next[y]
                             /\ mem'.prev[y] = mem.prev[y]
  BY <1>1, <1>2, <1>4
<1>8. Dropped(q, k)
  BY <1>2, <1>6, <1>7 DEF Dropped
<1>9. QED
  BY <1>5, <1>8

(* Queue::remove drops a non-head object whose back link is exact.         *)
LEMMA RemoveDrops ==
  ASSUME TypeOK, OncePerQueue, ForwardLinks, NEW q \in Queues,
         NEW k \in 2..Len(order[q]),
         mem.prev[order[q][k]] = order[q][k - 1],
         mem' = Remove(mem, q, order[q][k]),
         order' = [order EXCEPT ![q] = DropAt(order[q], k)]
  PROVE  /\ Dropped(q, k)
         /\ mem' \in [next : [Nodes -> Ptr], prev : [Nodes -> Ptr],
                      head : [Queues -> Ptr], tail : [Queues -> Ptr]]
<1> DEFINE L == Len(order[q])
           x == order[q][k]
           c == order[q][k - 1]
<1>1. /\ mem.next \in [Nodes -> Ptr] /\ mem.prev \in [Nodes -> Ptr]
      /\ mem.head \in [Queues -> Ptr] /\ mem.tail \in [Queues -> Ptr]
      /\ L \in Nat /\ \A i \in 1..L : order[q][i] \in Nodes
  BY DEF TypeOK
<1>2. k \in 1..L /\ k - 1 \in 1..L /\ k > 1 /\ k # 1 /\ x \in Nodes /\ c \in Nodes
  BY <1>1
<1>3. mem.next[x] = NULL <=> ~(k < L)
  BY <1>1, <1>2, QueueAssumption DEF ForwardLinks
<1>4. /\ mem'.next = [mem.next EXCEPT ![c] = mem.next[x], ![x] = NULL]
      /\ mem'.prev = [mem.prev EXCEPT ![x] = NULL] /\ mem'.head = mem.head
      /\ mem'.tail = IF mem.next[x] = NULL THEN [mem.tail EXCEPT ![q] = c] ELSE mem.tail
  BY <1>2, QueueAssumption DEF Remove
<1>5. mem' \in [next : [Nodes -> Ptr], prev : [Nodes -> Ptr],
                head : [Queues -> Ptr], tail : [Queues -> Ptr]]
  BY <1>1, <1>2, QueueAssumption DEF Remove, Ptr
<1>6. /\ mem'.tail = [mem.tail EXCEPT ![q] = IF k < L THEN mem.tail[q] ELSE c]
      /\ mem'.head = [mem.head EXCEPT ![q] = mem.head[q]]
  BY <1>1, <1>3, <1>4
<1>7. \A y \in Nodes \ {x} : /\ mem'.next[y] = IF y = c THEN mem.next[x] ELSE mem.next[y]
                             /\ mem'.prev[y] = mem.prev[y]
  BY <1>1, <1>2, <1>4
<1>8. Dropped(q, k)
  BY <1>2, <1>6, <1>7 DEF Dropped
<1>9. QED
  BY <1>5, <1>8

(* A step that leaves links and contents alone keeps what ties them.       *)
LEMMA SameKeeps ==
  ASSUME OncePerQueue, ForwardLinks, HeadHasNoPrev, mem' = mem, order' = order
  PROVE  OncePerQueue' /\ ForwardLinks' /\ HeadHasNoPrev'
<1>1. OncePerQueue'
  BY DEF OncePerQueue
<1>2. ForwardLinks'
  BY DEF ForwardLinks
<1>3. HeadHasNoPrev'
  BY DEF HeadHasNoPrev
<1>4. QED
  BY <1>1, <1>2, <1>3

(* Every call, and every step of the walk of get(t), keeps the invariant.  *)
LEMMA StepKeeps == Inv /\ [Next]_vars => Inv'
<1> SUFFICES ASSUME Inv, [Next]_vars PROVE Inv'
  OBVIOUS
<1>1. TypeOK /\ OncePerQueue /\ ForwardLinks /\ HeadHasNoPrev /\ WalkInQueue
  BY DEF Inv, Repr
<1>2. ASSUME NEW q \in Queues, NEW k \in 1..Len(order[q]), Dropped(q, k),
             mem' \in [next : [Nodes -> Ptr], prev : [Nodes -> Ptr],
                       head : [Queues -> Ptr], tail : [Queues -> Ptr]],
             walk' = NoWalk
      PROVE  Inv'
  <2>1. OncePerQueue' /\ ForwardLinks' /\ HeadHasNoPrev'
    BY <1>1, <1>2, DropKeeps
  <2>2. order' \in [Queues -> Seq(Nodes)]
    BY <1>1, <1>2, IndexFacts DEF Dropped
  <2>3. QED
    BY <1>2, <2>1, <2>2 DEF Inv, Repr, TypeOK, WalkInQueue
<1>3. ASSUME NEW q \in Queues, NEW x \in Nodes, AddItem(q, x)
      PROVE  Inv'
  BY <1>3, AddKeeps
<1>4. ASSUME NEW q \in Queues, NEW x \in Nodes, PushItem(q, x)
      PROVE  Inv'
  BY <1>4, PushKeeps
<1>5. ASSUME NEW q \in Queues, GetHead(q)
      PROVE  Inv'
  <2>1. mem.head[q] # NULL /\ mem' = Get(mem, q) /\ walk' = NoWalk
        /\ order' = [order EXCEPT ![q] = DropAt(order[q], 1)]
    BY <1>5 DEF GetHead
  <2>2. QED
    BY <1>1, <1>2, <2>1, GetDrops
<1>6. ASSUME NEW q \in Queues, NEW x \in Nodes, FindHead(q, x)
      PROVE  Inv'
  <2>1. /\ mem.head[q] = x /\ mem.head[q] # NULL /\ mem' = Get(mem, q) /\ walk' = NoWalk
        /\ order' = [order EXCEPT ![q] = Drop(order[q], x)]
    BY <1>6, QueueAssumption DEF FindHead
  <2>2. 1 \in 1..Len(order[q]) /\ x = order[q][1]
    <3>1. Len(order[q]) \in Nat
      BY <1>1 DEF TypeOK
    <3>2. Len(order[q]) # 0 /\ (Len(order[q]) > 0 => mem.head[q] = order[q][1])
      BY <1>1, <2>1 DEF ForwardLinks
    <3>3. QED
      BY <2>1, <3>1, <3>2
  <2>3. order' = [order EXCEPT ![q] = DropAt(order[q], 1)]
    BY <1>1, <2>1, <2>2, IndexFacts
  <2>4. QED
    BY <1>1, <1>2, <2>1, <2>3, GetDrops
<1>7. ASSUME NEW q \in Queues, NEW x \in Nodes, FindStart(q, x)
      PROVE  Inv'
  <2>1. /\ mem.head[q] # NULL /\ UNCHANGED <<mem, order>>
        /\ walk' = [q |-> q, x |-> x, cur |-> mem.head[q]]
    BY <1>7 DEF FindStart
  <2>2. mem.head[q] \in Nodes /\ mem.head[q] \in Elems(order[q])
    <3>1. Len(order[q]) \in Nat /\ mem.head[q] \in Nodes
      BY <1>1, <2>1 DEF TypeOK, Ptr
    <3>2. Len(order[q]) # 0 /\ (Len(order[q]) > 0 => mem.head[q] = order[q][1])
      BY <1>1, <2>1 DEF ForwardLinks
    <3>3. QED
      BY <3>1, <3>2 DEF Elems
  <2>3. TypeOK'
    BY <1>1, <2>1, <2>2 DEF TypeOK
  <2>4. WalkInQueue'
    BY <2>1, <2>2 DEF WalkInQueue, Elems
  <2>5. OncePerQueue' /\ ForwardLinks' /\ HeadHasNoPrev'
    <3>1. mem' = mem /\ order' = order
      BY <2>1
    <3>2. QED
      BY <1>1, <3>1, SameKeeps
  <2>6. QED
    BY <2>3, <2>4, <2>5 DEF Inv, Repr
<1>8. CASE FindStep
  <2>1. /\ walk # NoWalk /\ walk \in [q : Queues, x : Nodes, cur : Nodes]
        /\ walk.q \in Queues /\ walk.x \in Nodes /\ walk.cur \in Elems(order[walk.q])
    BY <1>1, <1>8 DEF FindStep, TypeOK, WalkInQueue
  <2>2. PICK i \in 1..Len(order[walk.q]) : order[walk.q][i] = walk.cur
    BY <2>1 DEF Elems
  <2>3. Len(order[walk.q]) \in Nat
    BY <1>1, <2>1 DEF TypeOK
  <2>4. mem.next[walk.cur] = IF i = Len(order[walk.q]) THEN NULL
                             ELSE order[walk.q][i + 1]
    BY <1>1, <2>1, <2>2 DEF ForwardLinks
  <2>5. CASE mem.next[walk.cur] = walk.x
    <3>1. /\ mem' = Unlink(mem, walk.q, walk.cur, walk.x)
          /\ order' = [order EXCEPT ![walk.q] = Drop(order[walk.q], walk.x)]
          /\ walk' = NoWalk
      BY <1>8, <2>5 DEF FindStep
    <3>2. i # Len(order[walk.q]) /\ walk.x = order[walk.q][i + 1]
      BY <2>1, <2>4, <2>5, QueueAssumption
    <3> DEFINE k == i + 1
    <3>3. /\ k \in 2..Len(order[walk.q]) /\ k \in 1..Len(order[walk.q])
          /\ k - 1 = i /\ walk.x = order[walk.q][k]
      BY <2>2, <2>3, <3>2
    <3> HIDE DEF k
    <3>4. order' = [order EXCEPT ![walk.q] = DropAt(order[walk.q], k)]
      BY <1>1, <2>1, <3>1, <3>3, IndexFacts
    <3>5. mem' = Unlink(mem, walk.q, order[walk.q][k - 1], order[walk.q][k])
      BY <2>2, <3>1, <3>3
    <3>6. /\ Dropped(walk.q, k)
          /\ mem' \in [next : [Nodes -> Ptr], prev : [Nodes -> Ptr],
                       head : [Queues -> Ptr], tail : [Queues -> Ptr]]
      BY <1>1, <2>1, <3>3, <3>4, <3>5, UnlinkDrops
    <3>7. QED
      BY <1>2, <2>1, <3>1, <3>3, <3>6
  <2>6. CASE mem.next[walk.cur] # walk.x
    <3>1. /\ UNCHANGED <<mem, order>>
          /\ walk' = IF mem.next[walk.cur] = NULL THEN NoWalk
                     ELSE [walk EXCEPT !.cur = mem.next[walk.cur]]
      BY <1>8, <2>6 DEF FindStep
    <3>2. CASE mem.next[walk.cur] = NULL
      <4>1. mem' = mem /\ order' = order /\ walk' = NoWalk
        BY <3>1, <3>2
      <4>2. OncePerQueue' /\ ForwardLinks' /\ HeadHasNoPrev'
        BY <1>1, <4>1, SameKeeps
      <4>3. TypeOK' /\ WalkInQueue'
        BY <1>1, <4>1 DEF TypeOK, WalkInQueue
      <4>4. QED
        BY <4>2, <4>3 DEF Inv, Repr
    <3>3. CASE mem.next[walk.cur] # NULL
      <4>1. i + 1 \in 1..Len(order[walk.q]) /\ mem.next[walk.cur] = order[walk.q][i + 1]
        BY <2>2, <2>3, <2>4, <3>3
      <4>2. /\ mem.next[walk.cur] \in Elems(order[walk.q])
            /\ mem.next[walk.cur] \in Nodes
        <5>1. order[walk.q] \in Seq(Nodes)
          BY <1>1, <2>1 DEF TypeOK
        <5>2. order[walk.q][i + 1] \in Nodes
          BY <4>1, <5>1
        <5>3. QED
          BY <4>1, <5>2 DEF Elems
      <4>3. walk' = [q |-> walk.q, x |-> walk.x, cur |-> mem.next[walk.cur]]
        BY <2>1, <3>1, <3>3
      <4>4. TypeOK'
        BY <1>1, <2>1, <3>1, <4>2, <4>3 DEF TypeOK
      <4>5. WalkInQueue'
        BY <3>1, <4>2, <4>3 DEF WalkInQueue, Elems
      <4>6. OncePerQueue' /\ ForwardLinks' /\ HeadHasNoPrev'
        <5>1. mem' = mem /\ order' = order
          BY <3>1
        <5>2. QED
          BY <1>1, <5>1, SameKeeps
      <4>7. QED
        BY <4>4, <4>5, <4>6 DEF Inv, Repr
    <3>4. QED
      BY <3>2, <3>3
  <2>7. QED
    BY <2>5, <2>6
<1>9. ASSUME NEW q \in Queues, NEW x \in Nodes, RemoveExact(q, x)
      PROVE  Inv'
  <2>1. /\ x \in Elems(order[q]) /\ mem' = Remove(mem, q, x) /\ walk' = NoWalk
        /\ order' = [order EXCEPT ![q] = Drop(order[q], x)]
    BY <1>9 DEF RemoveExact, RemoveItem
  <2>2. PICK k \in 1..Len(order[q]) : order[q][k] = x
    BY <2>1 DEF Elems
  <2>3. mem.prev[x] = IF k = 1 THEN NULL ELSE order[q][k - 1]
    BY <1>9, <2>2 DEF RemoveExact, BackLinkExact
  <2>4. order' = [order EXCEPT ![q] = DropAt(order[q], k)]
    BY <1>1, <2>1, <2>2, IndexFacts
  <2>5. CASE k = 1
    <3>1. mem' = Get(mem, q)
      BY <2>1, <2>3, <2>5 DEF Remove
    <3>2. mem.head[q] # NULL
      <4>1. Len(order[q]) > 0 /\ order[q][1] \in Nodes
        BY <1>1, <2>2, <2>5 DEF TypeOK
      <4>2. QED
        BY <1>1, <4>1, QueueAssumption DEF ForwardLinks
    <3>3. QED
      BY <1>1, <1>2, <2>1, <2>4, <2>5, <3>1, <3>2, GetDrops
  <2>6. CASE k # 1
    <3>1. k \in 2..Len(order[q])
      BY <2>2, <2>6
    <3>2. mem' = Remove(mem, q, order[q][k]) /\ mem.prev[order[q][k]] = order[q][k - 1]
      BY <2>1, <2>2, <2>3, <2>6
    <3>3. /\ Dropped(q, k)
          /\ mem' \in [next : [Nodes -> Ptr], prev : [Nodes -> Ptr],
                       head : [Queues -> Ptr], tail : [Queues -> Ptr]]
      BY <1>1, <2>4, <3>1, <3>2, RemoveDrops
    <3>4. QED
      BY <1>2, <2>1, <3>3
  <2>7. QED
    BY <2>5, <2>6
<1>10. CASE UNCHANGED vars
  <2>1. mem' = mem /\ order' = order /\ walk' = walk
    BY <1>10 DEF vars
  <2>2. OncePerQueue' /\ ForwardLinks' /\ HeadHasNoPrev'
    BY <1>1, <2>1, SameKeeps
  <2>3. TypeOK' /\ WalkInQueue'
    BY <1>1, <2>1 DEF TypeOK, WalkInQueue, Elems
  <2>4. QED
    BY <2>2, <2>3 DEF Inv, Repr
<1>11. QED
  BY <1>3, <1>4, <1>5, <1>6, <1>7, <1>8, <1>9, <1>10 DEF Next, Common

(* Whatever sequence of add, push, get, get(t) and exact remove calls is   *)
(* made on any number of queues, every object is in at most one queue, the *)
(* head, tail and forward links spell out exactly the objects added and    *)
(* not yet taken, and only heads lack a back link.                         *)
THEOREM QueueRepresentation == Spec => [](TypeOK /\ Repr)
<1>1. Init => Inv
  BY InitRepr
<1>2. Inv /\ [Next]_vars => Inv'
  BY StepKeeps
<1>3. QED
  BY <1>1, <1>2, PTL DEF Spec, Inv
-----------------------------------------------------------------------------
(* Walking the links of the pointer queue lists its contents, and the      *)
(* pointer queue implements the abstract queues of Fifo, for any finite    *)
(* number of objects.                                                      *)
(*                                                                         *)
(* Repr speaks of single links; the walk is a recursive function.  The     *)
(* contents, extended by NULL, satisfy the walk's recursion equation       *)
(* (ItemIsOrder), and the equation has only one solution (ItemIs).         *)

(* g is a walk from the head of q: the equation that defines Item.         *)
Walks(m, q, g) ==
  g = [i \in Nat |-> IF i = 0 THEN m.head[q]
                     ELSE IF g[i - 1] = NULL THEN NULL ELSE m.next[g[i - 1]]]

(* Item is the only walk from the head: any walk agrees with it, at every  *)
(* distance.  (If not, there is a least distance at which they differ.)    *)
LEMMA ItemIs ==
  ASSUME NEW m, NEW q, NEW f, Walks(m, q, f), NEW n \in Nat
  PROVE  Item(m, q, n) = f[n]
<1> DEFINE Eqn(g) == g = [i \in Nat |-> IF i = 0 THEN m.head[q]
                            ELSE IF g[i - 1] = NULL THEN NULL ELSE m.next[g[i - 1]]]
           at == CHOOSE g : Eqn(g)
<1>1. Item(m, q, n) = at[n]
  BY DEF Item
<1>2. Eqn(at)
  <2>1. Eqn(f)
    BY DEF Walks
  <2>2. QED
    BY <2>1
<1> HIDE DEF at
<1>3. at[0] = f[0] /\ \A i \in Nat : at[i] = f[i] => at[i + 1] = f[i + 1]
  <2>1. at[0] = f[0]
    BY <1>2 DEF Walks
  <2>2. ASSUME NEW i \in Nat, at[i] = f[i] PROVE at[i + 1] = f[i + 1]
    <3>1. i + 1 \in Nat /\ i + 1 # 0 /\ (i + 1) - 1 = i
      OBVIOUS
    <3>2. at[i + 1] = IF at[i] = NULL THEN NULL ELSE m.next[at[i]]
      BY <1>2, <3>1
    <3>3. f[i + 1] = IF f[i] = NULL THEN NULL ELSE m.next[f[i]]
      BY <3>1 DEF Walks
    <3>4. QED
      BY <2>2, <3>2, <3>3
  <2>3. QED
    BY <2>1, <2>2
<1> HIDE DEF Eqn
<1> DEFINE T == {i \in Nat : at[i] # f[i]}
<1>4. T = {}
  <2>1. SUFFICES ASSUME T # {} PROVE FALSE
    OBVIOUS
  <2>2. PICK k \in T : \A i \in T : k <= i
    BY <2>1, LeastNat
  <2>3. k \in Nat /\ k # 0 /\ at[k] # f[k]
    BY <1>3
  <2>4. k - 1 \in Nat /\ k - 1 \notin T /\ (k - 1) + 1 = k
    BY <2>2, <2>3
  <2>5. QED
    BY <1>3, <2>3, <2>4
<1>5. QED
  BY <1>1, <1>4

(* Walking n links from the head reaches the object at place n + 1 of the  *)
(* queue's contents, or the end.                                           *)
LEMMA ItemIsOrder ==
  ASSUME Inv, NEW q \in Queues, NEW n \in Nat
  PROVE  Item(mem, q, n) = IF n < Len(order[q]) THEN order[q][n + 1] ELSE NULL
<1> DEFINE L == Len(order[q])
           f == [i \in Nat |-> IF i < L THEN order[q][i + 1] ELSE NULL]
<1>1. L \in Nat /\ \A i \in 1..L : order[q][i] \in Nodes /\ order[q][i] # NULL
  BY QueueAssumption DEF Inv, TypeOK
<1>2. /\ L = 0 => mem.head[q] = NULL
      /\ L > 0 => mem.head[q] = order[q][1]
      /\ \A i \in 1..L : mem.next[order[q][i]] = IF i = L THEN NULL ELSE order[q][i + 1]
  BY DEF Inv, Repr, ForwardLinks
<1> HIDE DEF L
<1>3. \A i \in Nat : f[i] = IF i = 0 THEN mem.head[q]
                            ELSE IF f[i - 1] = NULL THEN NULL ELSE mem.next[f[i - 1]]
  <2> SUFFICES ASSUME NEW i \in Nat
               PROVE  f[i] = IF i = 0 THEN mem.head[q]
                             ELSE IF f[i - 1] = NULL THEN NULL ELSE mem.next[f[i - 1]]
    OBVIOUS
  <2>1. CASE i = 0
    BY <1>1, <1>2, <2>1
  <2>2. CASE i # 0 /\ i - 1 < L
    <3>1. i \in 1..L /\ i - 1 \in Nat
      BY <1>1, <2>2
    <3>2. f[i - 1] = order[q][i] /\ f[i - 1] # NULL
      BY <1>1, <2>2, <3>1
    <3>3. f[i] = IF i = L THEN NULL ELSE order[q][i + 1]
      BY <1>1, <3>1
    <3>4. QED
      BY <1>2, <2>2, <3>1, <3>2, <3>3
  <2>3. CASE i # 0 /\ ~(i - 1 < L)
    <3>1. i - 1 \in Nat /\ f[i - 1] = NULL /\ f[i] = NULL
      BY <1>1, <2>3
    <3>2. QED
      BY <2>3, <3>1
  <2>4. QED
    BY <2>1, <2>2, <2>3
<1>4. Walks(mem, q, f)
  BY <1>3 DEF Walks
<1>5. Item(mem, q, n) = f[n]
  <2> HIDE DEF f
  <2>1. QED
    BY <1>4, ItemIs
<1>6. QED
  BY <1>5 DEF L

(* A queue holds no more objects than there are.                           *)
LEMMA OrderFits ==
  ASSUME Inv, NEW q \in Queues
  PROVE  Len(order[q]) \in Nat /\ Cardinality(Nodes) \in Nat /\ Len(order[q]) <= Cardinality(Nodes)
<1>1. order[q] \in Seq(Nodes) /\ Len(order[q]) \in Nat
  BY DEF Inv, TypeOK
<1>2. Cardinality(Nodes) \in Nat
  BY FiniteAssumption, FS_CardinalityType
<1>3. IsFiniteSet(1..Len(order[q])) /\ Cardinality(1..Len(order[q])) = Len(order[q])
  BY <1>1, FS_Interval
<1>4. ASSUME Cardinality(Nodes) < Len(order[q]) PROVE FALSE
  <2>1. order[q] \in [1..Len(order[q]) -> Nodes]
    BY <1>1
  <2>2. Cardinality(Nodes) < Cardinality(1..Len(order[q]))
    BY <1>3, <1>4
  <2>3. \E i, j \in 1..Len(order[q]) : i # j /\ order[q][i] = order[q][j]
    BY <1>3, <2>1, <2>2, FiniteAssumption, FS_PigeonHole
  <2>4. QED
    BY <2>3 DEF Inv, Repr, OncePerQueue
<1>5. QED
  BY <1>1, <1>2, <1>4

(* A walk from the head ends, and lists the contents in order.             *)
LEMMA ListingIs ==
  ASSUME Inv, NEW q \in Queues
  PROVE  Acyclic(mem, q) /\ Listing(mem, q) = order[q]
<1> DEFINE L == Len(order[q])
           N == Cardinality(Nodes)
<1>1. L \in Nat /\ N \in Nat /\ L <= N /\ order[q] \in Seq(Nodes)
  BY OrderFits DEF Inv, TypeOK
<1>2. NodesOf(mem) = Nodes
  BY DEF Inv, TypeOK, NodesOf
<1>3. \A i \in Nat : Item(mem, q, i) = IF i < L THEN order[q][i + 1] ELSE NULL
  BY ItemIsOrder
<1>4. \A i \in 1..L : order[q][i] # NULL
  BY <1>1, QueueAssumption
<1> HIDE DEF L, N
<1>5. Acyclic(mem, q)
  BY <1>1, <1>2, <1>3 DEF Acyclic, N
<1>6. {i \in 0..N : Item(mem, q, i) # NULL} = 0..(L - 1)
  <2>1. ASSUME NEW i \in Int PROVE i \in 0..N /\ Item(mem, q, i) # NULL <=> i \in 0..(L - 1)
    <3>1. CASE i \in 0..(L - 1)
      <4>1. i \in Nat /\ i < L /\ i + 1 \in 1..L /\ i \in 0..N
        BY <1>1, <3>1
      <4>2. QED
        BY <1>3, <1>4, <3>1, <4>1
    <3>2. CASE i \in Nat /\ ~(i < L)
      BY <1>1, <1>3, <3>2
    <3>3. CASE i \notin Nat
      BY <1>1, <3>3
    <3>4. QED
      BY <1>1, <3>1, <3>2, <3>3
  <2>2. QED
    BY <2>1, <1>1
<1>7. Length(mem, q) = L
  <2>1. Cardinality(0..(L - 1)) = L
    BY <1>1, FS_Interval
  <2>2. QED
    BY <1>2, <1>6, <2>1 DEF Length, N
<1>8. Listing(mem, q) = [i \in 1..L |-> order[q][i]]
  <2>1. \A i \in 1..L : Item(mem, q, i - 1) = order[q][i]
    <3>1. \A i \in 1..L : i - 1 \in Nat /\ i - 1 < L /\ (i - 1) + 1 = i
      BY <1>1
    <3>2. QED
      BY <1>3, <3>1
  <2>2. QED
    BY <1>7, <2>1 DEF Listing
<1>9. order[q] = [i \in 1..L |-> order[q][i]]
  BY <1>1 DEF L
<1>10. QED
  BY <1>5, <1>8, <1>9

(* Whatever sequence of calls is made, walking a queue from its head (as   *)
(* size() and operator<< do) ends and meets exactly the objects added and  *)
(* not yet taken, in queue order.                                          *)
THEOREM QueueListing == Spec => []ListingIsOrder
<1>1. Inv => ListingIsOrder
  BY ListingIs DEF ListingIsOrder
<1>2. QED
  BY <1>1, QueueRepresentation, PTL DEF Inv

(* The refinement mapping: what walking each queue lists.                  *)
Items == [q \in Queues |-> Listing(mem, q)]

(* The refinement mapping, what a walk of each queue lists, is what the    *)
(* queue should contain, in the current state and in the next.             *)
LEMMA ItemsAreOrder == Inv => Items = order
<1> SUFFICES ASSUME Inv PROVE Items = order
  OBVIOUS
<1>1. \A q \in Queues : Listing(mem, q) = order[q]
  BY ListingIs
<1>2. order = [q \in Queues |-> order[q]]
  BY DEF Inv, TypeOK
<1>3. QED
  BY <1>1, <1>2 DEF Items

LEMMA PrimedItems == (Inv => Items = order)'
  BY ItemsAreOrder, PTL

(* add() and push() are AddBack and AddFront of the abstract queues.       *)
LEMMA AddRefines ==
  ASSUME Inv, Inv', NEW q \in Queues, NEW x \in Nodes,
         AddItem(q, x) \/ PushItem(q, x)
  PROVE  F!Next
<1>1. Items = order /\ Items' = order'
  BY ItemsAreOrder, PrimedItems
<1>2. ~Queued(x)
  BY DEF AddItem, PushItem
<1>3. F!Unqueued(x)
  BY <1>1, <1>2 DEF Queued, Elems, F!Unqueued, Items
<1>4. CASE AddItem(q, x)
  <2>1. order' = [order EXCEPT ![q] = Append(order[q], x)]
    BY <1>4 DEF AddItem
  <2>2. Items' = [Items EXCEPT ![q] = Append(Items[q], x)]
    BY <1>1, <2>1
  <2>3. F!AddBack(q, x)
    BY <1>3, <2>2 DEF F!AddBack, Items
  <2>4. QED
    BY <2>3 DEF F!Next
<1>5. CASE PushItem(q, x)
  <2>1. order' = [order EXCEPT ![q] = <<x>> \o order[q]]
    BY <1>5 DEF PushItem
  <2>2. Items' = [Items EXCEPT ![q] = <<x>> \o Items[q]]
    BY <1>1, <2>1
  <2>3. F!AddFront(q, x)
    BY <1>3, <2>2 DEF F!AddFront, Items
  <2>4. QED
    BY <2>3 DEF F!Next
<1>6. QED
  BY <1>4, <1>5

(* Two ways to write a sequence without its k-th element.                  *)
LEMMA WithoutIsDropAt ==
  ASSUME NEW S, NEW s \in Seq(S), NEW k \in 1..Len(s)
  PROVE  F!Without(s, k) = DropAt(s, k)
<1> DEFINE a == SubSeq(s, 1, k - 1)
           b == SubSeq(s, k + 1, Len(s))
<1>1. a \in Seq(S) /\ Len(a) = k - 1 /\ \A j \in 1..(k - 1) : a[j] = s[j]
  OBVIOUS
<1>2. b \in Seq(S) /\ Len(b) = Len(s) - k /\ \A j \in 1..(Len(s) - k) : b[j] = s[k + j]
  OBVIOUS
<1>3. F!Without(s, k) = a \o b
  BY DEF F!Without
<1> HIDE DEF a, b
<1>4. /\ a \o b \in Seq(S) /\ Len(a \o b) = Len(s) - 1
      /\ \A j \in 1..(Len(s) - 1) : (a \o b)[j] = IF j < k THEN s[j] ELSE s[j + 1]
  <2>1. a \o b \in Seq(S) /\ Len(a \o b) = Len(a) + Len(b)
    BY <1>1, <1>2, ConcatProperties
  <2>2. ASSUME NEW j \in 1..(Len(s) - 1), j < k PROVE (a \o b)[j] = s[j]
    <3>1. j \in 1..(k - 1) /\ j \in 1..Len(a)
      BY <1>1, <2>2
    <3>2. (a \o b)[j] = a[j]
      BY <1>1, <1>2, <3>1
    <3>3. QED
      BY <1>1, <3>1, <3>2
  <2>3. ASSUME NEW j \in 1..(Len(s) - 1), ~(j < k) PROVE (a \o b)[j] = s[j + 1]
    <3> DEFINE i == j - (k - 1)
    <3>1. i \in 1..(Len(s) - k) /\ k + i = j + 1
      BY <2>3
    <3>2. (a \o b)[j] = b[i]
      BY <1>1, <1>2, <2>3
    <3> HIDE DEF i
    <3>3. QED
      BY <1>2, <3>1, <3>2
  <2>4. QED
    BY <1>1, <1>2, <2>1, <2>2, <2>3
<1>5. /\ DropAt(s, k) \in Seq(S) /\ Len(DropAt(s, k)) = Len(s) - 1
      /\ \A j \in 1..(Len(s) - 1) : DropAt(s, k)[j] = IF j < k THEN s[j] ELSE s[j + 1]
  BY DropAtFacts
<1> DEFINE d == DropAt(s, k)
           w == a \o b
<1>6. w \in Seq(S) /\ d \in Seq(S) /\ Len(w) = Len(d)
  BY <1>4, <1>5
<1>7. \A j \in 1..Len(w) : w[j] = d[j]
  BY <1>4, <1>5
<1> HIDE DEF d, w
<1>8. w = d
  BY <1>6, <1>7
<1>9. QED
  BY <1>3, <1>8 DEF d, w

(* Whatever takes the k-th object out is Leave of the abstract queues.     *)
LEMMA DropRefines ==
  ASSUME Inv, Inv', NEW q \in Queues, NEW k \in 1..Len(order[q]),
         order' = [order EXCEPT ![q] = DropAt(order[q], k)]
  PROVE  F!Next
<1>1. Items = order /\ Items' = order'
  BY ItemsAreOrder, PrimedItems
<1>2. order[q] \in Seq(Nodes)
  BY DEF Inv, TypeOK
<1>3. Items' = [Items EXCEPT ![q] = F!Without(Items[q], k)]
  BY <1>1, <1>2, WithoutIsDropAt
<1>4. k \in 1..Len(Items[q])
  BY <1>1
<1>5. F!Leave(q, k)
  BY <1>3 DEF F!Leave, Items
<1>6. QED
  BY <1>4, <1>5 DEF F!Next, Items

(* Every step of the pointer queue is a step of the abstract queues, or    *)
(* leaves them alone.                                                      *)
LEMMA StepRefines == Inv /\ Inv' /\ [Next]_vars => [F!Next]_Items
<1> SUFFICES ASSUME Inv, Inv', [Next]_vars PROVE F!Next \/ Items' = Items
  OBVIOUS
<1>1. Items = order /\ Items' = order'
  BY ItemsAreOrder, PrimedItems
<1>2. ASSUME NEW q \in Queues, NEW x \in Nodes,
             order' = [order EXCEPT ![q] = Drop(order[q], x)]
      PROVE  F!Next \/ Items' = Items
  <2>1. CASE x \in Elems(order[q])
    <3>1. IndexOf(order[q], x) \in 1..Len(order[q])
      BY <2>1 DEF IndexOf, Elems
    <3>2. QED
      BY <1>2, <2>1, <3>1, DropRefines DEF Drop
  <2>2. CASE x \notin Elems(order[q])
    <3>1. order \in [Queues -> Seq(Nodes)]
      BY DEF Inv, TypeOK
    <3>2. order' = order
      BY <1>2, <2>2, <3>1 DEF Drop
    <3>3. QED
      BY <1>1, <3>2
  <2>3. QED
    BY <2>1, <2>2
<1>3. ASSUME NEW q \in Queues, NEW x \in Nodes, AddItem(q, x) \/ PushItem(q, x)
      PROVE  F!Next
  BY <1>3, AddRefines
<1>4. ASSUME NEW q \in Queues, NEW x \in Nodes, FindHead(q, x) \/ RemoveExact(q, x)
      PROVE  F!Next \/ Items' = Items
  <2>1. order' = [order EXCEPT ![q] = Drop(order[q], x)]
    BY <1>4 DEF FindHead, RemoveExact, RemoveItem
  <2>2. QED
    BY <1>2, <2>1
<1>5. ASSUME NEW q \in Queues, GetHead(q)
      PROVE  F!Next
  <2>1. mem.head[q] # NULL /\ order' = [order EXCEPT ![q] = DropAt(order[q], 1)]
    BY <1>5 DEF GetHead
  <2>2. Len(order[q]) \in Nat /\ Len(order[q]) # 0
    BY <2>1 DEF Inv, TypeOK, Repr, ForwardLinks
  <2>3. 1 \in 1..Len(order[q])
    BY <2>2
  <2>4. QED
    BY <2>1, <2>3, DropRefines
<1>6. CASE FindStep
  <2>1. \/ order' = order
        \/ order' = [order EXCEPT ![walk.q] = Drop(order[walk.q], walk.x)]
    BY <1>6 DEF FindStep
  <2>2. walk.q \in Queues /\ walk.x \in Nodes
    BY <1>6 DEF FindStep, Inv, TypeOK
  <2>3. QED
    BY <1>1, <1>2, <2>1, <2>2
<1>7. ASSUME order' = order PROVE Items' = Items
  BY <1>1, <1>7
<1>8. QED
  BY <1>3, <1>4, <1>5, <1>6, <1>7 DEF Next, Common, FindStart, vars

(* The pointer queue of Queue.C, read by walking its links, behaves as the *)
(* queues that Queue.h promises: for any number of objects and queues, as  *)
(* long as remove() is used on objects whose back link is exact.           *)
THEOREM QueueImplementsFifo == Spec => ImplementsFifo
<1>1. Init => F!Init
  <2> SUFFICES ASSUME Init PROVE Items = [q \in Queues |-> <<>>]
    BY DEF F!Init, Items
  <2>1. Items = order
    BY InitRepr, ItemsAreOrder
  <2>2. QED
    BY <2>1 DEF Init
<1>2. Inv /\ Inv' /\ [Next]_vars => [F!Next]_Items
  BY StepRefines
<1>3. Spec => []Inv
  BY QueueRepresentation, PTL DEF Inv
<1>4. QED
  BY <1>1, <1>2, <1>3, PTL DEF Spec, ImplementsFifo, F!Spec, Items
=============================================================================
