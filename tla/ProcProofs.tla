----------------------------- MODULE ProcProofs -----------------------------
(***************************************************************************)
(* What the operators of Proc do to the ready queues: lemmas for the       *)
(* proofs about Kernel, for any number of threads, processors and          *)
(* priorities.                                                             *)
(*                                                                         *)
(* The queues are described by tickets instead of by sequences: a thread   *)
(* draws a number when it is queued, larger than all drawn before, and a   *)
(* queue links its members in the order of their numbers.  Taking a        *)
(* thread out, from wherever it stands, leaves all other numbers as they   *)
(* are.                                                                    *)
(***************************************************************************)
EXTENDS Proc, PriHeap, WalkTheorems, FiniteSetTheorems

Node == AllThreads \cup Procs
AnyQ == ReadyQueues \cup {ProcQ}
ThreadPtr == AllThreads \cup {NULL}
ProcPtr == Procs \cup {NULL}

(* Links of threads lead to threads, links of processors to processors.    *)
MemOK(m) ==
  /\ m \in [next : [Node -> Node \cup {NULL}], prev : [Node -> Node \cup {NULL}],
            head : [AnyQ -> Node \cup {NULL}], tail : [AnyQ -> Node \cup {NULL}]]
  /\ \A t \in AllThreads : m.next[t] \in ThreadPtr /\ m.prev[t] \in ThreadPtr
  /\ \A p \in Procs : m.next[p] \in ProcPtr /\ m.prev[p] \in ProcPtr
  /\ \A q \in ReadyQueues : m.head[q] \in ThreadPtr /\ m.tail[q] \in ThreadPtr
  /\ m.head[ProcQ] \in ProcPtr /\ m.tail[ProcQ] \in ProcPtr

(* Queue q of memory m links the members M in the order of their tickets.  *)
Line(m, q, M, k) ==
  /\ m.head[q] = NULL => M = {}
  /\ m.head[q] # NULL => m.head[q] \in M /\ \A u \in M : k[m.head[q]] <= k[u]
  /\ m.tail[q] = NULL => M = {}
  /\ m.tail[q] # NULL => m.tail[q] \in M /\ \A u \in M : k[u] <= k[m.tail[q]]
  /\ \A t \in M : m.next[t] = NULL => \A u \in M : k[u] <= k[t]
  /\ \A t \in M : m.next[t] # NULL =>
       /\ m.next[t] \in M /\ k[t] < k[m.next[t]]
       /\ \A u \in M : k[u] <= k[t] \/ k[m.next[t]] <= k[u]

(* Tickets are drawn once.                                                 *)
Distinct(M, k) == \A t, u \in M : k[t] = k[u] => t = u

LEMMA Distinctness ==
  /\ NULL \notin Node /\ AllThreads \cap Procs = {} /\ MAIN \in AllThreads
  /\ IsFiniteSet(AllThreads) /\ IsFiniteSet(Node)
  /\ ProcQ \notin ReadyQueues
  /\ \A p \in Procs, i \in Prios : ReadyQ(p, i) \in ReadyQueues
  /\ \A p, r \in Procs : \A i, j \in Prios :
       ReadyQ(p, i) = ReadyQ(r, j) <=> Owner[p] = Owner[r] /\ i = j
<1>1. NULL \notin Node /\ AllThreads \cap Procs = {} /\ MAIN \in AllThreads
  BY ProcAssumption DEF Node, AllThreads
<1>2. IsFiniteSet(AllThreads)
  BY ProcAssumption, FS_AddElement DEF AllThreads
<1>3. IsFiniteSet(Node)
  BY ProcAssumption, <1>2, FS_Union DEF Node
<1>4. ProcQ \notin ReadyQueues
  BY ProcAssumption DEF ProcQ, ReadyQueues, ReadyQ
<1>5. \A p \in Procs, i \in Prios : ReadyQ(p, i) \in ReadyQueues
  BY DEF ReadyQueues
<1>6. \A p, r \in Procs : \A i, j \in Prios :
       ReadyQ(p, i) = ReadyQ(r, j) <=> Owner[p] = Owner[r] /\ i = j
  BY DEF ReadyQ
<1>7. QED
  BY <1>1, <1>2, <1>3, <1>4, <1>5, <1>6

-----------------------------------------------------------------------------
(* Memory.                                                                 *)

(* Memory z is m with the new member x linked behind the last of q.        *)
Appended(m, z, q, M, x) ==
  /\ z.head[q] = IF m.tail[q] = NULL THEN x ELSE m.head[q]
  /\ z.tail[q] = x /\ z.next[x] = NULL
  /\ m.tail[q] # NULL => z.next[m.tail[q]] = x
  /\ \A y \in M : y # m.tail[q] => z.next[y] = m.next[y]

(* A ticket nobody holds yet, larger than all that were drawn.             *)
Fresh(D, k, n) == n \in Nat /\ k \in [D -> Nat] /\ \A y \in D : k[y] < n

LEMMA AppendLine ==
  ASSUME NEW D \in {AllThreads, Procs}, NEW m, NEW z, NEW q, NEW x \in D,
         NEW M \in SUBSET D, x \notin M, NEW k, NEW n, Fresh(D, k, n),
         Line(m, q, M, k), Distinct(M, k), Appended(m, z, q, M, x)
  PROVE  Line(z, q, M \cup {x}, [k EXCEPT ![x] = n]) /\ Distinct(M \cup {x}, [k EXCEPT ![x] = n])
<1> DEFINE t == m.tail[q]
           l == [k EXCEPT ![x] = n]
<1>0. /\ z.head[q] = (IF t = NULL THEN x ELSE m.head[q])
      /\ z.tail[q] = x /\ z.next[x] = NULL /\ (t # NULL => z.next[t] = x)
      /\ \A y \in M : y # t => z.next[y] = m.next[y]
  BY DEF Appended
<1>a. n \in Nat /\ k \in [D -> Nat] /\ \A y \in D : k[y] < n
  BY DEF Fresh
<1>1. NULL \notin D
  BY Distinctness DEF Node
<1>2. t # NULL => t \in M /\ t # x /\ t \in D
  BY DEF Line
<1>3. /\ \A y \in D : l[y] = IF y = x THEN n ELSE k[y]
      /\ \A y \in D : l[y] \in Nat /\ l[y] <= n /\ k[y] \in Nat /\ k[y] < n
      /\ \A y \in M : y \in D /\ y # x /\ l[y] = k[y]
      /\ l[x] = n
  BY <1>1, <1>a
<1> HIDE DEF l
<1>4. Distinct(M \cup {x}, l)
  BY <1>3 DEF Distinct
<1>5. Line(z, q, M \cup {x}, l)
  <2>1. CASE t = NULL
    <3>1. M = {}
      BY <2>1 DEF Line
    <3>2. z.head[q] = x /\ z.tail[q] = x /\ z.next[x] = NULL
      BY <1>0, <2>1
    <3>3. QED
      BY <1>1, <1>3, <3>1, <3>2 DEF Line
  <2>2. CASE t # NULL
    <3>1. z.head[q] = m.head[q] /\ z.tail[q] = x /\ z.next[x] = NULL /\ z.next[t] = x
      BY <1>0, <2>2
    <3>2. m.head[q] \in M /\ \A u \in M : k[m.head[q]] <= k[u] /\ k[u] <= k[t]
      BY <1>2, <2>2 DEF Line
    <3>3. ASSUME NEW y \in M, y # t
          PROVE  /\ z.next[y] = m.next[y]
                 /\ z.next[y] # NULL /\ z.next[y] \in M /\ k[y] < k[z.next[y]]
                 /\ \A u \in M : k[u] <= k[y] \/ k[z.next[y]] <= k[u]
      <4>1. z.next[y] = m.next[y]
        BY <1>0, <3>3
      <4>2. ~(k[t] <= k[y])
        <5>1. k[y] <= k[t] /\ k[y] # k[t] /\ k[y] \in Nat /\ k[t] \in Nat
          BY <1>2, <1>3, <2>2, <3>2, <3>3 DEF Distinct
        <5>2. QED
          BY <5>1
      <4>3. m.next[y] # NULL
        BY <1>2, <2>2, <4>2, <3>3 DEF Line
      <4>4. QED
        BY <4>1, <4>3, <3>3 DEF Line
    <3>4. /\ z.head[q] # NULL /\ z.tail[q] # NULL
          /\ z.head[q] \in M \cup {x} /\ z.tail[q] \in M \cup {x}
      BY <1>1, <1>3, <3>1, <3>2
    <3>5. \A u \in M \cup {x} : l[z.head[q]] <= l[u] /\ l[u] <= l[z.tail[q]]
      BY <1>3, <3>1, <3>2
    <3>6. ASSUME NEW y \in M \cup {x}, z.next[y] = NULL PROVE \A u \in M \cup {x} : l[u] <= l[y]
      <4>1. y = x
        BY <1>1, <1>2, <2>2, <3>1, <3>3, <3>6
      <4>2. QED
        BY <1>3, <4>1
    <3>7. ASSUME NEW y \in M \cup {x}, z.next[y] # NULL
          PROVE  /\ z.next[y] \in M \cup {x} /\ l[y] < l[z.next[y]]
                 /\ \A u \in M \cup {x} : l[u] <= l[y] \/ l[z.next[y]] <= l[u]
      <4>1. y \in M
        BY <3>1, <3>7
      <4>2. CASE y = t
        <5>1. z.next[y] = x
          BY <3>1, <4>2
        <5>2. \A u \in M : l[u] <= l[y]
          BY <1>3, <3>2, <4>1, <4>2
        <5>3. QED
          BY <1>3, <4>1, <5>1, <5>2
      <4>3. CASE y # t
        <5>1. /\ z.next[y] \in M /\ k[y] < k[z.next[y]]
              /\ \A u \in M : k[u] <= k[y] \/ k[z.next[y]] <= k[u]
          BY <3>3, <4>1, <4>3
        <5>2. l[z.next[y]] <= l[x] /\ l[y] = k[y] /\ l[z.next[y]] = k[z.next[y]]
          BY <1>3, <4>1, <5>1
        <5>3. QED
          BY <1>3, <5>1, <5>2
      <4>4. QED
        BY <4>2, <4>3
    <3>8. QED
      BY <3>4, <3>5, <3>6, <3>7 DEF Line
  <2>3. QED
    BY <2>1, <2>2
<1>6. QED
  BY <1>4, <1>5 DEF l

(* Queue::add on a ready queue: the new member stands last.                *)
LEMMA AddLine ==
  ASSUME NEW m, MemOK(m), NEW q \in ReadyQueues, NEW x \in AllThreads,
         NEW M \in SUBSET AllThreads, x \notin M,
         NEW k \in [AllThreads -> Nat], NEW n \in Nat, \A t \in AllThreads : k[t] < n,
         Line(m, q, M, k), Distinct(M, k)
  PROVE  LET z == Add(m, q, x)
             l == [k EXCEPT ![x] = n]
         IN  /\ MemOK(z)
             /\ Line(z, q, M \cup {x}, l)
             /\ Distinct(M \cup {x}, l)
             /\ \A t \in AllThreads : t # x /\ t \notin M => z.next[t] = m.next[t] /\ z.prev[t] = m.prev[t]
             /\ \A r \in AnyQ \ {q} : z.head[r] = m.head[r] /\ z.tail[r] = m.tail[r]
             /\ \A p \in Procs : z.next[p] = m.next[p] /\ z.prev[p] = m.prev[p]
<1> DEFINE z == Add(m, q, x)
           l == [k EXCEPT ![x] = n]
           t == m.tail[q]
<1>1. /\ x \in Node /\ q \in AnyQ /\ t \in ThreadPtr /\ x # NULL /\ x \notin Procs /\ t \notin Procs
      /\ q # ProcQ /\ AllThreads \subseteq Node /\ Procs \subseteq Node
  BY Distinctness DEF MemOK, Node, AnyQ, ThreadPtr
<1>2. /\ m.next \in [Node -> Node \cup {NULL}] /\ m.prev \in [Node -> Node \cup {NULL}]
      /\ m.head \in [AnyQ -> Node \cup {NULL}] /\ m.tail \in [AnyQ -> Node \cup {NULL}]
  BY DEF MemOK
<1>3. /\ z.next = (IF t = NULL THEN [m.next EXCEPT ![x] = NULL] ELSE [m.next EXCEPT ![x] = NULL, ![t] = x])
      /\ z.prev = [m.prev EXCEPT ![x] = t]
      /\ z.head = (IF t = NULL THEN [m.head EXCEPT ![q] = x] ELSE m.head)
      /\ z.tail = [m.tail EXCEPT ![q] = x]
      /\ z = [next |-> z.next, prev |-> z.prev, head |-> z.head, tail |-> z.tail]
  BY DEF Add
<1> HIDE DEF z
<1>4. t # NULL => t \in M /\ t # x /\ t \in AllThreads /\ t \in Node
  BY <1>1 DEF Line, ThreadPtr
<1>5. /\ z.next \in [Node -> Node \cup {NULL}] /\ z.prev \in [Node -> Node \cup {NULL}]
      /\ z.head \in [AnyQ -> Node \cup {NULL}] /\ z.tail \in [AnyQ -> Node \cup {NULL}]
  BY <1>1, <1>2, <1>3, <1>4 DEF ThreadPtr, Node
<1>6. /\ \A y \in Node : z.next[y] = IF t # NULL /\ y = t THEN x ELSE IF y = x THEN NULL ELSE m.next[y]
      /\ \A y \in Node : z.prev[y] = IF y = x THEN t ELSE m.prev[y]
      /\ \A r \in AnyQ : z.head[r] = IF t = NULL /\ r = q THEN x ELSE m.head[r]
      /\ \A r \in AnyQ : z.tail[r] = IF r = q THEN x ELSE m.tail[r]
  BY <1>1, <1>2, <1>3, <1>4
<1>7. MemOK(z)
  <2>1. z \in [next : [Node -> Node \cup {NULL}], prev : [Node -> Node \cup {NULL}],
               head : [AnyQ -> Node \cup {NULL}], tail : [AnyQ -> Node \cup {NULL}]]
    BY <1>3, <1>5
  <2>2. \A y \in AllThreads : z.next[y] \in ThreadPtr /\ z.prev[y] \in ThreadPtr
    BY <1>1, <1>6 DEF MemOK, ThreadPtr
  <2>3. \A p \in Procs : z.next[p] \in ProcPtr /\ z.prev[p] \in ProcPtr
    BY <1>1, <1>6 DEF MemOK
  <2>4. \A r \in ReadyQueues : z.head[r] \in ThreadPtr /\ z.tail[r] \in ThreadPtr
    BY <1>1, <1>6 DEF MemOK, ThreadPtr, AnyQ
  <2>5. z.head[ProcQ] \in ProcPtr /\ z.tail[ProcQ] \in ProcPtr
    BY <1>1, <1>6 DEF MemOK, AnyQ
  <2>6. QED
    BY <2>1, <2>2, <2>3, <2>4, <2>5 DEF MemOK
<1> HIDE DEF t
<1>8. Line(z, q, M \cup {x}, l) /\ Distinct(M \cup {x}, l)
  <2>1. Appended(m, z, q, M, x)
    <3>1. /\ t = m.tail[q] /\ z.head[q] = (IF t = NULL THEN x ELSE m.head[q]) /\ z.tail[q] = x
          /\ z.next[x] = NULL /\ (t # NULL => z.next[t] = x)
      BY <1>1, <1>4, <1>6 DEF t
    <3>2. \A y \in M : y # t => z.next[y] = m.next[y]
      BY <1>1, <1>6
    <3>3. QED
      BY <3>1, <3>2 DEF Appended
  <2>2. Fresh(AllThreads, k, n)
    BY DEF Fresh
  <2>3. AllThreads \in {AllThreads, Procs}
    OBVIOUS
  <2>4. QED
    BY <2>1, <2>2, <2>3, AppendLine
<1>11. \A y \in AllThreads : y # x /\ y \notin M => z.next[y] = m.next[y] /\ z.prev[y] = m.prev[y]
  BY <1>1, <1>4, <1>6
<1>12. \A r \in AnyQ \ {q} : z.head[r] = m.head[r] /\ z.tail[r] = m.tail[r]
  BY <1>6
<1>13. \A p \in Procs : z.next[p] = m.next[p] /\ z.prev[p] = m.prev[p]
  BY <1>1, <1>4, <1>6 DEF Node
<1>14. QED
  BY <1>7, <1>8, <1>11, <1>12, <1>13 DEF z, l

(* Memory z is m with the member x of q out of the queue.                  *)
Cut(m, z, q, M, x) ==
  /\ z.head[q] = IF m.head[q] = x THEN m.next[x] ELSE m.head[q]
  /\ m.tail[q] # x => z.tail[q] = m.tail[q]
  /\ m.tail[q] = x => IF m.head[q] = x THEN z.tail[q] = NULL
                      ELSE z.tail[q] \in M /\ m.next[z.tail[q]] = x
  /\ \A y \in M \ {x} : z.next[y] = IF m.next[y] = x THEN m.next[x] ELSE m.next[y]

(* The last member, and only that, has no successor; every member but the  *)
(* first has a predecessor.                                                *)
LEMMA LineFacts ==
  ASSUME NEW D \in {AllThreads, Procs}, NEW m, NEW q, NEW M \in SUBSET D, NEW k \in [D -> Nat],
         Line(m, q, M, k), Distinct(M, k), NEW x \in M
  PROVE  /\ m.head[q] \in M /\ m.tail[q] \in M
         /\ m.next[x] = NULL <=> x = m.tail[q]
         /\ m.next[x] # x /\ m.next[x] # m.head[q]
         /\ \A y \in M : m.next[x] # NULL /\ m.next[x] = m.next[y] => x = y
<1>1. NULL \notin M
  BY Distinctness DEF Node
<1>2. m.head[q] \in M /\ m.tail[q] \in M
  BY <1>1 DEF Line
<1>3. \A u \in M : k[u] \in Nat /\ k[m.head[q]] <= k[u] /\ k[u] <= k[m.tail[q]]
  BY <1>1 DEF Line
<1>4. m.next[x] = NULL => x = m.tail[q]
  <2>1. m.next[x] = NULL => k[m.tail[q]] <= k[x]
    BY <1>2 DEF Line
  <2>2. QED
    BY <1>2, <1>3, <2>1 DEF Distinct
<1>5. ASSUME m.next[x] # NULL
      PROVE  /\ x # m.tail[q] /\ m.next[x] # x /\ m.next[x] # m.head[q]
             /\ \A y \in M : m.next[x] = m.next[y] => x = y
  <2>1. m.next[x] \in M /\ k[x] < k[m.next[x]] /\ k[x] \in Nat /\ k[m.next[x]] \in Nat
    BY <1>3, <1>5 DEF Line
  <2>2. x # m.tail[q] /\ m.next[x] # x /\ m.next[x] # m.head[q]
    BY <1>2, <1>3, <2>1
  <2>3. ASSUME NEW y \in M, m.next[x] = m.next[y] PROVE x = y
    <3>1. /\ k[y] < k[m.next[x]] /\ k[y] \in Nat
          /\ k[y] <= k[x] \/ k[m.next[x]] <= k[y]
          /\ k[x] <= k[y] \/ k[m.next[x]] <= k[x]
      BY <1>3, <1>5, <2>3 DEF Line
    <3>2. k[x] = k[y]
      BY <2>1, <3>1
    <3>3. QED
      BY <3>2 DEF Distinct
  <2>4. QED
    BY <2>2, <2>3
<1>6. m.next[x] = NULL => m.next[x] # x /\ m.next[x] # m.head[q]
  BY <1>1, <1>2
<1>7. QED
  BY <1>2, <1>4, <1>5, <1>6

LEMMA CutLine ==
  ASSUME NEW D \in {AllThreads, Procs}, NEW m, NEW z, NEW q, NEW M \in SUBSET D, NEW k \in [D -> Nat],
         Line(m, q, M, k), Distinct(M, k), NEW x \in M, Cut(m, z, q, M, x)
  PROVE  Line(z, q, M \ {x}, k)
<1>1. NULL \notin M
  BY Distinctness DEF Node
<1>2. \A y \in M : /\ m.head[q] \in M /\ m.tail[q] \in M
                   /\ m.next[y] = NULL <=> y = m.tail[q]
                   /\ m.next[y] # y /\ m.next[y] # m.head[q]
                   /\ \A w \in M : m.next[y] # NULL /\ m.next[y] = m.next[w] => y = w
  BY LineFacts
<1>3. \A u \in M : k[u] \in Nat /\ k[m.head[q]] <= k[u] /\ k[u] <= k[m.tail[q]]
  BY <1>1 DEF Line
<1>4. \A y \in M : m.next[y] # NULL =>
        /\ m.next[y] \in M /\ k[y] < k[m.next[y]]
        /\ \A u \in M : k[u] <= k[y] \/ k[m.next[y]] <= k[u]
  BY DEF Line
<1>5. \A u, v \in M : k[u] = k[v] => u = v
  BY DEF Distinct
<1>6. CASE m.head[q] = x
  <2>1. z.head[q] = m.next[x]
    BY <1>6 DEF Cut
  <2>2. \A y \in M \ {x} : z.next[y] = m.next[y]
    BY <1>2, <1>6 DEF Cut
  <2>3. z.tail[q] = IF m.tail[q] = x THEN NULL ELSE m.tail[q]
    BY <1>6 DEF Cut
  <2>4. m.tail[q] = x => M = {x}
    <3>1. ASSUME m.tail[q] = x, NEW u \in M PROVE u = x
      <4>1. k[u] = k[x]
        BY <1>3, <1>6, <3>1
      <4>2. QED
        BY <1>5, <4>1
    <3>2. QED
      BY <3>1
  <2>5. CASE m.tail[q] = x
    <3>1. z.head[q] = NULL /\ z.tail[q] = NULL /\ M \ {x} = {}
      BY <1>2, <2>1, <2>3, <2>4, <2>5
    <3>2. QED
      BY <3>1 DEF Line
  <2>6. CASE m.tail[q] # x
    <3>1. z.head[q] # NULL /\ z.tail[q] # NULL /\ z.tail[q] = m.tail[q]
          /\ z.head[q] \in M \ {x} /\ z.tail[q] \in M \ {x}
      BY <1>1, <1>2, <1>4, <2>1, <2>3, <2>6
    <3>2. \A u \in M \ {x} : k[z.head[q]] <= k[u] /\ k[u] <= k[z.tail[q]]
      <4>1. ASSUME NEW u \in M \ {x} PROVE k[z.head[q]] <= k[u]
        <5>1. ~(k[u] <= k[x])
          <6>1. k[x] <= k[u] /\ k[x] # k[u] /\ k[x] \in Nat /\ k[u] \in Nat
            BY <1>3, <1>5, <1>6, <4>1
          <6>2. QED
            BY <6>1
        <5>2. QED
          BY <1>4, <2>1, <3>1, <4>1, <5>1
      <4>2. QED
        BY <1>3, <3>1, <4>1
    <3>3. \A y \in M \ {x} : z.next[y] = NULL => \A u \in M \ {x} : k[u] <= k[y]
      BY <1>2, <1>3, <2>2
    <3>4. ASSUME NEW y \in M \ {x}, z.next[y] # NULL
          PROVE  /\ z.next[y] \in M \ {x} /\ k[y] < k[z.next[y]]
                 /\ \A u \in M \ {x} : k[u] <= k[y] \/ k[z.next[y]] <= k[u]
      BY <1>2, <1>4, <1>6, <2>2, <3>4
    <3>5. QED
      BY <3>1, <3>2, <3>3, <3>4 DEF Line
  <2>7. QED
    BY <2>5, <2>6
<1>7. CASE m.head[q] # x
  <2>1. z.head[q] = m.head[q]
    BY <1>7 DEF Cut
  <2>2. \A y \in M \ {x} : z.next[y] = IF m.next[y] = x THEN m.next[x] ELSE m.next[y]
    BY DEF Cut
  <2>3. IF m.tail[q] = x THEN z.tail[q] \in M /\ m.next[z.tail[q]] = x ELSE z.tail[q] = m.tail[q]
    BY <1>7 DEF Cut
  <2>4. /\ z.head[q] \in M \ {x} /\ z.tail[q] \in M \ {x}
        /\ z.head[q] # NULL /\ z.tail[q] # NULL
    BY <1>1, <1>2, <1>7, <2>1, <2>3
  <2>5. \A u \in M \ {x} : k[z.head[q]] <= k[u]
    BY <1>3, <2>1
  <2>6. ASSUME NEW u \in M \ {x} PROVE k[u] <= k[z.tail[q]]
    <3>1. CASE m.tail[q] # x
      BY <1>3, <2>3, <3>1
    <3>2. CASE m.tail[q] = x
      <4>1. k[u] <= k[z.tail[q]] \/ k[x] <= k[u]
        BY <1>1, <1>4, <2>3, <3>2
      <4>2. ~(k[x] <= k[u])
        <5>1. k[u] <= k[x] /\ k[u] # k[x] /\ k[x] \in Nat /\ k[u] \in Nat
          BY <1>3, <1>5, <2>6, <3>2
        <5>2. QED
          BY <5>1
      <4>3. QED
        BY <4>1, <4>2
    <3>3. QED
      BY <3>1, <3>2
  <2>7. ASSUME NEW y \in M \ {x}
        PROVE  /\ z.next[y] = NULL => \A u \in M \ {x} : k[u] <= k[y]
               /\ z.next[y] # NULL =>
                    /\ z.next[y] \in M \ {x} /\ k[y] < k[z.next[y]]
                    /\ \A u \in M \ {x} : k[u] <= k[y] \/ k[z.next[y]] <= k[u]
    <3>1. CASE m.next[y] # x
      <4>1. z.next[y] = m.next[y]
        BY <2>2, <2>7, <3>1
      <4>2. CASE m.next[y] = NULL
        BY <1>2, <1>3, <4>1, <4>2
      <4>3. CASE m.next[y] # NULL
        BY <1>4, <3>1, <4>1, <4>3
      <4>4. QED
        BY <4>2, <4>3
    <3>2. CASE m.next[y] = x
      <4>1. z.next[y] = m.next[x] /\ x # NULL
        BY <1>1, <2>2, <2>7, <3>2
      <4>2. k[y] < k[x] /\ \A u \in M : k[u] <= k[y] \/ k[x] <= k[u]
        BY <1>4, <3>2, <4>1
      <4>3. \A u \in M \ {x} : k[u] <= k[y] \/ ~(k[u] <= k[x])
        <5>1. ASSUME NEW u \in M \ {x}, k[u] <= k[x] PROVE k[u] <= k[y]
          <6>1. k[u] # k[x] /\ k[u] \in Nat /\ k[x] \in Nat
            BY <1>3, <1>5, <5>1
          <6>2. QED
            BY <4>2, <5>1, <6>1
        <5>2. QED
          BY <5>1
      <4>4. CASE m.next[x] = NULL
        <5>1. \A u \in M : k[u] <= k[x]
          BY <1>2, <1>3, <4>4
        <5>2. QED
          BY <4>1, <4>3, <4>4, <5>1
      <4>5. CASE m.next[x] # NULL
        <5>1. /\ m.next[x] \in M \ {x} /\ k[x] < k[m.next[x]]
              /\ \A u \in M : k[u] <= k[x] \/ k[m.next[x]] <= k[u]
          BY <1>2, <1>4, <4>5
        <5>2. k[y] < k[m.next[x]]
          BY <1>3, <4>2, <5>1
        <5>3. \A u \in M \ {x} : k[u] <= k[y] \/ k[m.next[x]] <= k[u]
          BY <4>3, <5>1
        <5>4. QED
          BY <4>1, <4>5, <5>1, <5>2, <5>3
      <4>6. QED
        BY <4>4, <4>5
    <3>3. QED
      BY <3>1, <3>2
  <2>8. QED
    BY <2>4, <2>5, <2>6, <2>7 DEF Line
<1>8. QED
  BY <1>6, <1>7

(* Queue::get() on a ready queue: the first member leaves, its links are   *)
(* cleared, and nothing changes outside of the queue.                      *)
LEMMA GetLine ==
  ASSUME NEW m, MemOK(m), NEW q \in ReadyQueues, NEW M \in SUBSET AllThreads,
         NEW k \in [AllThreads -> Nat], Line(m, q, M, k), Distinct(M, k), M # {}
  PROVE  LET z == Get(m, q)
             x == m.head[q]
         IN  /\ x \in M
             /\ MemOK(z)
             /\ Line(z, q, M \ {x}, k)
             /\ z.next[x] = NULL /\ z.prev[x] = NULL
             /\ \A t \in AllThreads : t \notin M => z.next[t] = m.next[t] /\ z.prev[t] = m.prev[t]
             /\ \A r \in AnyQ \ {q} : z.head[r] = m.head[r] /\ z.tail[r] = m.tail[r]
             /\ \A p \in Procs : z.next[p] = m.next[p] /\ z.prev[p] = m.prev[p]
<1> DEFINE z == Get(m, q)
           x == m.head[q]
           n == m.next[x]
<1>1. PICK w \in M : TRUE
  OBVIOUS
<1>2. m.head[q] \in M /\ m.tail[q] \in M
  BY <1>1, LineFacts
<1>3. /\ m.next[x] = NULL <=> x = m.tail[q]
      /\ m.next[x] # x /\ m.next[x] # m.head[q]
      /\ \A y \in M : m.next[x] # NULL /\ m.next[x] = m.next[y] => x = y
  BY <1>2, LineFacts
<1>4. /\ x \in AllThreads /\ x \in Node /\ q \in AnyQ /\ x # NULL /\ x \notin Procs
      /\ n \in ThreadPtr /\ n \notin Procs /\ (n # NULL => n \in Node) /\ q # ProcQ
      /\ AllThreads \subseteq Node /\ Procs \subseteq Node
  BY <1>2, Distinctness DEF MemOK, Node, AnyQ, ThreadPtr
<1>5. n # NULL => n \in M
  BY <1>2 DEF Line
<1>6. /\ m.next \in [Node -> Node \cup {NULL}] /\ m.prev \in [Node -> Node \cup {NULL}]
      /\ m.head \in [AnyQ -> Node \cup {NULL}] /\ m.tail \in [AnyQ -> Node \cup {NULL}]
  BY DEF MemOK
<1>7. /\ z.next = [m.next EXCEPT ![x] = NULL]
      /\ z.prev = (IF n = NULL THEN [m.prev EXCEPT ![x] = NULL] ELSE [m.prev EXCEPT ![n] = NULL, ![x] = NULL])
      /\ z.head = [m.head EXCEPT ![q] = n]
      /\ z.tail = (IF n = NULL THEN [m.tail EXCEPT ![q] = NULL] ELSE m.tail)
      /\ z = [next |-> z.next, prev |-> z.prev, head |-> z.head, tail |-> z.tail]
  BY <1>4 DEF Get
<1> HIDE DEF z
<1>8. /\ z.next \in [Node -> Node \cup {NULL}] /\ z.prev \in [Node -> Node \cup {NULL}]
      /\ z.head \in [AnyQ -> Node \cup {NULL}] /\ z.tail \in [AnyQ -> Node \cup {NULL}]
  BY <1>4, <1>6, <1>7
<1>9. /\ \A y \in Node : z.next[y] = IF y = x THEN NULL ELSE m.next[y]
      /\ \A y \in Node : z.prev[y] = IF y = x \/ (n # NULL /\ y = n) THEN NULL ELSE m.prev[y]
      /\ \A r \in AnyQ : z.head[r] = IF r = q THEN n ELSE m.head[r]
      /\ \A r \in AnyQ : z.tail[r] = IF n = NULL /\ r = q THEN NULL ELSE m.tail[r]
  BY <1>4, <1>6, <1>7
<1>10. MemOK(z)
  <2>1. z \in [next : [Node -> Node \cup {NULL}], prev : [Node -> Node \cup {NULL}],
               head : [AnyQ -> Node \cup {NULL}], tail : [AnyQ -> Node \cup {NULL}]]
    BY <1>7, <1>8
  <2>2. \A y \in AllThreads : z.next[y] \in ThreadPtr /\ z.prev[y] \in ThreadPtr
    BY <1>4, <1>9 DEF MemOK, ThreadPtr
  <2>3. \A p \in Procs : z.next[p] \in ProcPtr /\ z.prev[p] \in ProcPtr
    BY <1>4, <1>9 DEF MemOK, ProcPtr
  <2>4. \A r \in ReadyQueues : z.head[r] \in ThreadPtr /\ z.tail[r] \in ThreadPtr
    BY <1>4, <1>9 DEF MemOK, ThreadPtr, AnyQ
  <2>5. z.head[ProcQ] \in ProcPtr /\ z.tail[ProcQ] \in ProcPtr
    BY <1>4, <1>9 DEF MemOK, AnyQ, ProcPtr
  <2>6. QED
    BY <2>1, <2>2, <2>3, <2>4, <2>5 DEF MemOK
<1>11. Cut(m, z, q, M, x)
  <2>1. \A y \in M \ {x} : z.next[y] = m.next[y] /\ m.next[y] # x
    <3>1. \A y \in M : m.next[y] # m.head[q]
      BY LineFacts
    <3>2. QED
      BY <1>4, <1>9, <3>1
  <2>2. z.head[q] = n /\ (m.tail[q] # x => z.tail[q] = m.tail[q]) /\ (m.tail[q] = x => z.tail[q] = NULL)
    BY <1>3, <1>4, <1>9
  <2>3. QED
    BY <2>1, <2>2 DEF Cut
<1>12. Line(z, q, M \ {x}, k)
  BY <1>2, <1>11, CutLine
<1>13. z.next[x] = NULL /\ z.prev[x] = NULL
  BY <1>4, <1>9
<1>14. \A t \in AllThreads : t \notin M => z.next[t] = m.next[t] /\ z.prev[t] = m.prev[t]
  BY <1>2, <1>4, <1>5, <1>9
<1>15. \A r \in AnyQ \ {q} : z.head[r] = m.head[r] /\ z.tail[r] = m.tail[r]
  BY <1>9
<1>16. \A p \in Procs : z.next[p] = m.next[p] /\ z.prev[p] = m.prev[p]
  BY <1>4, <1>9
<1>17. QED
  BY <1>2, <1>10, <1>12, <1>13, <1>14, <1>15, <1>16 DEF z

(* Item walks from the head, one link at a time.                           *)
LEMMA ItemSteps ==
  ASSUME NEW m, NEW q
  PROVE  /\ Item(m, q, 0) = m.head[q]
         /\ \A i \in Nat : Item(m, q, i + 1) = Follow(NULL, m.next, Item(m, q, i))
<1> DEFINE Eqn(g) == g = [i \in Nat |-> IF i = 0 THEN m.head[q]
                            ELSE IF g[i - 1] = NULL THEN NULL ELSE m.next[g[i - 1]]]
           at == CHOOSE g : Eqn(g)
<1>1. \A n \in Nat : Item(m, q, n) = at[n]
  BY DEF Item
<1>2. Eqn(at)
  <2>1. \E f : Walk(NULL, m.head[q], m.next, f)
    BY WalkExists
  <2>2. \E f : Eqn(f)
    BY <2>1 DEF Walk
  <2>3. QED
    BY <2>2
<1> HIDE DEF at
<1>3. at[0] = m.head[q]
  BY <1>2
<1>4. ASSUME NEW i \in Nat PROVE at[i + 1] = Follow(NULL, m.next, at[i])
  <2>1. i + 1 \in Nat /\ i + 1 # 0 /\ (i + 1) - 1 = i
    OBVIOUS
  <2>2. at[i + 1] = IF at[i] = NULL THEN NULL ELSE m.next[at[i]]
    BY <1>2, <2>1
  <2>3. QED
    BY <2>2 DEF Follow
<1>5. QED
  BY <1>1, <1>3, <1>4

(* Walking a queue meets exactly its members, ends, and ends at its tail.  *)
LEMMA LineContents ==
  ASSUME NEW D \in {AllThreads, Procs}, NEW m, MemOK(m), NEW q, NEW M \in SUBSET D,
         NEW k \in [D -> Nat], Line(m, q, M, k), Distinct(M, k)
  PROVE  /\ Contents(m, q) = M
         /\ Acyclic(m, q)
         /\ m.tail[q] = IF Length(m, q) = 0 THEN NULL ELSE Item(m, q, Length(m, q) - 1)
<1> DEFINE f(i) == Item(m, q, i)
           N == Cardinality(Node)
<1>a. \A y \in M : /\ m.head[q] \in M /\ m.tail[q] \in M
                   /\ m.next[y] = NULL <=> y = m.tail[q]
                   /\ m.next[y] # y /\ m.next[y] # m.head[q]
                   /\ \A w \in M : m.next[y] # NULL /\ m.next[y] = m.next[w] => y = w
  BY LineFacts
<1>1. NodesOf(m) = Node /\ NULL \notin M /\ N \in Nat /\ IsFiniteSet(Node) /\ M \subseteq Node
  BY Distinctness, FS_CardinalityType DEF NodesOf, MemOK, Node
<1>2. f(0) = m.head[q] /\ \A i \in Nat : f(i + 1) = IF f(i) = NULL THEN NULL ELSE m.next[f(i)]
  BY ItemSteps DEF Follow
<1>3. /\ m.head[q] \in M \cup {NULL} /\ (m.head[q] # NULL => \A u \in M : k[m.head[q]] <= k[u])
      /\ (m.head[q] = NULL => M = {})
  BY DEF Line
<1>4. \A t \in M : /\ m.next[t] = NULL => \A u \in M : k[u] <= k[t]
                   /\ m.next[t] # NULL =>
                        /\ m.next[t] \in M /\ k[t] < k[m.next[t]]
                        /\ \A u \in M : k[u] <= k[t] \/ k[m.next[t]] <= k[u]
  BY DEF Line
<1> HIDE DEF f, N
<1>5. ASSUME NEW i \in Nat PROVE f(i) \in M \cup {NULL}
  <2> DEFINE T == {j \in Nat : f(j) \notin M \cup {NULL}}
  <2>1. SUFFICES ASSUME T # {} PROVE FALSE
    BY <1>5
  <2>2. PICK j \in T : \A l \in T : j <= l
    BY <2>1, LeastNat
  <2>3. j # 0
    BY <1>2, <1>3, <2>2
  <2>4. j - 1 \in Nat /\ (j - 1) + 1 = j /\ ~(j <= j - 1)
    BY <2>2, <2>3
  <2>5. f(j - 1) \in M \cup {NULL}
    BY <2>2, <2>4
  <2>6. f(j) \in M \cup {NULL}
    BY <1>2, <1>4, <2>4, <2>5
  <2>7. QED
    BY <2>2, <2>6
<1>6. ASSUME NEW i \in Nat, NEW j \in Nat, i < j, f(j) # NULL
      PROVE  f(i) \in M /\ f(j) \in M /\ k[f(i)] < k[f(j)]
  <2> DEFINE T == {l \in Nat : i < l /\ f(l) # NULL /\ ~(f(i) \in M /\ k[f(i)] < k[f(l)])}
  <2>1. SUFFICES ASSUME T # {} PROVE FALSE
    BY <1>5, <1>6
  <2>2. PICK l \in T : \A e \in T : l <= e
    BY <2>1, LeastNat
  <2>3. l - 1 \in Nat /\ (l - 1) + 1 = l /\ ~(l <= l - 1) /\ (i = l - 1 \/ i < l - 1)
    BY <2>2
  <2>4. f(l - 1) # NULL /\ f(l) = m.next[f(l - 1)] /\ f(l) # NULL
    BY <1>2, <2>2, <2>3
  <2>5. f(l - 1) \in M /\ f(l) \in M
    BY <1>5, <2>2, <2>3, <2>4
  <2>6. k[f(l - 1)] < k[f(l)]
    BY <1>4, <2>4, <2>5
  <2>7. i < l - 1 => f(i) \in M /\ k[f(i)] < k[f(l - 1)]
    BY <2>2, <2>3, <2>4
  <2>8. k[f(l - 1)] \in Nat /\ k[f(l)] \in Nat /\ (f(i) \in M => k[f(i)] \in Nat)
    BY <2>5
  <2>9. f(i) \in M /\ k[f(i)] < k[f(l)]
    BY <2>3, <2>5, <2>6, <2>7, <2>8
  <2>10. QED
    BY <2>2, <2>9
<1>7. f(N) = NULL
  <2>1. SUFFICES ASSUME f(N) # NULL PROVE FALSE
    OBVIOUS
  <2>2. ASSUME NEW i \in 0..N PROVE f(i) \in M
    <3>1. i \in Nat /\ (i = N \/ i < N)
      BY <1>1
    <3>2. QED
      BY <1>1, <1>5, <1>6, <2>1, <3>1
  <2> DEFINE g == [i \in 0..N |-> f(i)]
  <2>3. g \in [0..N -> Node] /\ \A i \in 0..N : g[i] = f(i)
    BY <1>1, <2>2
  <2>4. IsFiniteSet(0..N) /\ Cardinality(Node) < Cardinality(0..N)
    BY <1>1, FS_Interval DEF N
  <2> HIDE DEF g
  <2>5. \E i, j \in 0..N : i # j /\ g[i] = g[j]
    BY <1>1, <2>3, <2>4, FS_PigeonHole
  <2>6. PICK i \in 0..N, j \in 0..N : i # j /\ g[i] = g[j]
    BY <2>5
  <2>7. /\ i \in Nat /\ j \in Nat /\ f(i) = f(j) /\ f(i) # NULL /\ f(i) \in M
        /\ k[f(i)] \in Nat /\ (i < j \/ j < i)
    BY <1>1, <2>2, <2>3, <2>6
  <2>8. QED
    BY <1>6, <2>7
<1>8. PICK K \in Nat : f(K) = NULL /\ K <= N /\ \A i \in Nat : i < K => f(i) # NULL
  <2> DEFINE T == {i \in Nat : f(i) = NULL}
  <2>1. N \in T
    BY <1>1, <1>7
  <2>2. PICK K \in T : \A i \in T : K <= i
    BY <2>1, LeastNat
  <2>3. \A i \in Nat : i < K => i \notin T
    BY <2>2
  <2>4. QED
    BY <2>1, <2>2, <2>3
<1>9. \A i \in Nat : f(i) # NULL <=> i < K
  <2>1. ASSUME NEW i \in Nat, ~(i < K), f(i) # NULL PROVE FALSE
    <3>1. K < i
      BY <1>8, <2>1
    <3>2. f(K) \in M
      BY <1>6, <2>1, <3>1
    <3>3. QED
      BY <1>1, <1>8, <3>2
  <2>2. QED
    BY <1>8, <2>1
<1>10. ASSUME NEW u \in M PROVE \E i \in Nat : i < K /\ f(i) = u
  <2>1. f(0) # NULL /\ K # 0 /\ K - 1 \in Nat /\ K - 1 < K /\ (K - 1) + 1 = K
    BY <1>2, <1>3, <1>8
  <2>2. f(K - 1) \in M /\ f(K - 1) # NULL /\ m.next[f(K - 1)] = NULL
    BY <1>2, <1>5, <1>8, <2>1
  <2>3. k[u] <= k[f(K - 1)]
    BY <1>4, <2>2
  <2> DEFINE T == {i \in Nat : i < K /\ k[u] <= k[f(i)]}
  <2>4. K - 1 \in T
    BY <2>1, <2>3
  <2>5. PICK i \in T : \A j \in T : i <= j
    BY <2>4, LeastNat
  <2>6. i \in Nat /\ i < K /\ f(i) # NULL /\ f(i) \in M /\ k[u] <= k[f(i)] /\ k[u] \in Nat /\ k[f(i)] \in Nat
    BY <1>5, <1>8, <2>5
  <2>7. CASE i = 0
    <3>1. k[f(i)] <= k[u]
      BY <1>2, <1>3, <2>6, <2>7
    <3>2. k[f(i)] = k[u]
      BY <2>6, <3>1
    <3>3. QED
      BY <2>6, <3>2 DEF Distinct
  <2>8. CASE i # 0
    <3>1. i - 1 \in Nat /\ i - 1 < K /\ (i - 1) + 1 = i /\ ~(i <= i - 1)
      BY <2>6, <2>8
    <3>2. f(i - 1) \in M /\ f(i - 1) # NULL /\ f(i) = m.next[f(i - 1)]
      BY <1>2, <1>5, <1>8, <3>1
    <3>3. ~(k[u] <= k[f(i - 1)])
      BY <2>5, <3>1
    <3>4. k[f(i)] <= k[u]
      BY <1>4, <2>6, <3>2, <3>3
    <3>5. k[f(i)] = k[u]
      BY <2>6, <3>4
    <3>6. QED
      BY <2>6, <3>5 DEF Distinct
  <2>9. QED
    BY <2>7, <2>8
<1>11. Contents(m, q) = M
  <2>1. Contents(m, q) = {f(i) : i \in 0..N} \ {NULL}
    BY <1>1 DEF Contents, f, N
  <2>2. \A i \in Nat : i < K => i \in 0..N
    BY <1>1, <1>8
  <2>3. \A i \in 0..N : i \in Nat
    BY <1>1
  <2>4. M \subseteq {f(i) : i \in 0..N} \ {NULL}
    BY <1>1, <1>10, <2>2
  <2>5. {f(i) : i \in 0..N} \ {NULL} \subseteq M
    BY <1>5, <2>3
  <2>6. QED
    BY <2>1, <2>4, <2>5
<1>12. Acyclic(m, q)
  BY <1>1, <1>7 DEF Acyclic, f, N
<1>13. Length(m, q) = K
  <2>1. Length(m, q) = Cardinality({i \in 0..N : f(i) # NULL})
    BY <1>1 DEF Length, f, N
  <2>2. {i \in 0..N : f(i) # NULL} = 0..(K - 1)
    <3>1. ASSUME NEW i \in Int PROVE i \in 0..N /\ f(i) # NULL <=> i \in 0..(K - 1)
      <4>1. i \in Nat \/ i \notin Nat
        OBVIOUS
      <4>2. QED
        BY <1>1, <1>8, <1>9, <4>1
    <3>2. QED
      BY <1>1, <1>8, <3>1
  <2>3. Cardinality(0..(K - 1)) = K
    BY <1>8, FS_Interval
  <2>4. QED
    BY <2>1, <2>2, <2>3
<1>14. m.tail[q] = IF K = 0 THEN NULL ELSE f(K - 1)
  <2>1. CASE K = 0
    BY <1>2, <1>3, <1>8, <2>1 DEF Line
  <2>2. CASE K # 0
    <3>1. K - 1 \in Nat /\ K - 1 < K /\ (K - 1) + 1 = K
      BY <1>8, <2>2
    <3>2. f(K - 1) \in M /\ f(K - 1) # NULL /\ m.next[f(K - 1)] = NULL
      BY <1>2, <1>5, <1>8, <3>1
    <3>3. m.next[f(K - 1)] = NULL <=> f(K - 1) = m.tail[q]
      BY <1>a, <3>2
    <3>4. QED
      BY <2>2, <3>2, <3>3
  <2>3. QED
    BY <2>1, <2>2
<1>15. QED
  BY <1>11, <1>12, <1>13, <1>14 DEF f

(* Queue::get(t) on a ready queue takes a member out, from wherever it     *)
(* stands; apart from it and the queue nothing changes.                    *)
LEMMA GetItemLine ==
  ASSUME NEW m, MemOK(m), NEW q \in ReadyQueues, NEW M \in SUBSET AllThreads,
         NEW k \in [AllThreads -> Nat], Line(m, q, M, k), Distinct(M, k), NEW x \in M
  PROVE  LET z == GetItem(m, q, x)
         IN  /\ MemOK(z)
             /\ Line(z, q, M \ {x}, k)
             /\ \A t \in AllThreads : t \notin M => z.next[t] = m.next[t] /\ z.prev[t] = m.prev[t]
             /\ \A r \in AnyQ \ {q} : z.head[r] = m.head[r] /\ z.tail[r] = m.tail[r]
             /\ \A p \in Procs : z.next[p] = m.next[p] /\ z.prev[p] = m.prev[p]
<1> DEFINE z == GetItem(m, q, x)
           before == {c \in Contents(m, q) : m.next[c] = x}
           c == CHOOSE b \in before : TRUE
<1>a. \A y \in M : /\ m.head[q] \in M /\ m.tail[q] \in M
                   /\ m.next[y] = NULL <=> y = m.tail[q]
                   /\ m.next[y] # y /\ m.next[y] # m.head[q]
                   /\ \A w \in M : m.next[y] # NULL /\ m.next[y] = m.next[w] => y = w
  BY LineFacts
<1>1. CASE m.head[q] = x
  <2>1. z = Get(m, q)
    BY <1>1 DEF GetItem
  <2> HIDE DEF z
  <2>2. /\ MemOK(Get(m, q))
        /\ Line(Get(m, q), q, M \ {m.head[q]}, k)
        /\ \A t \in AllThreads : t \notin M => Get(m, q).next[t] = m.next[t] /\ Get(m, q).prev[t] = m.prev[t]
        /\ \A r \in AnyQ \ {q} : Get(m, q).head[r] = m.head[r] /\ Get(m, q).tail[r] = m.tail[r]
        /\ \A p \in Procs : Get(m, q).next[p] = m.next[p] /\ Get(m, q).prev[p] = m.prev[p]
    BY GetLine
  <2>3. /\ MemOK(z)
        /\ Line(z, q, M \ {x}, k)
        /\ \A t \in AllThreads : t \notin M => z.next[t] = m.next[t] /\ z.prev[t] = m.prev[t]
        /\ \A r \in AnyQ \ {q} : z.head[r] = m.head[r] /\ z.tail[r] = m.tail[r]
        /\ \A p \in Procs : z.next[p] = m.next[p] /\ z.prev[p] = m.prev[p]
    BY <1>1, <2>1, <2>2
  <2>4. QED
    BY <2>3 DEF z
<1>2. CASE m.head[q] # x
  <2>1. Contents(m, q) = M
    BY LineContents
  <2>2. \E b \in M : m.next[b] = x
    <3> DEFINE T == {k[b] : b \in {w \in M : k[w] < k[x]}}
    <3>1. m.head[q] \in M /\ k[m.head[q]] < k[x]
      <4>1. m.head[q] \in M
        BY LineFacts
      <4>2. k[m.head[q]] <= k[x] /\ k[m.head[q]] # k[x] /\ k[m.head[q]] \in Nat /\ k[x] \in Nat
        BY <1>2, <4>1, Distinctness DEF Line, Distinct, Node
      <4>3. QED
        BY <4>1, <4>2
    <3> DEFINE G == {k[x] - k[b] : b \in {w \in M : k[w] < k[x]}}
    <3>2. G \in SUBSET Nat /\ G # {}
      <4>1. k[x] - k[m.head[q]] \in G
        BY <3>1
      <4>2. \A b \in M : k[b] < k[x] => k[x] - k[b] \in Nat
        OBVIOUS
      <4>3. QED
        BY <4>1, <4>2
    <3>3. PICK g \in G : \A h \in G : g <= h
      BY <3>2, LeastNat
    <3>4. PICK b \in M : k[b] < k[x] /\ g = k[x] - k[b]
      BY <3>3
    <3>5. \A w \in M : k[w] < k[x] => k[w] <= k[b]
      <4>1. ASSUME NEW w \in M, k[w] < k[x] PROVE k[w] <= k[b]
        <5>1. k[x] - k[w] \in G
          BY <4>1
        <5>2. g <= k[x] - k[w] /\ k[w] \in Nat /\ k[b] \in Nat /\ k[x] \in Nat
          BY <3>3, <5>1
        <5>3. QED
          BY <3>4, <5>2
      <4>2. QED
        BY <4>1
    <3> HIDE DEF G
    <3>6. k[b] \in Nat /\ k[x] \in Nat /\ ~(k[x] <= k[b])
      BY <3>4
    <3>7. m.next[b] # NULL
      BY <3>4, <3>6 DEF Line
    <3>8. m.next[b] \in M /\ k[b] < k[m.next[b]] /\ k[m.next[b]] <= k[x] /\ k[m.next[b]] \in Nat
      BY <3>4, <3>6, <3>7 DEF Line
    <3>9. k[m.next[b]] = k[x]
      BY <3>5, <3>6, <3>8
    <3>10. QED
      BY <3>4, <3>8, <3>9 DEF Distinct
  <2>3. before # {} /\ c \in M /\ m.next[c] = x
    BY <2>1, <2>2
  <2>4. z = Unlink(m, q, c, x)
    BY <1>2, <2>3 DEF GetItem
  <2> HIDE DEF before, c
  <2>5. /\ c \in Node /\ x \in Node /\ q \in AnyQ /\ c \in AllThreads /\ q # ProcQ /\ c # x
        /\ AllThreads \subseteq Node /\ Procs \subseteq Node /\ c \notin Procs
        /\ m.next[x] \in ThreadPtr
    BY <2>3, Distinctness, LineFacts DEF Node, AnyQ, MemOK
  <2>6. /\ m.next \in [Node -> Node \cup {NULL}] /\ m.prev \in [Node -> Node \cup {NULL}]
        /\ m.head \in [AnyQ -> Node \cup {NULL}] /\ m.tail \in [AnyQ -> Node \cup {NULL}]
    BY DEF MemOK
  <2>7. /\ z.next = [m.next EXCEPT ![c] = m.next[x]] /\ z.prev = m.prev /\ z.head = m.head
        /\ z.tail = (IF m.next[x] = NULL THEN [m.tail EXCEPT ![q] = c] ELSE m.tail)
        /\ z = [next |-> z.next, prev |-> z.prev, head |-> z.head, tail |-> z.tail]
    BY <2>4 DEF Unlink
  <2> HIDE DEF z
  <2>8. /\ \A y \in Node : z.next[y] = IF y = c THEN m.next[x] ELSE m.next[y]
        /\ \A r \in AnyQ : z.tail[r] = IF m.next[x] = NULL /\ r = q THEN c ELSE m.tail[r]
    BY <2>5, <2>6, <2>7
  <2>9. MemOK(z)
    <3>1. z \in [next : [Node -> Node \cup {NULL}], prev : [Node -> Node \cup {NULL}],
                 head : [AnyQ -> Node \cup {NULL}], tail : [AnyQ -> Node \cup {NULL}]]
      BY <2>5, <2>6, <2>7
    <3>2. \A y \in AllThreads : z.next[y] \in ThreadPtr /\ z.prev[y] \in ThreadPtr
      BY <2>5, <2>7, <2>8 DEF MemOK
    <3>3. \A p \in Procs : z.next[p] \in ProcPtr /\ z.prev[p] \in ProcPtr
      BY <2>5, <2>7, <2>8 DEF MemOK
    <3>4. \A r \in ReadyQueues : z.head[r] \in ThreadPtr /\ z.tail[r] \in ThreadPtr
      BY <2>5, <2>7, <2>8 DEF MemOK, ThreadPtr, AnyQ
    <3>5. z.head[ProcQ] \in ProcPtr /\ z.tail[ProcQ] \in ProcPtr
      BY <2>5, <2>7, <2>8 DEF MemOK, AnyQ
    <3>6. QED
      BY <3>1, <3>2, <3>3, <3>4, <3>5 DEF MemOK
  <2>10. Cut(m, z, q, M, x)
    <3>1. m.next[x] = NULL <=> x = m.tail[q]
      BY <1>a
    <3>2. \A y \in M : m.next[y] = x => y = c
      <4>1. x # NULL
        BY Distinctness DEF Node
      <4>2. \A y \in M : m.next[c] # NULL /\ m.next[c] = m.next[y] => c = y
        BY <1>a, <2>3
      <4>3. QED
        BY <2>3, <4>1, <4>2
    <3>3. \A y \in M \ {x} : z.next[y] = IF m.next[y] = x THEN m.next[x] ELSE m.next[y]
      BY <2>3, <2>5, <2>8, <3>2
    <3>4. QED
      BY <1>2, <2>3, <2>5, <2>7, <2>8, <3>1, <3>3 DEF Cut
  <2>11. Line(z, q, M \ {x}, k)
    BY <2>10, CutLine
  <2>12. \A t \in AllThreads : t \notin M => z.next[t] = m.next[t] /\ z.prev[t] = m.prev[t]
    BY <2>3, <2>5, <2>7, <2>8
  <2>13. \A r \in AnyQ \ {q} : z.head[r] = m.head[r] /\ z.tail[r] = m.tail[r]
    BY <2>7, <2>8
  <2>14. \A p \in Procs : z.next[p] = m.next[p] /\ z.prev[p] = m.prev[p]
    BY <2>5, <2>7, <2>8
  <2>15. QED
    BY <2>9, <2>11, <2>12, <2>13, <2>14 DEF z
<1>3. QED
  BY <1>1, <1>2

(* A queue that is not touched stays as it is.                             *)
LEMMA LineSame ==
  ASSUME NEW m, NEW z, NEW r, NEW M, NEW k, NEW l, Line(m, r, M, k),
         z.head[r] = m.head[r], z.tail[r] = m.tail[r],
         \A t \in M : z.next[t] = m.next[t] /\ l[t] = k[t]
  PROVE  Line(z, r, M, l)
<1>1. /\ m.head[r] # NULL => m.head[r] \in M
      /\ m.tail[r] # NULL => m.tail[r] \in M
      /\ \A t \in M : m.next[t] # NULL => m.next[t] \in M
  BY DEF Line
<1>2. QED
  BY <1>1 DEF Line

-----------------------------------------------------------------------------
(* Objects.                                                                *)

Times == 0..(TimeMod - 1)
ObjOK(s) ==
  /\ s \in [mem : {s.mem}, count : [Procs -> Int],
            tstate : [AllThreads -> {"None", "Run", "Ready", "Busy", "Done"}],
            prio : [AllThreads -> Prios], proc : [AllThreads -> ProcPtr],
            time : [AllThreads -> Times], start : [AllThreads -> Times],
            pstate : [Procs -> {"None", "Waiting", "Running", "Busy"}],
            bt : [Procs -> Threads \cup {NULL}], bad : BOOLEAN]
  /\ MemOK(s.mem)

(* The ready threads, those that belong in queue q, and those that a       *)
(* processor that uses the queues of o can find.                           *)
ReadySet(s) == {t \in AllThreads : s.tstate[t] = "Ready"}
Members(s, q) == {t \in ReadySet(s) : ReadyQ(s.proc[t], s.prio[t]) = q}
OnOwner(s, o) == {t \in ReadySet(s) : Owner[s.proc[t]] = o}

Homed(s) == \A t \in ReadySet(s) : s.proc[t] \in Procs
Counted(s) == \A o \in Procs : s.count[o] = Cardinality(OnOwner(s, o))
Clean(s) == \A t \in AllThreads : s.tstate[t] \notin {"Ready", "Done"} => Linkable(s.mem, t)
Tickets(s, k, n) ==
  /\ k \in [AllThreads -> Nat] /\ n \in Nat /\ \A t \in AllThreads : k[t] < n
  /\ Distinct(ReadySet(s), k)
  /\ \A q \in ReadyQueues : Line(s.mem, q, Members(s, q), k)

(* The ready queues hold exactly the ready threads, in the order in which  *)
(* they were added, and are counted right.                                 *)
Good(s) == ObjOK(s) /\ Homed(s) /\ Counted(s) /\ Clean(s) /\ \E k, n : Tickets(s, k, n)

SameProcs(m, z) ==
  /\ z.head[ProcQ] = m.head[ProcQ] /\ z.tail[ProcQ] = m.tail[ProcQ]
  /\ \A p \in Procs : z.next[p] = m.next[p] /\ z.prev[p] = m.prev[p]

LEMMA MembersFacts ==
  ASSUME NEW s, NEW q
  PROVE  /\ Members(s, q) \in SUBSET AllThreads /\ Members(s, q) \subseteq ReadySet(s)
         /\ \A k : Distinct(ReadySet(s), k) => Distinct(Members(s, q), k)
BY DEF Members, ReadySet, Distinct

(* The queue a ready thread is in.                                         *)
LEMMA QueueOf ==
  ASSUME NEW s, ObjOK(s), Homed(s), NEW t \in ReadySet(s)
  PROVE  /\ s.proc[t] \in Procs /\ s.prio[t] \in Prios
         /\ ReadyQ(s.proc[t], s.prio[t]) \in ReadyQueues
         /\ t \in Members(s, ReadyQ(s.proc[t], s.prio[t]))
<1>1. s.proc[t] \in Procs /\ s.prio[t] \in Prios
  BY DEF ObjOK, Homed, ReadySet
<1>2. QED
  BY <1>1, Distinctness DEF Members

(* Proc::add_ready.                                                        *)
LEMMA AddReadyGood ==
  ASSUME NEW s, Good(s), NEW p \in Procs, NEW t \in AllThreads,
         s.proc[t] \in Procs, Owner[s.proc[t]] = Owner[p]
  PROVE  LET z == AddReady(s, p, t)
         IN  /\ Good(z) /\ SameProcs(s.mem, z.mem)
             /\ z.tstate = IF s.tstate[t] \in {"Run", "Busy"} THEN [s.tstate EXCEPT ![t] = "Ready"]
                           ELSE s.tstate
             /\ z.prio = s.prio /\ z.proc = s.proc /\ z.time = s.time /\ z.start = s.start
             /\ z.pstate = s.pstate /\ z.bt = s.bt /\ z.bad = s.bad
<1> DEFINE z == AddReady(s, p, t)
           q == ReadyQ(p, s.prio[t])
           M == Members(s, q)
           a == Add(s.mem, q, t)
<1>1. CASE s.tstate[t] \notin {"Run", "Busy"}
  <2>1. z = s
    BY <1>1 DEF AddReady
  <2>2. QED
    BY <1>1, <2>1 DEF SameProcs
<1>2. CASE s.tstate[t] \in {"Run", "Busy"}
  <2>1. /\ ObjOK(s) /\ Homed(s) /\ Counted(s) /\ Clean(s) /\ MemOK(s.mem)
        /\ s.tstate \in [AllThreads -> {"None", "Run", "Ready", "Busy", "Done"}]
        /\ s.prio \in [AllThreads -> Prios] /\ s.count \in [Procs -> Int]
        /\ s.proc \in [AllThreads -> ProcPtr] /\ s.bad \in BOOLEAN
    BY DEF Good, ObjOK
  <2>2. PICK k, n : Tickets(s, k, n)
    BY DEF Good
  <2>3. /\ q \in ReadyQueues /\ Owner[p] \in Procs /\ q = ReadyQ(s.proc[t], s.prio[t])
        /\ t \notin ReadySet(s) /\ t \notin M /\ Linkable(s.mem, t) /\ Owner[Owner[p]] = Owner[p]
    BY <1>2, <2>1, Distinctness, ProcAssumption DEF Members, ReadySet, Clean, ReadyQ
  <2>4. /\ z.mem = a /\ z.tstate = [s.tstate EXCEPT ![t] = "Ready"]
        /\ z.count = [s.count EXCEPT ![Owner[p]] = @ + 1] /\ z.bad = s.bad
        /\ z.prio = s.prio /\ z.proc = s.proc /\ z.time = s.time /\ z.start = s.start
        /\ z.pstate = s.pstate /\ z.bt = s.bt
        /\ z = [mem |-> z.mem, count |-> z.count, tstate |-> z.tstate, prio |-> z.prio,
                proc |-> z.proc, time |-> z.time, start |-> z.start, pstate |-> z.pstate,
                bt |-> z.bt, bad |-> z.bad]
    <3>1. z = [[s EXCEPT !.mem = a, !.bad = s.bad \/ ~Linkable(s.mem, t)]
                  EXCEPT !.tstate[t] = "Ready", !.count[Owner[p]] = @ + 1]
      BY <1>2 DEF AddReady, Enqueue
    <3>2. (s.bad \/ ~Linkable(s.mem, t)) = s.bad
      BY <2>1, <2>3
    <3> HIDE DEF a, z, q
    <3>3. QED
      BY <2>1, <3>1, <3>2 DEF ObjOK
  <2> DEFINE l == [k EXCEPT ![t] = n]
  <2>5. /\ k \in [AllThreads -> Nat] /\ n \in Nat /\ (\A u \in AllThreads : k[u] < n)
        /\ Distinct(ReadySet(s), k) /\ Distinct(M, k) /\ Line(s.mem, q, M, k)
        /\ M \in SUBSET AllThreads
    BY <2>2, <2>3, MembersFacts DEF Tickets
  <2> HIDE DEF z, q, M
  <2>6. /\ MemOK(a) /\ Line(a, q, M \cup {t}, l) /\ Distinct(M \cup {t}, l)
        /\ \A u \in AllThreads : u # t /\ u \notin M => a.next[u] = s.mem.next[u] /\ a.prev[u] = s.mem.prev[u]
        /\ \A r \in AnyQ \ {q} : a.head[r] = s.mem.head[r] /\ a.tail[r] = s.mem.tail[r]
        /\ \A r \in Procs : a.next[r] = s.mem.next[r] /\ a.prev[r] = s.mem.prev[r]
    <3>1. /\ MemOK(s.mem) /\ q \in ReadyQueues /\ t \in AllThreads /\ M \in SUBSET AllThreads
          /\ t \notin M /\ k \in [AllThreads -> Nat] /\ n \in Nat
          /\ (\A u \in AllThreads : k[u] < n) /\ Line(s.mem, q, M, k) /\ Distinct(M, k)
      BY <2>1, <2>3, <2>5
    <3>2. QED
      BY ONLY <3>1, AddLine, ZenonT(30)
  <2> HIDE DEF a
  <2>7. ReadySet(z) = ReadySet(s) \cup {t}
    BY <2>1, <2>4 DEF ReadySet
  <2>8. ObjOK(z)
    <3>1. z.count \in [Procs -> Int] /\ z.tstate \in [AllThreads -> {"None", "Run", "Ready", "Busy", "Done"}]
      BY <2>1, <2>3, <2>4
    <3>2. QED
      BY <2>1, <2>4, <2>6, <3>1 DEF ObjOK
  <2>9. Homed(z)
    BY <2>1, <2>4, <2>7 DEF Homed
  <2>10. Counted(z)
    <3>1. ASSUME NEW o \in Procs PROVE z.count[o] = Cardinality(OnOwner(z, o))
      <4>1. s.count[o] = Cardinality(OnOwner(s, o)) /\ s.count[o] \in Int
        BY <2>1, <3>1 DEF Counted
      <4>2. IsFiniteSet(OnOwner(s, o)) /\ t \notin OnOwner(s, o)
        BY <2>3, Distinctness, FS_Subset DEF OnOwner, ReadySet
      <4>3. OnOwner(z, o) = IF o = Owner[p] THEN OnOwner(s, o) \cup {t} ELSE OnOwner(s, o)
        BY <2>4, <2>7 DEF OnOwner
      <4>4. Cardinality(OnOwner(s, o) \cup {t}) = Cardinality(OnOwner(s, o)) + 1
        BY <4>2, FS_AddElement
      <4>5. z.count[o] = IF o = Owner[p] THEN s.count[o] + 1 ELSE s.count[o]
        BY <2>1, <2>3, <2>4
      <4>6. QED
        BY <4>1, <4>3, <4>4, <4>5
    <3>2. QED
      BY <3>1 DEF Counted
  <2>11. Clean(z)
    <3>1. ASSUME NEW u \in AllThreads, z.tstate[u] \notin {"Ready", "Done"} PROVE Linkable(z.mem, u)
      <4>1. u # t /\ u \notin M /\ s.tstate[u] = z.tstate[u]
        BY <2>1, <2>4, <3>1 DEF M, Members, ReadySet
      <4>2. Linkable(s.mem, u)
        BY <2>1, <3>1, <4>1 DEF Clean
      <4>3. QED
        BY <2>4, <2>6, <4>1, <4>2 DEF Linkable
    <3>2. QED
      BY <3>1 DEF Clean
  <2>12. Tickets(z, l, n + 1)
    <3>1. l \in [AllThreads -> Nat] /\ n + 1 \in Nat /\ \A u \in AllThreads : l[u] < n + 1
      BY <2>5
    <3>2. \A u \in AllThreads : u # t => l[u] = k[u]
      BY <2>5
    <3>3. Distinct(ReadySet(z), l)
      BY <2>5, <2>7 DEF Distinct, ReadySet
    <3> HIDE DEF l
    <3>4. ASSUME NEW r \in ReadyQueues PROVE Line(z.mem, r, Members(z, r), l)
      <4>1. Members(z, r) = IF r = q THEN M \cup {t} ELSE Members(s, r)
        BY <2>3, <2>4, <2>7 DEF Members, M
      <4>2. CASE r = q
        BY <2>4, <2>6, <4>1, <4>2
      <4>3. CASE r # q
        <5>1. Line(s.mem, r, Members(s, r), k)
          BY <2>2 DEF Tickets
        <5>2. z.mem.head[r] = s.mem.head[r] /\ z.mem.tail[r] = s.mem.tail[r]
          BY <2>4, <2>6, <4>3 DEF AnyQ
        <5>3. \A u \in Members(s, r) : z.mem.next[u] = s.mem.next[u] /\ l[u] = k[u]
          <6>1. \A u \in Members(s, r) : u \in AllThreads /\ u # t /\ u \notin M
            BY <2>3, <4>3 DEF Members, M, ReadySet
          <6>2. QED
            BY <2>4, <2>6, <3>2, <6>1
        <5>4. Line(z.mem, r, Members(s, r), l)
          BY <5>1, <5>2, <5>3, LineSame
        <5>5. QED
          BY <4>1, <4>3, <5>4
      <4>4. QED
        BY <4>2, <4>3
    <3>5. QED
      BY <3>1, <3>3, <3>4 DEF Tickets
  <2>13. Good(z)
    BY <2>8, <2>9, <2>10, <2>11, <2>12 DEF Good
  <2>14. SameProcs(s.mem, z.mem)
    <3>1. ProcQ \in AnyQ \ {q}
      BY <2>3, Distinctness DEF AnyQ
    <3>2. QED
      BY <2>4, <2>6, <3>1 DEF SameProcs
  <2>15. QED
    BY <1>2, <2>4, <2>13, <2>14 DEF z
<1>3. QED
  BY <1>1, <1>2

(* The highest priority among those of queues that are not empty.          *)
LEMMA TopPriority ==
  ASSUME NEW F \in SUBSET Prios, F # {}
  PROVE  LET i == CHOOSE i \in F : \A j \in F : j <= i
         IN  i \in F /\ \A j \in F : j <= i
<1>1. NPrio - 1 \in Nat /\ F \in SUBSET (0..(NPrio - 1))
  BY ProcAssumption DEF Prios
<1>2. QED
  BY <1>1, GreatestOf

(* Proc::next_ready: a ready thread of the highest priority that is ready  *)
(* on the queues of p, if any is.                                          *)
LEMMA NextReadyFacts ==
  ASSUME NEW s, Good(s), NEW p \in Procs
  PROVE  LET t == NextReady(s, p)
         IN  /\ t = NULL => OnOwner(s, Owner[p]) = {} /\ Filled(s, p) = {}
             /\ t # NULL =>
                  /\ t \in OnOwner(s, Owner[p]) /\ t \in AllThreads /\ Filled(s, p) # {}
                  /\ \A u \in OnOwner(s, Owner[p]) : s.prio[u] <= s.prio[t]
                  /\ TopQ(s, p) = ReadyQ(s.proc[t], s.prio[t])
                  /\ t = s.mem.head[TopQ(s, p)]
<1> DEFINE t == NextReady(s, p)
           F == Filled(s, p)
           i == CHOOSE i \in F : \A j \in F : j <= i
           q == ReadyQ(p, i)
<1>1. ObjOK(s) /\ Homed(s) /\ MemOK(s.mem) /\ \A j \in Prios : ReadyQ(p, j) \in ReadyQueues
  BY Distinctness DEF Good, ObjOK
<1>2. PICK k, n : Tickets(s, k, n)
  BY DEF Good
<1>3. \A j \in Prios : j \notin F <=> Members(s, ReadyQ(p, j)) = {}
  <2>1. ASSUME NEW j \in Prios PROVE j \notin F <=> Members(s, ReadyQ(p, j)) = {}
    <3>1. Line(s.mem, ReadyQ(p, j), Members(s, ReadyQ(p, j)), k)
      BY <1>1, <1>2 DEF Tickets
    <3>2. QED
      BY <3>1 DEF Filled, Line
  <2>2. QED
    BY <2>1
<1>4. ASSUME NEW u \in OnOwner(s, Owner[p])
      PROVE  s.prio[u] \in Prios /\ s.prio[u] \in F /\ u \in Members(s, ReadyQ(p, s.prio[u]))
  <2>1. u \in ReadySet(s) /\ Owner[s.proc[u]] = Owner[p]
    BY DEF OnOwner
  <2>2. s.proc[u] \in Procs /\ s.prio[u] \in Prios /\ u \in Members(s, ReadyQ(s.proc[u], s.prio[u]))
    BY <1>1, <2>1, QueueOf
  <2>3. ReadyQ(s.proc[u], s.prio[u]) = ReadyQ(p, s.prio[u])
    BY <2>1 DEF ReadyQ
  <2>4. QED
    BY <1>3, <2>2, <2>3
<1>5. CASE F = {}
  <2>1. t = NULL /\ OnOwner(s, Owner[p]) = {}
    BY <1>4, <1>5 DEF NextReady
  <2>2. QED
    BY <1>5, <2>1
<1>6. CASE F # {}
  <2>1. i \in F /\ (\A j \in F : j <= i) /\ i \in Prios
    <3>1. F \in SUBSET Prios
      BY DEF Filled
    <3>2. QED
      BY <1>6, <3>1, TopPriority
  <2>2. TopQ(s, p) = q /\ t = s.mem.head[q]
    BY <1>6 DEF TopQ, NextReady
  <2> HIDE DEF i, F, q
  <2>3. q \in ReadyQueues /\ t # NULL /\ Line(s.mem, q, Members(s, q), k)
    BY <1>1, <1>2, <2>1, <2>2 DEF q, F, Filled, Tickets
  <2>4. t \in Members(s, q)
    BY <2>2, <2>3 DEF Line
  <2>5. t \in ReadySet(s) /\ ReadyQ(s.proc[t], s.prio[t]) = q
    BY <2>4 DEF Members
  <2>6. s.proc[t] \in Procs /\ s.prio[t] \in Prios
    BY <1>1, <2>5, QueueOf
  <2>7. Owner[s.proc[t]] = Owner[p] /\ s.prio[t] = i
    BY <2>1, <2>5, <2>6, Distinctness DEF q
  <2>8. t \in OnOwner(s, Owner[p]) /\ t \in AllThreads
    BY <2>5, <2>7 DEF OnOwner, ReadySet
  <2>9. \A u \in OnOwner(s, Owner[p]) : s.prio[u] <= s.prio[t]
    BY <1>4, <2>1, <2>7
  <2>10. QED
    BY <1>6, <2>2, <2>3, <2>5, <2>8, <2>9 DEF F
<1>7. QED
  BY <1>5, <1>6

(* A ready thread leaves its queue q, to run or because it is killed: v is *)
(* its new state.                                                          *)
TakenOut(s, z, q, t, v) ==
  /\ q = ReadyQ(s.proc[t], s.prio[t])
  /\ v \in {"Run", "Done"} /\ (v = "Run" => Linkable(z.mem, t))
  /\ \A k \in [AllThreads -> Nat] :
        Line(s.mem, q, Members(s, q), k) /\ Distinct(Members(s, q), k)
          => Line(z.mem, q, Members(s, q) \ {t}, k)
  /\ \A u \in AllThreads : u \notin Members(s, q) =>
        z.mem.next[u] = s.mem.next[u] /\ z.mem.prev[u] = s.mem.prev[u]
  /\ \A r \in AnyQ \ {q} : z.mem.head[r] = s.mem.head[r] /\ z.mem.tail[r] = s.mem.tail[r]
  /\ z.tstate = [s.tstate EXCEPT ![t] = v]
  /\ z.prio = s.prio /\ z.proc = s.proc
  /\ z.count = [s.count EXCEPT ![Owner[s.proc[t]]] = @ - 1]

LEMMA TakeOutGood ==
  ASSUME NEW s, Good(s), NEW t \in ReadySet(s), NEW z, ObjOK(z), NEW q, NEW v,
         TakenOut(s, z, q, t, v)
  PROVE  Good(z)
<1> DEFINE M == Members(s, q)
           a == z.mem
<1>0. /\ q = ReadyQ(s.proc[t], s.prio[t])
      /\ v \in {"Run", "Done"} /\ (v = "Run" => Linkable(a, t))
      /\ \A k \in [AllThreads -> Nat] : Line(s.mem, q, M, k) /\ Distinct(M, k) => Line(a, q, M \ {t}, k)
      /\ \A u \in AllThreads : u \notin M => a.next[u] = s.mem.next[u] /\ a.prev[u] = s.mem.prev[u]
      /\ \A r \in AnyQ \ {q} : a.head[r] = s.mem.head[r] /\ a.tail[r] = s.mem.tail[r]
      /\ z.tstate = [s.tstate EXCEPT ![t] = v]
      /\ z.prio = s.prio /\ z.proc = s.proc
      /\ z.count = [s.count EXCEPT ![Owner[s.proc[t]]] = @ - 1]
  BY DEF TakenOut
<1>1. /\ ObjOK(s) /\ Homed(s) /\ Counted(s) /\ Clean(s)
      /\ s.tstate \in [AllThreads -> {"None", "Run", "Ready", "Busy", "Done"}]
      /\ s.count \in [Procs -> Int] /\ t \in AllThreads
  BY DEF Good, ObjOK, ReadySet
<1>2. PICK k, n : Tickets(s, k, n)
  BY DEF Good
<1>3. q \in ReadyQueues /\ t \in M /\ s.proc[t] \in Procs /\ Owner[s.proc[t]] \in Procs
  BY <1>0, <1>1, QueueOf, ProcAssumption
<1>4. ReadySet(z) = ReadySet(s) \ {t}
  BY <1>0, <1>1 DEF ReadySet
<1>5. Homed(z)
  BY <1>0, <1>1, <1>4 DEF Homed
<1>6. Counted(z)
  <2>1. ASSUME NEW o \in Procs PROVE z.count[o] = Cardinality(OnOwner(z, o))
    <3>1. s.count[o] = Cardinality(OnOwner(s, o)) /\ s.count[o] \in Int
      BY <1>1, <2>1 DEF Counted
    <3>2. IsFiniteSet(OnOwner(s, o))
      BY Distinctness, FS_Subset DEF OnOwner, ReadySet
    <3>3. /\ OnOwner(z, o) = OnOwner(s, o) \ {t}
          /\ t \in OnOwner(s, o) <=> o = Owner[s.proc[t]]
      BY <1>0, <1>4 DEF OnOwner
    <3>4. Cardinality(OnOwner(s, o) \ {t}) = IF t \in OnOwner(s, o) THEN Cardinality(OnOwner(s, o)) - 1
                                             ELSE Cardinality(OnOwner(s, o))
      BY <3>2, FS_RemoveElement
    <3>5. z.count[o] = IF o = Owner[s.proc[t]] THEN s.count[o] - 1 ELSE s.count[o]
      BY <1>0, <1>1, <1>3
    <3>6. QED
      BY <3>1, <3>3, <3>4, <3>5
  <2>2. QED
    BY <2>1 DEF Counted
<1>7. Clean(z)
  <2>1. ASSUME NEW u \in AllThreads, z.tstate[u] \notin {"Ready", "Done"} PROVE Linkable(z.mem, u)
    <3>1. CASE u = t
      BY <1>0, <1>1, <2>1, <3>1
    <3>2. CASE u # t
      <4>1. s.tstate[u] = z.tstate[u]
        BY <1>0, <1>1, <3>2
      <4>2. u \notin M /\ Linkable(s.mem, u)
        BY <1>1, <2>1, <4>1 DEF Clean, Members, ReadySet
      <4>3. QED
        BY <1>0, <4>2 DEF Linkable
    <3>3. QED
      BY <3>1, <3>2
  <2>2. QED
    BY <2>1 DEF Clean
<1>8. Tickets(z, k, n)
  <2>1. /\ k \in [AllThreads -> Nat] /\ n \in Nat /\ (\A u \in AllThreads : k[u] < n)
        /\ Distinct(ReadySet(s), k)
    BY <1>2 DEF Tickets
  <2>2. Distinct(ReadySet(z), k)
    BY <1>4, <2>1 DEF Distinct
  <2>3. ASSUME NEW r \in ReadyQueues PROVE Line(z.mem, r, Members(z, r), k)
    <3>1. Members(z, r) = IF r = q THEN M \ {t} ELSE Members(s, r)
      BY <1>0, <1>4 DEF Members
    <3>2. Line(s.mem, r, Members(s, r), k)
      BY <1>2 DEF Tickets
    <3>3. CASE r = q
      <4>1. Distinct(M, k)
        BY <2>1, MembersFacts
      <4>2. QED
        BY <1>0, <2>1, <3>1, <3>2, <3>3, <4>1
    <3>4. CASE r # q
      <4>1. z.mem.head[r] = s.mem.head[r] /\ z.mem.tail[r] = s.mem.tail[r]
        BY <1>0, <3>4 DEF AnyQ
      <4>2. \A u \in Members(s, r) : u \in AllThreads /\ u \notin M
        BY <3>4 DEF Members, ReadySet
      <4>3. \A u \in Members(s, r) : z.mem.next[u] = s.mem.next[u] /\ k[u] = k[u]
        BY <1>0, <4>2
      <4>4. Line(z.mem, r, Members(s, r), k)
        BY <3>2, <4>1, <4>3, LineSame
      <4>5. QED
        BY <3>1, <3>4, <4>4
    <3>5. QED
      BY <3>3, <3>4
  <2>4. QED
    BY <2>1, <2>2, <2>3 DEF Tickets
<1>9. QED
  BY <1>5, <1>6, <1>7, <1>8 DEF Good

(* The thread part of two memories is the same.                            *)
SameThreads(m, z) ==
  /\ \A t \in AllThreads : z.next[t] = m.next[t] /\ z.prev[t] = m.prev[t]
  /\ \A q \in ReadyQueues : z.head[q] = m.head[q] /\ z.tail[q] = m.tail[q]

(* What leaves the ready queues and the ready threads alone.               *)
LEMMA OtherFieldsGood ==
  ASSUME NEW s, Good(s), NEW z, ObjOK(z), SameThreads(s.mem, z.mem), z.count = s.count,
         ReadySet(z) = ReadySet(s),
         \A t \in ReadySet(s) : /\ z.proc[t] \in Procs /\ Owner[z.proc[t]] = Owner[s.proc[t]]
                                /\ z.prio[t] = s.prio[t],
         \A t \in AllThreads : z.tstate[t] \notin {"Ready", "Done"} => s.tstate[t] \notin {"Ready", "Done"}
  PROVE  Good(z)
<1>1. ObjOK(s) /\ Homed(s) /\ Counted(s) /\ Clean(s)
  BY DEF Good
<1>2. PICK k, n : Tickets(s, k, n)
  BY DEF Good
<1>3. \A q : Members(z, q) = Members(s, q)
  BY DEF Members, ReadyQ
<1>4. \A o : OnOwner(z, o) = OnOwner(s, o)
  BY DEF OnOwner
<1>5. Homed(z) /\ Counted(z)
  BY <1>1, <1>4 DEF Homed, Counted
<1>6. Clean(z)
  BY <1>1 DEF Clean, Linkable, SameThreads
<1>7. Tickets(z, k, n)
  <2>1. /\ k \in [AllThreads -> Nat] /\ n \in Nat /\ (\A u \in AllThreads : k[u] < n)
        /\ Distinct(ReadySet(z), k)
    BY <1>2 DEF Tickets
  <2>2. ASSUME NEW r \in ReadyQueues PROVE Line(z.mem, r, Members(z, r), k)
    <3>1. Line(s.mem, r, Members(s, r), k)
      BY <1>2 DEF Tickets
    <3>2. z.mem.head[r] = s.mem.head[r] /\ z.mem.tail[r] = s.mem.tail[r]
      BY DEF SameThreads
    <3>3. \A u \in Members(s, r) : z.mem.next[u] = s.mem.next[u] /\ k[u] = k[u]
      BY MembersFacts DEF SameThreads
    <3>4. Line(z.mem, r, Members(s, r), k)
      BY <3>1, <3>2, <3>3, LineSame
    <3>5. QED
      BY <1>3, <3>4
  <2>3. QED
    BY <2>1, <2>2 DEF Tickets
<1>8. QED
  BY <1>5, <1>6, <1>7 DEF Good

(* Proc::get_ready(): the next ready thread leaves its queue and runs.     *)
LEMMA GetReadyGood ==
  ASSUME NEW s, Good(s), NEW p \in Procs, NEW t, t = NextReady(s, p), t # NULL
  PROVE  LET z == GetReady(s, p)
         IN  /\ Good(z) /\ SameProcs(s.mem, z.mem)
             /\ z.tstate = [s.tstate EXCEPT ![t] = "Run"]
             /\ z.prio = s.prio /\ z.proc = s.proc /\ z.time = s.time /\ z.start = s.start
             /\ z.pstate = s.pstate /\ z.bt = s.bt /\ z.bad = s.bad
<1> DEFINE z == GetReady(s, p)
           q == TopQ(s, p)
           a == Get(s.mem, q)
           M == Members(s, q)
<1>1. /\ t \in OnOwner(s, Owner[p]) /\ t \in AllThreads /\ Filled(s, p) # {}
      /\ q = ReadyQ(s.proc[t], s.prio[t]) /\ t = s.mem.head[q]
  BY NextReadyFacts
<1>2. /\ ObjOK(s) /\ Homed(s) /\ MemOK(s.mem)
      /\ s.tstate \in [AllThreads -> {"None", "Run", "Ready", "Busy", "Done"}]
      /\ s.count \in [Procs -> Int]
  BY DEF Good, ObjOK
<1>3. t \in ReadySet(s) /\ Owner[s.proc[t]] = Owner[p]
  BY <1>1 DEF OnOwner
<1> HIDE DEF q
<1>4. q \in ReadyQueues /\ t \in M /\ Owner[p] \in Procs
  <2>1. /\ ReadyQ(s.proc[t], s.prio[t]) \in ReadyQueues
        /\ t \in Members(s, ReadyQ(s.proc[t], s.prio[t]))
    BY <1>2, <1>3, QueueOf
  <2>2. QED
    BY <1>1, <2>1, ProcAssumption
<1>5. PICK k, n : Tickets(s, k, n)
  BY DEF Good
<1>6. /\ z.mem = a /\ z.tstate = [s.tstate EXCEPT ![t] = "Run"]
      /\ z.count = [s.count EXCEPT ![Owner[p]] = @ - 1] /\ z.bad = s.bad
      /\ z.prio = s.prio /\ z.proc = s.proc /\ z.time = s.time /\ z.start = s.start
      /\ z.pstate = s.pstate /\ z.bt = s.bt
      /\ z = [mem |-> z.mem, count |-> z.count, tstate |-> z.tstate, prio |-> z.prio,
              proc |-> z.proc, time |-> z.time, start |-> z.start, pstate |-> z.pstate,
              bt |-> z.bt, bad |-> z.bad]
  <2>1. z = [s EXCEPT !.mem = a, !.count[Owner[p]] = @ - 1, !.tstate[t] = "Run"]
    BY <1>1 DEF GetReady, ReturnThread, q
  <2> HIDE DEF a, z, q
  <2>2. QED
    BY <1>2, <2>1 DEF ObjOK
<1> HIDE DEF z, q, M
<1>7. /\ Distinct(M, k) /\ Line(s.mem, q, M, k) /\ M \in SUBSET AllThreads
      /\ k \in [AllThreads -> Nat] /\ M # {}
  BY <1>4, <1>5, MembersFacts DEF Tickets, M
<1>8. /\ MemOK(a) /\ a.next[t] = NULL /\ a.prev[t] = NULL
      /\ \A u \in AllThreads : u \notin M => a.next[u] = s.mem.next[u] /\ a.prev[u] = s.mem.prev[u]
      /\ \A r \in AnyQ \ {q} : a.head[r] = s.mem.head[r] /\ a.tail[r] = s.mem.tail[r]
      /\ \A r \in Procs : a.next[r] = s.mem.next[r] /\ a.prev[r] = s.mem.prev[r]
  <2>1. MemOK(s.mem) /\ q \in ReadyQueues
    BY <1>2, <1>4
  <2>2. LET x == s.mem.head[q]
        IN  /\ MemOK(a) /\ a.next[x] = NULL /\ a.prev[x] = NULL
            /\ \A u \in AllThreads : u \notin M => a.next[u] = s.mem.next[u] /\ a.prev[u] = s.mem.prev[u]
            /\ \A r \in AnyQ \ {q} : a.head[r] = s.mem.head[r] /\ a.tail[r] = s.mem.tail[r]
            /\ \A r \in Procs : a.next[r] = s.mem.next[r] /\ a.prev[r] = s.mem.prev[r]
    BY ONLY <1>7, <2>1, GetLine, ZenonT(30)
  <2> HIDE DEF a
  <2>3. QED
    BY <1>1, <2>2
<1>9. ASSUME NEW l \in [AllThreads -> Nat], Line(s.mem, q, M, l), Distinct(M, l)
      PROVE  Line(a, q, M \ {t}, l)
  BY ONLY <1>1, <1>2, <1>4, <1>7, <1>9, GetLine
<1> HIDE DEF a
<1>10. ObjOK(z)
  <2>1. z.count \in [Procs -> Int]
    BY ONLY <1>2, <1>4, <1>6
  <2>2. z.tstate \in [AllThreads -> {"None", "Run", "Ready", "Busy", "Done"}]
    BY ONLY <1>1, <1>2, <1>6
  <2>3. QED
    BY <1>2, <1>6, <1>8, <2>1, <2>2 DEF ObjOK
<1>11. Good(z)
  <2>1. TakenOut(s, z, q, t, "Run")
    BY <1>1, <1>3, <1>6, <1>8, <1>9 DEF TakenOut, Linkable, M
  <2>2. QED
    BY <1>3, <1>10, <2>1, TakeOutGood
<1>12. SameProcs(s.mem, z.mem)
  <2>1. ProcQ \in AnyQ \ {q}
    BY <1>4, Distinctness DEF AnyQ
  <2>2. QED
    BY <1>6, <1>8, <2>1 DEF SameProcs
<1>13. QED
  BY <1>6, <1>11, <1>12 DEF z

(* terminate(t): a thread leaves its ready queue, if it is in one,         *)
(* and is done.                                                            *)
LEMMA KillGood ==
  ASSUME NEW s, Good(s), NEW t \in AllThreads, s.proc[t] \in Procs
  PROVE  LET z == [GetReadyThread(s, s.proc[t], t) EXCEPT !.tstate[t] = "Done"]
         IN  /\ Good(z) /\ SameProcs(s.mem, z.mem)
             /\ z.tstate = [s.tstate EXCEPT ![t] = "Done"]
             /\ z.prio = s.prio /\ z.proc = s.proc /\ z.time = s.time /\ z.start = s.start
             /\ z.pstate = s.pstate /\ z.bt = s.bt /\ z.bad = s.bad
<1> DEFINE z == [GetReadyThread(s, s.proc[t], t) EXCEPT !.tstate[t] = "Done"]
           q == ReadyQ(s.proc[t], s.prio[t])
           a == GetItem(s.mem, q, t)
           M == Members(s, q)
<1>1. /\ ObjOK(s) /\ Homed(s) /\ MemOK(s.mem)
      /\ s.tstate \in [AllThreads -> {"None", "Run", "Ready", "Busy", "Done"}]
      /\ s.count \in [Procs -> Int] /\ s.prio[t] \in Prios
  BY DEF Good, ObjOK
<1>2. q \in ReadyQueues /\ Owner[s.proc[t]] \in Procs
  BY <1>1, Distinctness, ProcAssumption
<1>3. PICK k, n : Tickets(s, k, n)
  BY DEF Good
<1> HIDE DEF q
<1>4. /\ Distinct(M, k) /\ Line(s.mem, q, M, k) /\ M \in SUBSET AllThreads
      /\ k \in [AllThreads -> Nat]
  BY <1>2, <1>3, MembersFacts DEF Tickets
<1>5. t \in M <=> t \in ReadySet(s)
  BY DEF Members, q
<1> HIDE DEF M
<1>6. Contents(s.mem, q) = M
  BY ONLY <1>1, <1>2, <1>4, LineContents
<1>7. CASE t \notin ReadySet(s)
  <2>1. z = [s EXCEPT !.tstate[t] = "Done"]
    BY <1>5, <1>6, <1>7 DEF GetReadyThread, q
  <2> HIDE DEF z
  <2>2. /\ z.mem = s.mem /\ z.tstate = [s.tstate EXCEPT ![t] = "Done"]
        /\ z.count = s.count /\ z.bad = s.bad
        /\ z.prio = s.prio /\ z.proc = s.proc /\ z.time = s.time /\ z.start = s.start
        /\ z.pstate = s.pstate /\ z.bt = s.bt
        /\ z = [mem |-> z.mem, count |-> z.count, tstate |-> z.tstate, prio |-> z.prio,
                proc |-> z.proc, time |-> z.time, start |-> z.start, pstate |-> z.pstate,
                bt |-> z.bt, bad |-> z.bad]
    BY <1>1, <2>1 DEF ObjOK
  <2>3. z.tstate \in [AllThreads -> {"None", "Run", "Ready", "Busy", "Done"}]
    BY <1>1, <2>2
  <2>4. ObjOK(z)
    BY <1>1, <2>2, <2>3 DEF ObjOK
  <2>5. ReadySet(z) = ReadySet(s)
    BY <1>1, <1>7, <2>2 DEF ReadySet
  <2>6. \A u \in AllThreads : z.tstate[u] \notin {"Ready", "Done"} => s.tstate[u] \notin {"Ready", "Done"}
    BY <1>1, <2>2
  <2>7. /\ SameThreads(s.mem, z.mem) /\ SameProcs(s.mem, z.mem)
        /\ \A u \in ReadySet(s) : /\ z.proc[u] \in Procs /\ Owner[z.proc[u]] = Owner[s.proc[u]]
                                  /\ z.prio[u] = s.prio[u]
    BY <1>1, <2>2 DEF SameThreads, SameProcs, Homed
  <2>8. Good(z)
    BY <2>2, <2>4, <2>5, <2>6, <2>7, OtherFieldsGood
  <2>9. QED
    BY <2>2, <2>7, <2>8 DEF z
<1>8. CASE t \in ReadySet(s)
  <2>1. z = [[s EXCEPT !.mem = a, !.count[Owner[s.proc[t]]] = @ - 1, !.tstate[t] = "Run"]
               EXCEPT !.tstate[t] = "Done"]
    BY <1>5, <1>6, <1>8 DEF GetReadyThread, ReturnThread, q
  <2>2. /\ MemOK(a)
        /\ \A u \in AllThreads : u \notin M => a.next[u] = s.mem.next[u] /\ a.prev[u] = s.mem.prev[u]
        /\ \A r \in AnyQ \ {q} : a.head[r] = s.mem.head[r] /\ a.tail[r] = s.mem.tail[r]
        /\ \A r \in Procs : a.next[r] = s.mem.next[r] /\ a.prev[r] = s.mem.prev[r]
    <3>1. MemOK(s.mem) /\ q \in ReadyQueues /\ t \in M
      BY <1>1, <1>2, <1>5, <1>8
    <3>2. /\ MemOK(a)
          /\ Line(a, q, M \ {t}, k)
          /\ \A u \in AllThreads : u \notin M => a.next[u] = s.mem.next[u] /\ a.prev[u] = s.mem.prev[u]
          /\ \A r \in AnyQ \ {q} : a.head[r] = s.mem.head[r] /\ a.tail[r] = s.mem.tail[r]
          /\ \A r \in Procs : a.next[r] = s.mem.next[r] /\ a.prev[r] = s.mem.prev[r]
      BY ONLY <1>4, <3>1, GetItemLine
    <3>3. QED
      BY <3>2
  <2>3. ASSUME NEW l \in [AllThreads -> Nat], Line(s.mem, q, M, l), Distinct(M, l)
        PROVE  Line(a, q, M \ {t}, l)
    BY ONLY <1>1, <1>2, <1>4, <1>5, <1>8, <2>3, GetItemLine
  <2> HIDE DEF z, a
  <2>4. /\ z.mem = a /\ z.tstate = [s.tstate EXCEPT ![t] = "Done"]
        /\ z.count = [s.count EXCEPT ![Owner[s.proc[t]]] = @ - 1] /\ z.bad = s.bad
        /\ z.prio = s.prio /\ z.proc = s.proc /\ z.time = s.time /\ z.start = s.start
        /\ z.pstate = s.pstate /\ z.bt = s.bt
        /\ z = [mem |-> z.mem, count |-> z.count, tstate |-> z.tstate, prio |-> z.prio,
                proc |-> z.proc, time |-> z.time, start |-> z.start, pstate |-> z.pstate,
                bt |-> z.bt, bad |-> z.bad]
    BY <1>1, <2>1 DEF ObjOK
  <2>5. ObjOK(z)
    <3>1. z.count \in [Procs -> Int] /\ z.tstate \in [AllThreads -> {"None", "Run", "Ready", "Busy", "Done"}]
      BY <1>1, <1>2, <2>4
    <3>2. QED
      BY <1>1, <2>2, <2>4, <3>1 DEF ObjOK
  <2>6. Good(z)
    <3>1. TakenOut(s, z, q, t, "Done")
      BY <2>2, <2>3, <2>4 DEF TakenOut, M, q
    <3>2. QED
      BY <1>8, <2>5, <3>1, TakeOutGood
  <2>7. SameProcs(s.mem, z.mem)
    <3>1. ProcQ \in AnyQ \ {q}
      BY <1>2, Distinctness DEF AnyQ
    <3>2. QED
      BY <2>2, <2>4, <3>1 DEF SameProcs
  <2>8. QED
    BY <2>4, <2>6, <2>7 DEF z
<1>9. QED
  BY <1>7, <1>8

-----------------------------------------------------------------------------
(* The queue of processors.  It is not described further here: whatever    *)
(* happens to it, it links processors, and the ready queues stay as they   *)
(* are.                                                                    *)

(* z is m but for links of processors and the ends of their queue.         *)
ProcsOnly(m, z) ==
  /\ z = [next |-> z.next, prev |-> z.prev, head |-> z.head, tail |-> z.tail]
  /\ z.next \in [Node -> Node \cup {NULL}] /\ z.prev \in [Node -> Node \cup {NULL}]
  /\ z.head \in [AnyQ -> Node \cup {NULL}] /\ z.tail \in [AnyQ -> Node \cup {NULL}]
  /\ \A p \in Procs : z.next[p] \in ProcPtr /\ z.prev[p] \in ProcPtr
  /\ z.head[ProcQ] \in ProcPtr /\ z.tail[ProcQ] \in ProcPtr
  /\ SameThreads(m, z)

LEMMA ProcsOnlyOK ==
  ASSUME NEW m, MemOK(m), NEW z, ProcsOnly(m, z)
  PROVE  MemOK(z) /\ SameThreads(m, z)
<1>1. z \in [next : [Node -> Node \cup {NULL}], prev : [Node -> Node \cup {NULL}],
             head : [AnyQ -> Node \cup {NULL}], tail : [AnyQ -> Node \cup {NULL}]]
  BY DEF ProcsOnly
<1>2. QED
  BY <1>1 DEF ProcsOnly, MemOK, SameThreads

LEMMA NodeFacts ==
  /\ ProcQ \in AnyQ /\ AllThreads \subseteq Node /\ Procs \subseteq Node
  /\ ReadyQueues \subseteq AnyQ
  /\ \A p \in Procs : p \notin AllThreads /\ p # NULL
  /\ \A q \in ReadyQueues : q # ProcQ
  /\ ProcPtr \subseteq Node \cup {NULL}
BY Distinctness DEF AnyQ, Node, ProcPtr

(* What Queue::add and Queue::get() do to the links of processors.         *)
ProcAdded(m, z, x) ==
  LET t == m.tail[ProcQ]
  IN  /\ \A y \in Procs : z.next[y] = IF t # NULL /\ y = t THEN x ELSE IF y = x THEN NULL ELSE m.next[y]
      /\ \A y \in Procs : z.prev[y] = IF y = x THEN t ELSE m.prev[y]
      /\ z.head[ProcQ] = IF t = NULL THEN x ELSE m.head[ProcQ]
      /\ z.tail[ProcQ] = x
ProcTaken(m, z, x) ==
  LET n == m.next[x]
  IN  /\ \A y \in Procs : z.next[y] = IF y = x THEN NULL ELSE m.next[y]
      /\ \A y \in Procs : z.prev[y] = IF y = x \/ (n # NULL /\ y = n) THEN NULL ELSE m.prev[y]
      /\ z.head[ProcQ] = n
      /\ z.tail[ProcQ] = IF n = NULL THEN NULL ELSE m.tail[ProcQ]

LEMMA AddProcMem ==
  ASSUME NEW m, MemOK(m), NEW x \in Procs
  PROVE  ProcsOnly(m, Add(m, ProcQ, x)) /\ ProcAdded(m, Add(m, ProcQ, x), x)
<1> DEFINE z == Add(m, ProcQ, x)
           t == m.tail[ProcQ]
<1>1. /\ m.next \in [Node -> Node \cup {NULL}] /\ m.prev \in [Node -> Node \cup {NULL}]
      /\ m.head \in [AnyQ -> Node \cup {NULL}] /\ m.tail \in [AnyQ -> Node \cup {NULL}]
      /\ t \in ProcPtr /\ m.head[ProcQ] \in ProcPtr /\ x \in Node
      /\ \A p \in Procs : m.next[p] \in ProcPtr /\ m.prev[p] \in ProcPtr
  BY NodeFacts DEF MemOK
<1>2. /\ z.next = (IF t = NULL THEN [m.next EXCEPT ![x] = NULL] ELSE [m.next EXCEPT ![x] = NULL, ![t] = x])
      /\ z.prev = [m.prev EXCEPT ![x] = t]
      /\ z.head = (IF t = NULL THEN [m.head EXCEPT ![ProcQ] = x] ELSE m.head)
      /\ z.tail = [m.tail EXCEPT ![ProcQ] = x]
      /\ z = [next |-> z.next, prev |-> z.prev, head |-> z.head, tail |-> z.tail]
  BY DEF Add
<1> HIDE DEF z, t
<1>3. t # NULL => t \in Procs /\ t \in Node
  BY <1>1, NodeFacts DEF ProcPtr
<1>4. /\ z.next \in [Node -> Node \cup {NULL}] /\ z.prev \in [Node -> Node \cup {NULL}]
      /\ z.head \in [AnyQ -> Node \cup {NULL}] /\ z.tail \in [AnyQ -> Node \cup {NULL}]
  BY <1>1, <1>2, <1>3, NodeFacts
<1>5. /\ \A y \in Node : z.next[y] = IF t # NULL /\ y = t THEN x ELSE IF y = x THEN NULL ELSE m.next[y]
      /\ \A y \in Node : z.prev[y] = IF y = x THEN t ELSE m.prev[y]
      /\ \A r \in AnyQ : z.head[r] = IF t = NULL /\ r = ProcQ THEN x ELSE m.head[r]
      /\ \A r \in AnyQ : z.tail[r] = IF r = ProcQ THEN x ELSE m.tail[r]
  BY <1>1, <1>2, <1>3, NodeFacts
<1>6. SameThreads(m, z)
  BY <1>3, <1>5, NodeFacts DEF SameThreads
<1>7. \A p \in Procs : z.next[p] \in ProcPtr /\ z.prev[p] \in ProcPtr
  BY <1>1, <1>5, NodeFacts DEF ProcPtr
<1>8. z.head[ProcQ] \in ProcPtr /\ z.tail[ProcQ] \in ProcPtr
  BY <1>1, <1>5, NodeFacts DEF ProcPtr
<1>9. ProcAdded(m, z, x)
  BY <1>5, NodeFacts DEF ProcAdded, t
<1>10. QED
  BY <1>2, <1>4, <1>6, <1>7, <1>8, <1>9 DEF ProcsOnly, z

LEMMA GetProcMem ==
  ASSUME NEW m, MemOK(m)
  PROVE  /\ ProcsOnly(m, Get(m, ProcQ))
         /\ m.head[ProcQ] # NULL => ProcTaken(m, Get(m, ProcQ), m.head[ProcQ])
<1> DEFINE z == Get(m, ProcQ)
           x == m.head[ProcQ]
           n == m.next[x]
<1>1. /\ m.next \in [Node -> Node \cup {NULL}] /\ m.prev \in [Node -> Node \cup {NULL}]
      /\ m.head \in [AnyQ -> Node \cup {NULL}] /\ m.tail \in [AnyQ -> Node \cup {NULL}]
      /\ x \in ProcPtr /\ m.head[ProcQ] \in ProcPtr /\ m.tail[ProcQ] \in ProcPtr
      /\ \A p \in Procs : m.next[p] \in ProcPtr /\ m.prev[p] \in ProcPtr
      /\ m = [next |-> m.next, prev |-> m.prev, head |-> m.head, tail |-> m.tail]
  BY NodeFacts DEF MemOK
<1>2. CASE x = NULL
  <2>1. z = m
    BY <1>2 DEF Get
  <2>2. QED
    BY <1>1, <1>2, <2>1 DEF ProcsOnly, SameThreads
<1>3. CASE x # NULL
  <2>1. /\ z.next = [m.next EXCEPT ![x] = NULL]
        /\ z.prev = (IF n = NULL THEN [m.prev EXCEPT ![x] = NULL] ELSE [m.prev EXCEPT ![n] = NULL, ![x] = NULL])
        /\ z.head = [m.head EXCEPT ![ProcQ] = n]
        /\ z.tail = (IF n = NULL THEN [m.tail EXCEPT ![ProcQ] = NULL] ELSE m.tail)
        /\ z = [next |-> z.next, prev |-> z.prev, head |-> z.head, tail |-> z.tail]
    BY <1>3 DEF Get
  <2> HIDE DEF z
  <2>2. x \in Procs /\ x \in Node /\ n \in ProcPtr /\ (n # NULL => n \in Procs /\ n \in Node)
    BY <1>1, <1>3, NodeFacts DEF ProcPtr
  <2> HIDE DEF x, n
  <2>3. /\ z.next \in [Node -> Node \cup {NULL}] /\ z.prev \in [Node -> Node \cup {NULL}]
        /\ z.head \in [AnyQ -> Node \cup {NULL}] /\ z.tail \in [AnyQ -> Node \cup {NULL}]
    BY <1>1, <2>1, <2>2, NodeFacts
  <2>4. /\ \A y \in Node : z.next[y] = IF y = x THEN NULL ELSE m.next[y]
        /\ \A y \in Node : z.prev[y] = IF y = x \/ (n # NULL /\ y = n) THEN NULL ELSE m.prev[y]
        /\ \A r \in AnyQ : z.head[r] = IF r = ProcQ THEN n ELSE m.head[r]
        /\ \A r \in AnyQ : z.tail[r] = IF n = NULL /\ r = ProcQ THEN NULL ELSE m.tail[r]
    BY <1>1, <2>1, <2>2, NodeFacts
  <2>5. SameThreads(m, z)
    BY <2>2, <2>4, NodeFacts DEF SameThreads
  <2>6. \A p \in Procs : z.next[p] \in ProcPtr /\ z.prev[p] \in ProcPtr
    BY <1>1, <2>4, NodeFacts DEF ProcPtr
  <2>7. z.head[ProcQ] \in ProcPtr /\ z.tail[ProcQ] \in ProcPtr
    BY <1>1, <2>2, <2>4, NodeFacts DEF ProcPtr
  <2>8. ProcTaken(m, z, x)
    BY <2>4, NodeFacts DEF ProcTaken, x, n
  <2>9. QED
    BY <2>1, <2>3, <2>5, <2>6, <2>7, <2>8 DEF ProcsOnly, z, x
<1>4. QED
  BY <1>2, <1>3

LEMMA RemoveProcMem ==
  ASSUME NEW m, MemOK(m), NEW x \in Procs
  PROVE  ProcsOnly(m, Remove(m, ProcQ, x))
<1> DEFINE z == Remove(m, ProcQ, x)
           b == m.prev[x]
           n == m.next[x]
<1>1. CASE b = NULL
  <2>1. z = Get(m, ProcQ)
    BY <1>1 DEF Remove
  <2>2. QED
    BY <2>1, GetProcMem
<1>2. CASE b # NULL
  <2>1. /\ z.next = [m.next EXCEPT ![b] = n, ![x] = NULL] /\ z.prev = [m.prev EXCEPT ![x] = NULL]
        /\ z.head = m.head /\ z.tail = (IF n = NULL THEN [m.tail EXCEPT ![ProcQ] = b] ELSE m.tail)
        /\ z = [next |-> z.next, prev |-> z.prev, head |-> z.head, tail |-> z.tail]
    BY <1>2 DEF Remove
  <2> HIDE DEF z
  <2>2. /\ m.next \in [Node -> Node \cup {NULL}] /\ m.prev \in [Node -> Node \cup {NULL}]
        /\ m.head \in [AnyQ -> Node \cup {NULL}] /\ m.tail \in [AnyQ -> Node \cup {NULL}]
        /\ m.head[ProcQ] \in ProcPtr /\ m.tail[ProcQ] \in ProcPtr
        /\ \A p \in Procs : m.next[p] \in ProcPtr /\ m.prev[p] \in ProcPtr
    BY DEF MemOK
  <2>3. b \in Procs /\ b \in Node /\ n \in ProcPtr /\ x \in Node /\ n \in Node \cup {NULL}
    BY <1>2, <2>2, NodeFacts DEF ProcPtr
  <2> HIDE DEF b, n
  <2>4. /\ z.next \in [Node -> Node \cup {NULL}] /\ z.prev \in [Node -> Node \cup {NULL}]
        /\ z.head \in [AnyQ -> Node \cup {NULL}] /\ z.tail \in [AnyQ -> Node \cup {NULL}]
    BY <2>1, <2>2, <2>3, NodeFacts
  <2>5. /\ \A y \in Node : z.next[y] = IF y = x THEN NULL ELSE IF y = b THEN n ELSE m.next[y]
        /\ \A y \in Node : z.prev[y] = IF y = x THEN NULL ELSE m.prev[y]
        /\ \A r \in AnyQ : z.tail[r] = IF n = NULL /\ r = ProcQ THEN b ELSE m.tail[r]
    BY <2>1, <2>2, <2>3, NodeFacts
  <2>6. SameThreads(m, z)
    BY <2>1, <2>3, <2>5, NodeFacts DEF SameThreads
  <2>7. \A p \in Procs : z.next[p] \in ProcPtr /\ z.prev[p] \in ProcPtr
    BY <2>2, <2>3, <2>5, NodeFacts DEF ProcPtr
  <2>8. z.head[ProcQ] \in ProcPtr /\ z.tail[ProcQ] \in ProcPtr
    BY <2>1, <2>2, <2>3, <2>5, NodeFacts DEF ProcPtr
  <2>9. QED
    BY <2>1, <2>4, <2>6, <2>7, <2>8 DEF ProcsOnly, z
<1>3. QED
  BY <1>1, <1>2

(* A walk along the queue of processors meets processors.                  *)
LEMMA ItemIsProc ==
  ASSUME NEW m, MemOK(m), NEW i \in Nat
  PROVE  Item(m, ProcQ, i) \in ProcPtr
<1> DEFINE f(j) == Item(m, ProcQ, j)
           T == {j \in Nat : f(j) \notin ProcPtr}
<1>1. f(0) = m.head[ProcQ] /\ \A j \in Nat : f(j + 1) = Follow(NULL, m.next, f(j))
  BY ItemSteps
<1>2. m.head[ProcQ] \in ProcPtr /\ \A p \in Procs : m.next[p] \in ProcPtr
  BY DEF MemOK
<1> HIDE DEF f
<1>3. SUFFICES ASSUME T # {} PROVE FALSE
  BY DEF f
<1>4. PICK j \in T : \A l \in T : j <= l
  BY <1>3, LeastNat
<1>5. j # 0
  BY <1>1, <1>2, <1>4
<1>6. j - 1 \in Nat /\ (j - 1) + 1 = j /\ ~(j <= j - 1)
  BY <1>4, <1>5
<1>7. f(j - 1) \in ProcPtr
  BY <1>4, <1>6
<1>8. f(j) = Follow(NULL, m.next, f(j - 1))
  BY <1>1, <1>6
<1>9. f(j) \in ProcPtr
  BY <1>2, <1>7, <1>8 DEF Follow, ProcPtr
<1>10. QED
  BY <1>4, <1>9

(* ProcQ::get_non_empty finds a processor or nothing.                      *)
LEMMA FirstIsProc ==
  ASSUME NEW s, MemOK(s.mem)
  PROVE  FirstNonEmpty(s) \in ProcPtr
<1> DEFINE n == Cardinality(NodesOf(s.mem))
           full == {i \in 0..n : Item(s.mem, ProcQ, i) # NULL /\ ~Empty(s, Item(s.mem, ProcQ, i))}
           e == CHOOSE i \in full : \A j \in full : i <= j
<1>1. full \in SUBSET Nat
  <2>1. NodesOf(s.mem) = Node
    BY DEF MemOK, NodesOf
  <2>2. n \in Nat
    BY <2>1, Distinctness, FS_CardinalityType
  <2>3. QED
    BY <2>2
<1>2. FirstNonEmpty(s) = IF full = {} THEN NULL ELSE Item(s.mem, ProcQ, e)
  BY DEF FirstNonEmpty
<1> HIDE DEF full
<1>3. full # {} => e \in Nat
  BY <1>1, LeastNat
<1> HIDE DEF e
<1>4. QED
  BY <1>2, <1>3, ItemIsProc DEF ProcPtr

-----------------------------------------------------------------------------
(* The queue of processors holds exactly the processors of M, in some      *)
(* order; the first has no back link, and all that are not in it can be    *)
(* queued.                                                                 *)
ProcLine(m, M, k, n) == Fresh(Procs, k, n) /\ Line(m, ProcQ, M, k) /\ Distinct(M, k)
ProcsQueued(m, M) ==
  /\ M \in SUBSET Procs
  /\ \E k, n : ProcLine(m, M, k, n)
  /\ m.head[ProcQ] # NULL => m.prev[m.head[ProcQ]] = NULL
  /\ \A p \in Procs \ M : Linkable(m, p)

LEMMA ProcsAre == Procs \in {AllThreads, Procs}
OBVIOUS

LEMMA QueueProc ==
  ASSUME NEW m, MemOK(m), NEW M, ProcsQueued(m, M), NEW x \in Procs \ M
  PROVE  Linkable(m, x) /\ ProcsQueued(Add(m, ProcQ, x), M \cup {x})
<1> DEFINE t == m.tail[ProcQ]
<1>1. PICK z : z = Add(m, ProcQ, x)
  OBVIOUS
<1>2. ProcAdded(m, z, x)
  BY <1>1, AddProcMem
<1>3. PICK k, n : ProcLine(m, M, k, n)
  BY DEF ProcsQueued
<1>4. Fresh(Procs, k, n) /\ Line(m, ProcQ, M, k) /\ Distinct(M, k) /\ M \in SUBSET Procs
  BY <1>3 DEF ProcLine, ProcsQueued
<1>5. t # NULL => t \in M /\ t # x /\ t \in Procs
  BY <1>4 DEF Line
<1>6. m.head[ProcQ] # NULL => m.head[ProcQ] \in M /\ m.head[ProcQ] # x /\ m.head[ProcQ] \in Procs
  BY <1>4 DEF Line
<1>7. m.head[ProcQ] = NULL => t = NULL
  BY <1>4, <1>5 DEF Line
<1>8. Appended(m, z, ProcQ, M, x)
  BY <1>2, <1>4, <1>5 DEF Appended, ProcAdded
<1>9. PICK l : l = [k EXCEPT ![x] = n]
  OBVIOUS
<1>10. Line(z, ProcQ, M \cup {x}, l) /\ Distinct(M \cup {x}, l)
  <2>1. x \in Procs /\ x \notin M /\ M \in SUBSET Procs
    BY <1>4
  <2>2. QED
    BY ONLY <1>4, <1>8, <1>9, <2>1, ProcsAre, AppendLine
<1>11. Fresh(Procs, l, n + 1)
  <2>1. n \in Nat /\ k \in [Procs -> Nat] /\ \A y \in Procs : k[y] < n
    BY <1>4 DEF Fresh
  <2>2. l \in [Procs -> Nat] /\ \A y \in Procs : l[y] = IF y = x THEN n ELSE k[y]
    BY <1>9, <2>1
  <2>3. QED
    BY <2>1, <2>2 DEF Fresh
<1>12. ProcLine(z, M \cup {x}, l, n + 1)
  BY <1>10, <1>11 DEF ProcLine
<1>13. z.head[ProcQ] # NULL => z.prev[z.head[ProcQ]] = NULL
  <2>1. CASE t = NULL
    BY <1>2, <2>1 DEF ProcAdded
  <2>2. CASE t # NULL
    BY <1>2, <1>6, <2>2 DEF ProcAdded, ProcsQueued
  <2>3. QED
    BY <2>1, <2>2
<1>14. \A p \in Procs \ (M \cup {x}) : Linkable(z, p)
  BY <1>2, <1>5 DEF ProcAdded, ProcsQueued, Linkable
<1>15. ProcsQueued(z, M \cup {x})
  BY <1>4, <1>12, <1>13, <1>14 DEF ProcsQueued
<1>16. QED
  BY <1>1, <1>15 DEF ProcsQueued

LEMMA UnqueueProc ==
  ASSUME NEW m, MemOK(m), NEW M, ProcsQueued(m, M), M # {}
  PROVE  LET x == m.head[ProcQ]
         IN  /\ x \in M /\ x # NULL
             /\ ProcsQueued(Get(m, ProcQ), M \ {x})
             /\ Remove(m, ProcQ, x) = Get(m, ProcQ)
<1>0. PICK x : x = m.head[ProcQ]
  OBVIOUS
<1>1. PICK z : z = Get(m, ProcQ)
  OBVIOUS
<1>2. PICK k, n : ProcLine(m, M, k, n)
  BY DEF ProcsQueued
<1>3. Fresh(Procs, k, n) /\ Line(m, ProcQ, M, k) /\ Distinct(M, k) /\ M \in SUBSET Procs /\ k \in [Procs -> Nat]
  BY <1>2 DEF ProcLine, ProcsQueued, Fresh
<1>4. x # NULL /\ x \in M /\ x \in Procs
  BY <1>0, <1>3 DEF Line
<1>5. ProcTaken(m, z, x)
  BY <1>0, <1>1, <1>4, GetProcMem
<1>6. \A y \in M : /\ m.head[ProcQ] \in M /\ m.tail[ProcQ] \in M
                   /\ m.next[y] = NULL <=> y = m.tail[ProcQ]
                   /\ m.next[y] # y /\ m.next[y] # m.head[ProcQ]
  BY <1>3, ProcsAre, LineFacts
<1>7. Cut(m, z, ProcQ, M, x)
  <2>1. \A y \in M \ {x} : z.next[y] = m.next[y] /\ m.next[y] # x
    BY <1>0, <1>3, <1>5, <1>6 DEF ProcTaken
  <2>2. z.head[ProcQ] = m.next[x] /\ (m.tail[ProcQ] # x => z.tail[ProcQ] = m.tail[ProcQ])
        /\ (m.tail[ProcQ] = x => z.tail[ProcQ] = NULL)
    BY <1>4, <1>5, <1>6 DEF ProcTaken
  <2>3. QED
    BY <1>0, <2>1, <2>2 DEF Cut
<1>8. Line(z, ProcQ, M \ {x}, k)
  BY <1>3, <1>4, <1>7, ProcsAre, CutLine
<1>9. Distinct(M \ {x}, k)
  BY <1>3 DEF Distinct
<1>10. ProcLine(z, M \ {x}, k, n)
  BY <1>3, <1>8, <1>9 DEF ProcLine
<1>11. m.next[x] # NULL => m.next[x] \in M
  BY <1>3, <1>4 DEF Line
<1>12. z.head[ProcQ] # NULL => z.prev[z.head[ProcQ]] = NULL
  BY <1>3, <1>5, <1>11 DEF ProcTaken
<1>13. \A p \in Procs \ (M \ {x}) : Linkable(z, p)
  <2>1. Linkable(z, x)
    BY <1>4, <1>5 DEF ProcTaken, Linkable
  <2>2. ASSUME NEW p \in Procs \ M PROVE Linkable(z, p)
    <3>1. m.next[p] = NULL /\ m.prev[p] = NULL
      BY DEF ProcsQueued, Linkable
    <3>2. QED
      BY <1>5, <3>1 DEF ProcTaken, Linkable
  <2>3. QED
    BY <2>1, <2>2
<1>14. ProcsQueued(z, M \ {x})
  BY <1>3, <1>10, <1>12, <1>13 DEF ProcsQueued
<1>15. m.prev[x] = NULL
  BY <1>0, <1>4 DEF ProcsQueued
<1>16. Remove(m, ProcQ, x) = Get(m, ProcQ)
  BY <1>15 DEF Remove
<1>17. QED
  BY <1>0, <1>1, <1>4, <1>14, <1>16

LEMMA ProcsSame ==
  ASSUME NEW m, NEW z, NEW M, ProcsQueued(m, M), SameProcs(m, z)
  PROVE  ProcsQueued(z, M)
<1>1. PICK k, n : ProcLine(m, M, k, n)
  BY DEF ProcsQueued
<1>2. Fresh(Procs, k, n) /\ Line(m, ProcQ, M, k) /\ Distinct(M, k) /\ M \in SUBSET Procs
  BY <1>1 DEF ProcLine, ProcsQueued
<1>3. z.head[ProcQ] = m.head[ProcQ] /\ z.tail[ProcQ] = m.tail[ProcQ]
  BY DEF SameProcs
<1>4. \A t \in M : z.next[t] = m.next[t] /\ k[t] = k[t]
  BY <1>2 DEF SameProcs
<1>5. Line(z, ProcQ, M, k)
  BY <1>2, <1>3, <1>4, LineSame
<1>6. ProcLine(z, M, k, n)
  BY <1>2, <1>5 DEF ProcLine
<1>7. m.head[ProcQ] # NULL => m.head[ProcQ] \in Procs
  BY <1>2 DEF Line
<1>8. z.head[ProcQ] # NULL => z.prev[z.head[ProcQ]] = NULL
  BY <1>3, <1>7 DEF ProcsQueued, SameProcs
<1>9. \A p \in Procs \ M : Linkable(z, p)
  BY DEF ProcsQueued, SameProcs, Linkable
<1>10. QED
  BY <1>2, <1>6, <1>8, <1>9 DEF ProcsQueued

LEMMA ProcsContents ==
  ASSUME NEW m, MemOK(m), NEW M, ProcsQueued(m, M)
  PROVE  /\ Contents(m, ProcQ) = M /\ Acyclic(m, ProcQ)
         /\ m.tail[ProcQ] = IF Length(m, ProcQ) = 0 THEN NULL ELSE Item(m, ProcQ, Length(m, ProcQ) - 1)
         /\ m.head[ProcQ] = NULL <=> M = {}
<1>1. PICK k, n : ProcLine(m, M, k, n)
  BY DEF ProcsQueued
<1>2. k \in [Procs -> Nat] /\ Line(m, ProcQ, M, k) /\ Distinct(M, k) /\ M \in SUBSET Procs
  BY <1>1 DEF ProcLine, ProcsQueued, Fresh
<1>3. m.head[ProcQ] = NULL <=> M = {}
  BY <1>2 DEF Line
<1>4. QED
  BY <1>2, <1>3, ProcsAre, LineContents

(* ProcQ::get_non_empty takes the first processor when none is empty.      *)
LEMMA FirstIsHead ==
  ASSUME NEW s, MemOK(s.mem), NEW M, ProcsQueued(s.mem, M), \A p \in M : ~Empty(s, p)
  PROVE  FirstNonEmpty(s) = s.mem.head[ProcQ]
<1> DEFINE n == Cardinality(NodesOf(s.mem))
           full == {i \in 0..n : Item(s.mem, ProcQ, i) # NULL /\ ~Empty(s, Item(s.mem, ProcQ, i))}
           e == CHOOSE i \in full : \A j \in full : i <= j
<1>1. n \in Nat
  <2>1. NodesOf(s.mem) = Node
    BY DEF MemOK, NodesOf
  <2>2. QED
    BY <2>1, Distinctness, FS_CardinalityType
<1>2. FirstNonEmpty(s) = IF full = {} THEN NULL ELSE Item(s.mem, ProcQ, e)
  BY DEF FirstNonEmpty
<1>3. Item(s.mem, ProcQ, 0) = s.mem.head[ProcQ]
  BY ItemSteps
<1>4. Contents(s.mem, ProcQ) = M /\ (s.mem.head[ProcQ] = NULL <=> M = {})
  BY ProcsContents
<1>5. CASE M = {}
  <2>1. \A i \in 0..n : Item(s.mem, ProcQ, i) = NULL
    BY <1>4, <1>5 DEF Contents
  <2>2. full = {}
    BY <2>1
  <2>3. QED
    BY <1>2, <1>4, <1>5, <2>2
<1>6. CASE M # {}
  <2>1. s.mem.head[ProcQ] # NULL /\ s.mem.head[ProcQ] \in M
    BY <1>6, UnqueueProc
  <2>2. 0 \in full
    BY <1>1, <1>3, <2>1
  <2>3. \A j \in full : 0 <= j /\ j \in Nat
    BY <1>1
  <2> HIDE DEF full
  <2>4. e \in full /\ e <= 0
    BY <2>2, <2>3
  <2>5. e = 0
    BY <2>3, <2>4
  <2>6. QED
    BY <1>2, <1>3, <2>2, <2>5
<1>7. QED
  BY <1>5, <1>6

-----------------------------------------------------------------------------
(* Operations on objects that leave the ready queues alone.                *)

(* Cluster::add_proc.                                                      *)
LEMMA AddProcGood ==
  ASSUME NEW s, Good(s), NEW p \in Procs
  PROVE  LET z == AddProc(s, p)
         IN  /\ Good(z)
             /\ z.pstate = [s.pstate EXCEPT ![p] = "Running"]
             /\ z.tstate = s.tstate /\ z.prio = s.prio /\ z.proc = s.proc /\ z.bt = s.bt
             /\ z.time = s.time /\ z.start = s.start
<1> DEFINE z == AddProc(s, p)
           a == Add(s.mem, ProcQ, p)
<1>1. ObjOK(s) /\ Homed(s) /\ MemOK(s.mem) /\ s.pstate \in [Procs -> {"None", "Waiting", "Running", "Busy"}]
  BY DEF Good, ObjOK
<1>2. CASE s.pstate[p] = "Running"
  <2>1. z = s
    BY <1>2 DEF AddProc
  <2>2. s.pstate = [s.pstate EXCEPT ![p] = "Running"]
    BY <1>1, <1>2
  <2>3. QED
    BY <2>1, <2>2
<1>3. CASE s.pstate[p] # "Running"
  <2>1. MemOK(a) /\ SameThreads(s.mem, a)
    BY <1>1, AddProcMem, ProcsOnlyOK
  <2>2. z = [[s EXCEPT !.pstate[p] = "Running"] EXCEPT !.mem = Add([s EXCEPT !.pstate[p] = "Running"].mem, ProcQ, p),
                !.bad = [s EXCEPT !.pstate[p] = "Running"].bad \/ ~Linkable([s EXCEPT !.pstate[p] = "Running"].mem, p)]
    BY <1>3 DEF AddProc, Enqueue
  <2>3. [s EXCEPT !.pstate[p] = "Running"].mem = s.mem /\ [s EXCEPT !.pstate[p] = "Running"].bad = s.bad
    BY <1>1 DEF ObjOK
  <2>4. z = [[s EXCEPT !.pstate[p] = "Running"] EXCEPT !.mem = a, !.bad = s.bad \/ ~Linkable(s.mem, p)]
    BY <2>2, <2>3
  <2> DEFINE bd == s.bad \/ ~Linkable(s.mem, p)
  <2>5. bd \in BOOLEAN
    BY <1>1 DEF ObjOK
  <2> HIDE DEF a, z, bd
  <2>6. /\ z.mem = a /\ z.bad = bd /\ z.pstate = [s.pstate EXCEPT ![p] = "Running"]
        /\ z.count = s.count /\ z.tstate = s.tstate /\ z.prio = s.prio /\ z.proc = s.proc
        /\ z.time = s.time /\ z.start = s.start /\ z.bt = s.bt
        /\ z = [mem |-> z.mem, count |-> z.count, tstate |-> z.tstate, prio |-> z.prio,
                proc |-> z.proc, time |-> z.time, start |-> z.start, pstate |-> z.pstate,
                bt |-> z.bt, bad |-> z.bad]
    BY <1>1, <2>4 DEF ObjOK, bd
  <2>7. z.pstate \in [Procs -> {"None", "Waiting", "Running", "Busy"}]
    BY <1>1, <2>6
  <2>8. ObjOK(z)
    BY <1>1, <2>1, <2>5, <2>6, <2>7 DEF ObjOK
  <2>9. /\ ReadySet(z) = ReadySet(s) /\ SameThreads(s.mem, z.mem) /\ z.count = s.count
        /\ \A t \in ReadySet(s) : /\ z.proc[t] \in Procs /\ Owner[z.proc[t]] = Owner[s.proc[t]]
                                  /\ z.prio[t] = s.prio[t]
        /\ \A t \in AllThreads : z.tstate[t] \notin {"Ready", "Done"} => s.tstate[t] \notin {"Ready", "Done"}
    BY <1>1, <2>1, <2>6 DEF ReadySet, Homed
  <2>10. Good(z)
    BY <2>8, <2>9, OtherFieldsGood
  <2>11. QED
    BY <2>6, <2>10 DEF z
<1>4. QED
  BY <1>2, <1>3

(* A processor leaves the queue of processors, and may change its state.   *)
LEMMA ProcMemGood ==
  ASSUME NEW s, Good(s), NEW a, ProcsOnly(s.mem, a)
  PROVE  LET z == [s EXCEPT !.mem = a]
         IN  /\ Good(z)
             /\ z.tstate = s.tstate /\ z.prio = s.prio /\ z.proc = s.proc /\ z.bt = s.bt
             /\ z.pstate = s.pstate
<1> DEFINE z == [s EXCEPT !.mem = a]
<1>1. ObjOK(s) /\ Homed(s) /\ MemOK(s.mem)
  BY DEF Good, ObjOK
<1>2. MemOK(a) /\ SameThreads(s.mem, a)
  BY <1>1, ProcsOnlyOK
<1>4. /\ z.mem = a /\ z.bad = s.bad /\ z.pstate = s.pstate
      /\ z.count = s.count /\ z.tstate = s.tstate /\ z.prio = s.prio /\ z.proc = s.proc
      /\ z.time = s.time /\ z.start = s.start /\ z.bt = s.bt
      /\ z = [mem |-> z.mem, count |-> z.count, tstate |-> z.tstate, prio |-> z.prio,
              proc |-> z.proc, time |-> z.time, start |-> z.start, pstate |-> z.pstate,
              bt |-> z.bt, bad |-> z.bad]
  BY <1>1 DEF ObjOK
<1> HIDE DEF z
<1>5. ObjOK(z)
  BY <1>1, <1>2, <1>4 DEF ObjOK
<1>6. /\ ReadySet(z) = ReadySet(s) /\ SameThreads(s.mem, z.mem) /\ z.count = s.count
      /\ \A t \in ReadySet(s) : /\ z.proc[t] \in Procs /\ Owner[z.proc[t]] = Owner[s.proc[t]]
                                /\ z.prio[t] = s.prio[t]
      /\ \A t \in AllThreads : z.tstate[t] \notin {"Ready", "Done"} => s.tstate[t] \notin {"Ready", "Done"}
  BY <1>1, <1>2, <1>4 DEF ReadySet, Homed
<1>7. Good(z)
  BY <1>5, <1>6, OtherFieldsGood
<1>8. QED
  BY <1>4, <1>7 DEF z

(* A single link of a processor, or an end of their queue, is set.         *)
LEMMA ProcLinkOnly ==
  ASSUME NEW m, MemOK(m), NEW x \in Procs, NEW v \in ProcPtr
  PROVE  /\ ProcsOnly(m, [m EXCEPT !.next[x] = v])
         /\ ProcsOnly(m, [m EXCEPT !.prev[x] = v])
         /\ ProcsOnly(m, [m EXCEPT !.head[ProcQ] = v])
         /\ ProcsOnly(m, [m EXCEPT !.tail[ProcQ] = v])
<1>1. /\ x \in Node /\ ProcQ \in AnyQ /\ v \in Node \cup {NULL}
      /\ \A t \in AllThreads : t # x /\ t \in Node
      /\ \A q \in ReadyQueues : q # ProcQ /\ q \in AnyQ
      /\ \A p \in Procs : p \in Node
  BY NodeFacts
<1>2. QED
  BY <1>1 DEF MemOK, ProcsOnly, SameThreads

(* An assertion is tested.                                                 *)
LEMMA BadGood ==
  ASSUME NEW s, Good(s), NEW b \in BOOLEAN
  PROVE  LET z == [s EXCEPT !.bad = b]
         IN  /\ Good(z)
             /\ z.tstate = s.tstate /\ z.prio = s.prio /\ z.proc = s.proc /\ z.bt = s.bt
             /\ z.pstate = s.pstate
<1> DEFINE z == [s EXCEPT !.bad = b]
<1>1. ObjOK(s) /\ Homed(s)
  BY DEF Good
<1>2. /\ z.mem = s.mem /\ z.bad = b /\ z.pstate = s.pstate
      /\ z.count = s.count /\ z.tstate = s.tstate /\ z.prio = s.prio /\ z.proc = s.proc
      /\ z.time = s.time /\ z.start = s.start /\ z.bt = s.bt
      /\ z = [mem |-> z.mem, count |-> z.count, tstate |-> z.tstate, prio |-> z.prio,
              proc |-> z.proc, time |-> z.time, start |-> z.start, pstate |-> z.pstate,
              bt |-> z.bt, bad |-> z.bad]
  BY <1>1 DEF ObjOK
<1> HIDE DEF z
<1>3. ObjOK(z)
  BY <1>1, <1>2 DEF ObjOK
<1>4. /\ ReadySet(z) = ReadySet(s) /\ SameThreads(s.mem, z.mem) /\ z.count = s.count
      /\ \A t \in ReadySet(s) : /\ z.proc[t] \in Procs /\ Owner[z.proc[t]] = Owner[s.proc[t]]
                                /\ z.prio[t] = s.prio[t]
      /\ \A t \in AllThreads : z.tstate[t] \notin {"Ready", "Done"} => s.tstate[t] \notin {"Ready", "Done"}
  BY <1>1, <1>2 DEF ReadySet, Homed, SameThreads
<1>5. Good(z)
  BY <1>3, <1>4, OtherFieldsGood
<1>6. QED
  BY <1>2, <1>5 DEF z

LEMMA ProcStateGood ==
  ASSUME NEW s, Good(s), NEW p \in Procs, NEW v \in {"Waiting", "Running", "Busy"}
  PROVE  LET z == [s EXCEPT !.pstate[p] = v]
         IN  /\ Good(z)
             /\ z.tstate = s.tstate /\ z.prio = s.prio /\ z.proc = s.proc /\ z.bt = s.bt
             /\ z.pstate = [s.pstate EXCEPT ![p] = v]
<1> DEFINE z == [s EXCEPT !.pstate[p] = v]
<1>1. ObjOK(s) /\ Homed(s) /\ MemOK(s.mem) /\ s.pstate \in [Procs -> {"None", "Waiting", "Running", "Busy"}]
  BY DEF Good, ObjOK
<1>2. /\ z.mem = s.mem /\ z.bad = s.bad /\ z.pstate = [s.pstate EXCEPT ![p] = v]
      /\ z.count = s.count /\ z.tstate = s.tstate /\ z.prio = s.prio /\ z.proc = s.proc
      /\ z.time = s.time /\ z.start = s.start /\ z.bt = s.bt
      /\ z = [mem |-> z.mem, count |-> z.count, tstate |-> z.tstate, prio |-> z.prio,
              proc |-> z.proc, time |-> z.time, start |-> z.start, pstate |-> z.pstate,
              bt |-> z.bt, bad |-> z.bad]
  BY <1>1 DEF ObjOK
<1> HIDE DEF z
<1>3. z.pstate \in [Procs -> {"None", "Waiting", "Running", "Busy"}]
  BY <1>1, <1>2
<1>4. ObjOK(z)
  BY <1>1, <1>2, <1>3 DEF ObjOK
<1>5. /\ ReadySet(z) = ReadySet(s) /\ SameThreads(s.mem, z.mem) /\ z.count = s.count
      /\ \A t \in ReadySet(s) : /\ z.proc[t] \in Procs /\ Owner[z.proc[t]] = Owner[s.proc[t]]
                                /\ z.prio[t] = s.prio[t]
      /\ \A t \in AllThreads : z.tstate[t] \notin {"Ready", "Done"} => s.tstate[t] \notin {"Ready", "Done"}
  BY <1>1, <1>2 DEF ReadySet, Homed, SameThreads
<1>6. Good(z)
  BY <1>4, <1>5, OtherFieldsGood
<1>7. QED
  BY <1>2, <1>6 DEF z

(* A thread that is not ready gets a new state, processor, priority or     *)
(* timer; a ready one may move to a processor with the same queues.        *)
FieldsSet(s, z, t, v, p, i, d, e) ==
  /\ v \in {"None", "Run", "Busy", "Ready", "Done"} /\ p \in ProcPtr /\ i \in Prios
  /\ d \in Times /\ e \in Times
  /\ v = "Ready" <=> t \in ReadySet(s)
  /\ v \notin {"Ready", "Done"} => s.tstate[t] # "Done"
  /\ t \in ReadySet(s) => p \in Procs /\ Owner[p] = Owner[s.proc[t]] /\ i = s.prio[t]
  /\ z = [mem |-> s.mem, count |-> s.count, tstate |-> [s.tstate EXCEPT ![t] = v],
          prio |-> [s.prio EXCEPT ![t] = i], proc |-> [s.proc EXCEPT ![t] = p],
          time |-> [s.time EXCEPT ![t] = d], start |-> [s.start EXCEPT ![t] = e],
          pstate |-> s.pstate, bt |-> s.bt, bad |-> s.bad]

LEMMA ThreadFieldsGood ==
  ASSUME NEW s, Good(s), NEW t \in AllThreads, NEW z,
         NEW v, NEW p, NEW i, NEW d, NEW e, FieldsSet(s, z, t, v, p, i, d, e)
  PROVE  Good(z)
<1> USE DEF FieldsSet
<1>1. /\ ObjOK(s) /\ Homed(s) /\ MemOK(s.mem)
      /\ s.tstate \in [AllThreads -> {"None", "Run", "Ready", "Busy", "Done"}]
      /\ s.prio \in [AllThreads -> Prios] /\ s.proc \in [AllThreads -> ProcPtr]
      /\ s.time \in [AllThreads -> Times] /\ s.start \in [AllThreads -> Times]
  BY DEF Good, ObjOK
<1>2. /\ z.mem = s.mem /\ z.bad = s.bad /\ z.pstate = s.pstate /\ z.bt = s.bt
      /\ z.count = s.count /\ z.tstate = [s.tstate EXCEPT ![t] = v]
      /\ z.prio = [s.prio EXCEPT ![t] = i] /\ z.proc = [s.proc EXCEPT ![t] = p]
      /\ z.time = [s.time EXCEPT ![t] = d] /\ z.start = [s.start EXCEPT ![t] = e]
      /\ z = [mem |-> z.mem, count |-> z.count, tstate |-> z.tstate, prio |-> z.prio,
              proc |-> z.proc, time |-> z.time, start |-> z.start, pstate |-> z.pstate,
              bt |-> z.bt, bad |-> z.bad]
  BY <1>1 DEF ObjOK
<1>3. /\ z.tstate \in [AllThreads -> {"None", "Run", "Ready", "Busy", "Done"}]
      /\ z.prio \in [AllThreads -> Prios] /\ z.proc \in [AllThreads -> ProcPtr]
      /\ z.time \in [AllThreads -> Times] /\ z.start \in [AllThreads -> Times]
  BY <1>1, <1>2
<1>4. ObjOK(z)
  BY <1>1, <1>2, <1>3 DEF ObjOK
<1>5. ReadySet(z) = ReadySet(s)
  BY <1>1, <1>2 DEF ReadySet
<1>6. \A u \in ReadySet(s) : /\ z.proc[u] \in Procs /\ Owner[z.proc[u]] = Owner[s.proc[u]]
                             /\ z.prio[u] = s.prio[u]
  BY <1>1, <1>2 DEF Homed, ReadySet
<1>7. \A u \in AllThreads : z.tstate[u] \notin {"Ready", "Done"} => s.tstate[u] \notin {"Ready", "Done"}
  BY <1>1, <1>2 DEF ReadySet
<1>8. SameThreads(s.mem, z.mem) /\ z.count = s.count
  BY <1>2 DEF SameThreads
<1>9. Good(z)
  BY <1>4, <1>5, <1>6, <1>7, <1>8, OtherFieldsGood
<1>10. QED
  BY <1>9

-----------------------------------------------------------------------------
(* The heap of delayed threads: push and pop permute its elements.         *)

(* Shift drops the element of the slot where the path starts and adds x.   *)
LEMMA ShiftFacts ==
  ASSUME NEW S, NEW n \in Nat, NEW a, NEW m \in Nat, NEW path, NEW x \in S,
         \A d \in 0..m : path[d] \in 1..n,
         \A d, e \in 0..m : path[d] = path[e] => d = e,
         \A j \in (1..n) \ {path[0]} : a[j] \in S
  PROVE  LET r == Shift(a, n, path, m, x)
             old == (1..n) \ {path[0]}
         IN  /\ r \in Seq(S) /\ Len(r) = n /\ DOMAIN r = 1..n
             /\ \A i \in 1..n : r[i] = x \/ \E j \in old : r[i] = a[j]
             /\ (\A j, l \in old : a[j] = a[l] => j = l) /\ (\A j \in old : a[j] # x)
                  => \A i, l \in 1..n : r[i] = r[l] => i = l
<1> DEFINE r == Shift(a, n, path, m, x)
           old == (1..n) \ {path[0]}
           On(i) == \E d \in 0..(m - 1) : path[d] = i
           At(i) == CHOOSE d \in 0..(m - 1) : path[d] = i
           From(i) == IF On(i) THEN path[1 + At(i)] ELSE i
<1>1. \A i \in 1..n : r[i] = IF i = path[m] THEN x ELSE a[From(i)]
  BY DEF Shift
<1>2. r = [i \in 1..n |-> r[i]]
  BY DEF Shift
<1> HIDE DEF r
<1>3. ASSUME NEW i \in 1..n, On(i) PROVE At(i) \in 0..(m - 1) /\ path[At(i)] = i
  BY <1>3
<1> HIDE DEF At
<1>4. ASSUME NEW i \in 1..n, i # path[m] PROVE From(i) \in old
  <2>1. CASE On(i)
    <3>1. At(i) \in 0..(m - 1) /\ path[At(i)] = i
      BY <1>3, <2>1
    <3>2. 1 + At(i) \in 0..m /\ 1 + At(i) # 0 /\ 0 \in 0..m
      BY <3>1
    <3>3. QED
      BY <2>1, <3>2
  <2>2. CASE ~On(i)
    <3>1. i # path[0]
      <4>1. CASE m = 0
        BY <1>4, <4>1
      <4>2. CASE m # 0
        <5>1. 0 \in 0..(m - 1)
          BY <4>2
        <5>2. QED
          BY <2>2, <5>1
      <4>3. QED
        BY <4>1, <4>2
    <3>2. QED
      BY <2>2, <3>1
  <2>3. QED
    BY <2>1, <2>2
<1>5. ASSUME NEW i \in 1..n, NEW l \in 1..n, i # path[m], l # path[m], From(i) = From(l)
      PROVE  i = l
  <2>1. CASE On(i) /\ On(l)
    <3>1. /\ At(i) \in 0..(m - 1) /\ path[At(i)] = i /\ At(l) \in 0..(m - 1) /\ path[At(l)] = l
      BY <1>3, <2>1
    <3>2. 1 + At(i) \in 0..m /\ 1 + At(l) \in 0..m /\ path[1 + At(i)] = path[1 + At(l)]
      BY <1>5, <2>1, <3>1
    <3>3. 1 + At(i) = 1 + At(l)
      BY <3>2
    <3>4. At(i) = At(l)
      BY <3>1, <3>3
    <3>5. QED
      BY <3>1, <3>4
  <2>2. ASSUME NEW c \in 1..n, NEW e \in 1..n, On(c), ~On(e), From(c) = From(e), e # path[m]
        PROVE  FALSE
    <3>1. At(c) \in 0..(m - 1) /\ path[1 + At(c)] = e
      BY <1>3, <2>2
    <3>2. 1 + At(c) # m
      BY <2>2, <3>1
    <3>3. 1 + At(c) \in 0..(m - 1)
      BY <3>1, <3>2
    <3>4. QED
      BY <2>2, <3>1, <3>3
  <2>3. CASE ~On(i) /\ ~On(l)
    BY <1>5, <2>3
  <2>4. QED
    BY <1>5, <2>1, <2>2, <2>3
<1> HIDE DEF From, On
<1>6. \A i \in 1..n : r[i] = x \/ \E j \in old : r[i] = a[j]
  BY <1>1, <1>4
<1>7. \A i \in 1..n : r[i] \in S
  BY <1>6
<1>8. r \in Seq(S) /\ Len(r) = n /\ DOMAIN r = 1..n
  <2>1. r \in [1..n -> S]
    BY <1>2, <1>7
  <2>2. QED
    BY <2>1
<1>9. ASSUME \A j, l \in old : a[j] = a[l] => j = l, \A j \in old : a[j] # x
      PROVE  \A i, l \in 1..n : r[i] = r[l] => i = l
  <2> SUFFICES ASSUME NEW i \in 1..n, NEW l \in 1..n, r[i] = r[l] PROVE i = l
    OBVIOUS
  <2>1. CASE i = path[m] /\ l = path[m]
    BY <2>1
  <2>2. CASE i = path[m] /\ l # path[m]
    BY <1>1, <1>4, <1>9, <2>2
  <2>3. CASE i # path[m] /\ l = path[m]
    BY <1>1, <1>4, <1>9, <2>3
  <2>4. CASE i # path[m] /\ l # path[m]
    <3>1. a[From(i)] = a[From(l)] /\ From(i) \in old /\ From(l) \in old
      BY <1>1, <1>4, <2>4
    <3>2. From(i) = From(l)
      BY <1>9, <3>1
    <3>3. QED
      BY <1>5, <2>4, <3>2
  <2>5. QED
    BY <2>1, <2>2, <2>3, <2>4
<1>10. QED
  BY <1>6, <1>8, <1>9 DEF r

(* A path that grows at every step up to m meets no slot twice.            *)
LEMMA Increasing ==
  ASSUME NEW m \in Nat, NEW f, \A d \in 0..m : f[d] \in Int,
         \A d \in 1..m : f[d - 1] < f[d]
  PROVE  \A d, e \in 0..m : f[d] = f[e] => d = e
<1> DEFINE T == {e \in 0..m : \E d \in 0..m : d < e /\ ~(f[d] < f[e])}
<1>1. T = {}
  <2>1. SUFFICES ASSUME T # {} PROVE FALSE
    OBVIOUS
  <2>2. T \in SUBSET Nat
    OBVIOUS
  <2>3. PICK e \in T : \A i \in T : e <= i
    BY <2>1, <2>2, LeastNat
  <2>4. PICK d \in 0..m : d < e /\ ~(f[d] < f[e])
    BY <2>3
  <2>5. e \in 1..m /\ e - 1 \in 0..m /\ ~(e <= e - 1) /\ f[e - 1] < f[e]
    BY <2>3, <2>4
  <2>6. e - 1 \notin T
    BY <2>3, <2>5
  <2>7. d = e - 1 \/ (d < e - 1 /\ f[d] < f[e - 1])
    BY <2>3, <2>4, <2>5, <2>6
  <2>8. f[d] \in Int /\ f[e] \in Int /\ f[e - 1] \in Int
    BY <2>3, <2>4, <2>5
  <2>9. QED
    BY <2>4, <2>5, <2>7, <2>8
<1>2. ASSUME NEW d \in 0..m, NEW e \in 0..m, d < e PROVE f[d] < f[e]
  BY <1>1, <1>2
<1> HIDE DEF T
<1>3. SUFFICES ASSUME NEW d \in 0..m, NEW e \in 0..m, f[d] = f[e], d # e PROVE FALSE
  OBVIOUS
<1>4. f[d] \in Int /\ f[e] \in Int /\ (d < e \/ e < d)
  BY <1>3
<1>5. QED
  BY <1>2, <1>3, <1>4

(* push adds x to the elements and keeps them distinct.                    *)
LEMMA HeapPushFacts ==
  ASSUME NEW S, NEW a \in Seq(S), NEW key, NEW x \in S,
         \A i, j \in 1..Len(a) : a[i] = a[j] => i = j, \A i \in 1..Len(a) : a[i] # x
  PROVE  LET r == HeapPush(a, key, x)
         IN  /\ r \in Seq(S) /\ Len(r) = Len(a) + 1
             /\ \A i, j \in 1..Len(r) : r[i] = r[j] => i = j
             /\ \A i \in 1..Len(r) : r[i] = x \/ \E j \in 1..Len(a) : r[i] = a[j]
<1> DEFINE n      == Len(a) + 1
           parent == [i \in 0..n |-> i \div 2]
           Eqn(g) == g = [k \in 0..n |-> IF k = 0 THEN n ELSE parent[g[k - 1]]]
           up     == CHOOSE g : Eqn(g)
           stops  == {k \in 0..n : up[k] = 1 \/ (up[k] > 1 /\ key[a[up[k] \div 2]] <= key[x])}
           m      == CHOOSE k \in stops : \A j \in stops : k <= j
<1>1. HeapPush(a, key, x) = Shift(a, n, up, m, x)
  BY DEF HeapPush
<1>2. n \in Nat /\ n >= 1
  OBVIOUS
<1>3. Eqn(up)
  <2>1. \E f : Path(n, parent, n, f)
    BY <1>2, PathExists
  <2>2. \E f : Eqn(f)
    BY <2>1 DEF Path
  <2>3. QED
    BY <2>2
<1>4. \A i \in 0..n : parent[i] = i \div 2
  OBVIOUS
<1> HIDE DEF parent, up
<1>5. up[0] = n /\ \A k \in 1..n : up[k] = parent[up[k - 1]]
  <2>1. up = [k \in 0..n |-> IF k = 0 THEN n ELSE parent[up[k - 1]]]
    BY <1>3
  <2>2. 0 \in 0..n /\ \A k \in 1..n : k \in 0..n /\ k # 0
    BY <1>2
  <2>3. QED
    BY <2>1, <2>2
<1>6. \A k \in 0..n : k \in stops <=> (up[k] = 1 \/ (up[k] > 1 /\ key[a[up[k] \div 2]] <= key[x]))
  OBVIOUS
<1>7. stops \in SUBSET (0..n)
  OBVIOUS
<1> HIDE DEF stops, n
<1>8. ASSUME NEW d \in 1..n, d - 1 \notin stops, up[d - 1] \in 1..n, up[d - 1] <= n - (d - 1)
      PROVE  up[d] \in 1..n /\ up[d] <= n - d /\ up[d] < up[d - 1]
  <2>1. d - 1 \in 0..n /\ up[d - 1] # 1
    BY <1>2, <1>6, <1>8
  <2>2. up[d] = up[d - 1] \div 2
    <3>1. up[d] = parent[up[d - 1]]
      BY <1>5
    <3>2. up[d - 1] \in 0..n
      BY <1>2, <1>8
    <3>3. QED
      BY <1>4, <3>1, <3>2
  <2>3. \A i \in 1..n : i # 1 => i \div 2 >= 1 /\ i \div 2 < i /\ i \div 2 \in Int
    BY <1>2
  <2>4. QED
    BY <1>2, <1>8, <2>1, <2>2, <2>3
<1> DEFINE T == {d \in 0..n : (\A k \in 0..(d - 1) : k \notin stops) /\ ~(up[d] \in 1..n /\ up[d] <= n - d)}
<1>9. T = {}
  <2>1. SUFFICES ASSUME T # {} PROVE FALSE
    OBVIOUS
  <2>2. T \in SUBSET Nat
    BY <1>2
  <2>3. PICK d \in T : \A i \in T : d <= i
    BY <2>1, <2>2, LeastNat
  <2>4. d # 0
    BY <1>2, <1>5, <2>3
  <2>5. d \in 1..n /\ d - 1 \in 0..n /\ ~(d <= d - 1) /\ d - 1 \in 0..(d - 1)
    BY <1>2, <2>3, <2>4
  <2>6. d - 1 \notin stops /\ \A k \in 0..((d - 1) - 1) : k \notin stops
    BY <2>3, <2>5
  <2>7. up[d - 1] \in 1..n /\ up[d - 1] <= n - (d - 1)
    BY <2>3, <2>5, <2>6
  <2>8. QED
    BY <1>8, <2>3, <2>5, <2>6, <2>7
<1>10. ASSUME NEW d \in 0..n, \A k \in 0..(d - 1) : k \notin stops
       PROVE  up[d] \in 1..n /\ up[d] <= n - d
  BY <1>9, <1>10
<1> HIDE DEF T
<1>11. stops # {}
  <2>1. SUFFICES ASSUME stops = {} PROVE FALSE
    OBVIOUS
  <2>2. n \in 0..n
    BY <1>2
  <2>3. up[n] \in 1..n /\ up[n] <= n - n
    BY <1>10, <2>1, <2>2
  <2>4. QED
    BY <1>2, <2>3
<1>12. m \in stops /\ \A j \in stops : m <= j
  <2>1. stops \in SUBSET Nat
    BY <1>2, <1>7
  <2>2. \E k \in stops : \A j \in stops : k <= j
    BY <1>11, <2>1, LeastNat
  <2>3. QED
    BY <2>2
<1> HIDE DEF m
<1>13. m \in Nat /\ m \in 0..n
  BY <1>2, <1>7, <1>12
<1>14. \A d \in 0..m : up[d] \in 1..n
  <2> SUFFICES ASSUME NEW d \in 0..m PROVE up[d] \in 1..n
    OBVIOUS
  <2>1. d \in 0..n /\ \A k \in 0..(d - 1) : k \notin stops
    BY <1>2, <1>12, <1>13
  <2>2. QED
    BY <1>10, <2>1
<1>15. \A d \in 1..m : up[d] < up[d - 1]
  <2> SUFFICES ASSUME NEW d \in 1..m PROVE up[d] < up[d - 1]
    OBVIOUS
  <2>1. d \in 1..n /\ d - 1 \in 0..n /\ d - 1 \notin stops /\ \A k \in 0..((d - 1) - 1) : k \notin stops
    BY <1>2, <1>12, <1>13
  <2>2. up[d - 1] \in 1..n /\ up[d - 1] <= n - (d - 1)
    BY <1>10, <2>1
  <2>3. QED
    BY <1>8, <2>1, <2>2
<1>16. \A d, e \in 0..m : up[d] = up[e] => d = e
  <2> DEFINE f == [d \in 0..m |-> 0 - up[d]]
  <2>1. \A d \in 0..m : f[d] = 0 - up[d] /\ up[d] \in Int
    BY <1>2, <1>14
  <2>2. \A d \in 0..m : f[d] \in Int
    BY <2>1
  <2>3. \A d \in 1..m : f[d - 1] < f[d]
    <3> SUFFICES ASSUME NEW d \in 1..m PROVE f[d - 1] < f[d]
      OBVIOUS
    <3>1. d \in 0..m /\ d - 1 \in 0..m /\ up[d] < up[d - 1]
      BY <1>13, <1>15
    <3>2. f[d] = 0 - up[d] /\ f[d - 1] = 0 - up[d - 1] /\ up[d] \in Int /\ up[d - 1] \in Int
      BY <2>1, <3>1
    <3> HIDE DEF f
    <3>3. QED
      BY <3>1, <3>2
  <2> HIDE DEF f
  <2>4. \A d, e \in 0..m : f[d] = f[e] => d = e
    BY ONLY <1>13, <2>2, <2>3, Increasing
  <2>5. QED
    BY <2>1, <2>4
<1>17. \A j \in (1..n) \ {up[0]} : j \in 1..Len(a) /\ a[j] \in S /\ a[j] # x
  BY <1>5 DEF n
<1>18. LET r == Shift(a, n, up, m, x)
           old == (1..n) \ {up[0]}
       IN  /\ r \in Seq(S) /\ Len(r) = n /\ DOMAIN r = 1..n
           /\ \A i \in 1..n : r[i] = x \/ \E j \in old : r[i] = a[j]
           /\ (\A j, l \in old : a[j] = a[l] => j = l) /\ (\A j \in old : a[j] # x)
                => \A i, l \in 1..n : r[i] = r[l] => i = l
  <2>1. /\ n \in Nat /\ m \in Nat /\ x \in S /\ \A d \in 0..m : up[d] \in 1..n
        /\ \A d, e \in 0..m : up[d] = up[e] => d = e
        /\ \A j \in (1..n) \ {up[0]} : a[j] \in S
    BY <1>2, <1>13, <1>14, <1>16, <1>17
  <2>2. QED
    BY ONLY <2>1, ShiftFacts
<1> DEFINE r == Shift(a, n, up, m, x)
<1> HIDE DEF r
<1>19. \A j, l \in (1..n) \ {up[0]} : a[j] = a[l] => j = l
  BY <1>17
<1>20. /\ r \in Seq(S) /\ Len(r) = n
       /\ \A i \in 1..n : r[i] = x \/ \E j \in (1..n) \ {up[0]} : r[i] = a[j]
       /\ \A i, l \in 1..n : r[i] = r[l] => i = l
  BY <1>17, <1>18, <1>19 DEF r
<1>21. \A i \in 1..n : r[i] = x \/ \E j \in 1..Len(a) : r[i] = a[j]
  BY <1>17, <1>20
<1>22. HeapPush(a, key, x) = r
  BY <1>1 DEF r
<1>23. QED
  BY <1>20, <1>21, <1>22 DEF n

(* pop takes the top out of the elements and keeps them distinct.          *)
LEMMA HeapPopFacts ==
  ASSUME NEW S, NEW a \in Seq(S), a # <<>>, NEW key,
         \A i, j \in 1..Len(a) : a[i] = a[j] => i = j
  PROVE  LET r == HeapPop(a, key)
         IN  /\ r \in Seq(S) /\ Len(r) = Len(a) - 1
             /\ \A i, j \in 1..Len(r) : r[i] = r[j] => i = j
             /\ \A i \in 1..Len(r) : \E j \in 2..Len(a) : r[i] = a[j]
<1> DEFINE n     == Len(a) - 1
           child == [i \in 1..n |-> MovedChild(a, key, n, i)]
           Eqn(g) == g = [d \in 0..n |-> IF d = 0 THEN 1 ELSE child[g[d - 1]]]
           hole  == CHOOSE g : Eqn(g)
           stops == {d \in 0..n : d = 0 \/ (hole[d] # hole[d - 1] /\ key[a[hole[d]]] <= key[a[n + 1]])}
           m     == CHOOSE d \in stops : \A e \in stops : e <= d
<1>1. HeapPop(a, key) = Shift(a, n, hole, m, a[n + 1])
  BY DEF HeapPop
<1>2. n \in Nat /\ n + 1 = Len(a) /\ 1 \in 1..Len(a) /\ Len(a) \in Nat
  OBVIOUS
<1>3. Eqn(hole)
  <2>1. \E f : Path(1, child, n, f)
    BY <1>2, PathExists
  <2>2. \E f : Eqn(f)
    BY <2>1 DEF Path
  <2>3. QED
    BY <2>2
<1>4. \A i \in 1..n : child[i] \in 1..n /\ (child[i] = i \/ i < child[i])
  <2> SUFFICES ASSUME NEW i \in 1..n PROVE child[i] \in 1..n /\ (child[i] = i \/ i < child[i])
    OBVIOUS
  <2>1. child[i] = MovedChild(a, key, n, i)
    OBVIOUS
  <2>2. MovedChild(a, key, n, i) = i \/ (MovedChild(a, key, n, i) = 2 * i /\ 2 * i <= n)
          \/ (MovedChild(a, key, n, i) = 2 * i + 1 /\ 2 * i + 1 <= n)
    BY <1>2 DEF MovedChild
  <2>3. QED
    BY <1>2, <2>1, <2>2
<1> HIDE DEF child, hole
<1>5. hole[0] = 1 /\ \A d \in 1..n : hole[d] = child[hole[d - 1]]
  <2>1. hole = [d \in 0..n |-> IF d = 0 THEN 1 ELSE child[hole[d - 1]]]
    BY <1>3
  <2>2. 0 \in 0..n /\ \A k \in 1..n : k \in 0..n /\ k # 0
    BY <1>2
  <2>3. QED
    BY <2>1, <2>2
<1>6. m \in stops /\ m \in 0..n /\ m \in Nat
  <2>1. stops \in SUBSET (0..n) /\ 0 \in stops
    BY <1>2
  <2> HIDE DEF stops
  <2>2. m \in stops
    BY <1>2, <2>1, GreatestOf
  <2> HIDE DEF m, n
  <2>3. QED
    BY <1>2, <2>1, <2>2
<1>7. m = 0 \/ hole[m] # hole[m - 1]
  BY <1>6
<1> HIDE DEF stops, m
<1>8. CASE n = 0
  <2> DEFINE r == HeapPop(a, key)
  <2>1. r = [i \in 1..0 |-> r[i]]
    BY <1>1, <1>8 DEF Shift
  <2> HIDE DEF r
  <2>2. r \in [1..0 -> S]
    BY <2>1
  <2>3. r \in Seq(S) /\ Len(r) = 0
    BY <2>2
  <2>4. Len(a) - 1 = 0 /\ \A i \in 1..Len(r) : FALSE
    BY <1>8, <2>3
  <2>5. QED
    BY <2>3, <2>4 DEF r
<1>9. CASE n # 0
  <2> DEFINE T == {d \in 0..n : hole[d] \notin 1..n}
  <2>1. T = {}
    <3>1. SUFFICES ASSUME T # {} PROVE FALSE
      OBVIOUS
    <3>2. T \in SUBSET Nat
      BY <1>2
    <3>3. PICK d \in T : \A i \in T : d <= i
      BY <3>1, <3>2, LeastNat
    <3>4. d # 0
      BY <1>2, <1>5, <1>9, <3>3
    <3>5. d \in 1..n /\ d - 1 \in 0..n /\ ~(d <= d - 1)
      BY <1>2, <3>3, <3>4
    <3>6. hole[d - 1] \in 1..n
      BY <3>3, <3>5
    <3>7. QED
      BY <1>4, <1>5, <3>3, <3>5, <3>6
  <2>2. \A d \in 0..n : hole[d] \in 1..n
    BY <2>1
  <2> HIDE DEF T
  <2>3. \A d \in 1..n : hole[d] = hole[d - 1] \/ hole[d - 1] < hole[d]
    <3> SUFFICES ASSUME NEW d \in 1..n PROVE hole[d] = hole[d - 1] \/ hole[d - 1] < hole[d]
      OBVIOUS
    <3>1. d - 1 \in 0..n /\ hole[d - 1] \in 1..n
      BY <1>2, <2>2
    <3>2. QED
      BY <1>4, <1>5, <3>1
  <2>4. \A d \in 1..m : hole[d] # hole[d - 1]
    <3> DEFINE U == {e \in 0..m : e # m /\ hole[m - e] = hole[m - e - 1]}
    <3>1. U = {}
      <4>1. SUFFICES ASSUME U # {} PROVE FALSE
        OBVIOUS
      <4>2. U \in SUBSET Nat
        BY <1>6
      <4>3. PICK e \in U : \A i \in U : e <= i
        BY <4>1, <4>2, LeastNat
      <4>4. e # 0
        BY <1>6, <1>7, <4>3
      <4>5. /\ e - 1 \in 0..m /\ e - 1 # m /\ ~(e <= e - 1) /\ m - e \in 1..n /\ m - e + 1 \in 1..n
            /\ m - (e - 1) = m - e + 1 /\ m - (e - 1) - 1 = m - e
        BY <1>2, <1>6, <4>3, <4>4
      <4>6. hole[m - e + 1] # hole[m - e]
        BY <4>3, <4>5
      <4>7. hole[m - e] = child[hole[m - e - 1]]
        BY <1>5, <4>5
      <4>8. hole[m - e + 1] = child[hole[m - e]]
        <5>1. (m - e + 1) - 1 = m - e
          BY <4>5
        <5>2. QED
          BY <1>5, <4>5, <5>1
      <4>9. QED
        BY <4>3, <4>6, <4>7, <4>8
    <3> SUFFICES ASSUME NEW d \in 1..m PROVE hole[d] # hole[d - 1]
      OBVIOUS
    <3>2. m - d \in 0..m /\ m - d # m /\ m - (m - d) = d
      BY <1>6
    <3>3. m - d \notin U
      BY <3>1
    <3>4. ~(hole[m - (m - d)] = hole[m - (m - d) - 1])
      BY <3>2, <3>3
    <3>5. QED
      BY <3>2, <3>4
  <2>5. \A d \in 0..m : hole[d] \in 1..n /\ hole[d] \in Int
    BY <1>2, <1>6, <2>2
  <2>6. \A d \in 1..m : hole[d - 1] < hole[d]
    BY <1>2, <1>6, <2>3, <2>4
  <2>7. \A d, e \in 0..m : hole[d] = hole[e] => d = e
    BY ONLY <1>6, <2>5, <2>6, Increasing
  <2>8. \A j \in (1..n) \ {hole[0]} : j \in 2..n /\ j \in 1..Len(a) /\ a[j] \in S /\ a[j] # a[n + 1]
    <3> SUFFICES ASSUME NEW j \in 1..n, j # 1
                 PROVE  j \in 2..n /\ j \in 1..Len(a) /\ a[j] \in S /\ a[j] # a[n + 1]
      BY <1>5
    <3>1. j \in 2..n /\ j \in 1..Len(a) /\ n + 1 \in 1..Len(a) /\ j # n + 1
      <4> HIDE DEF n
      <4>1. QED
        BY <1>2
    <3>2. QED
      BY <3>1
  <2> DEFINE x == a[n + 1]
  <2>9. x \in S /\ n + 1 \in 2..Len(a)
    BY <1>2, <1>9
  <2> HIDE DEF x, n
  <2>10. LET r == Shift(a, n, hole, m, x)
             old == (1..n) \ {hole[0]}
         IN  /\ r \in Seq(S) /\ Len(r) = n /\ DOMAIN r = 1..n
             /\ \A i \in 1..n : r[i] = x \/ \E j \in old : r[i] = a[j]
             /\ (\A j, l \in old : a[j] = a[l] => j = l) /\ (\A j \in old : a[j] # x)
                  => \A i, l \in 1..n : r[i] = r[l] => i = l
    <3>1. /\ n \in Nat /\ m \in Nat /\ x \in S /\ \A d \in 0..m : hole[d] \in 1..n
          /\ \A d, e \in 0..m : hole[d] = hole[e] => d = e
          /\ \A j \in (1..n) \ {hole[0]} : a[j] \in S
      BY <1>2, <1>6, <2>5, <2>7, <2>8, <2>9
    <3>2. QED
      BY ONLY <3>1, ShiftFacts, SMTT(30)
  <2> DEFINE r == Shift(a, n, hole, m, x)
  <2> HIDE DEF r
  <2>11. (\A j, l \in (1..n) \ {hole[0]} : a[j] = a[l] => j = l) /\ \A j \in (1..n) \ {hole[0]} : a[j] # x
    BY <2>8 DEF x
  <2>12. /\ r \in Seq(S) /\ Len(r) = n
         /\ \A i \in 1..n : r[i] = x \/ \E j \in (1..n) \ {hole[0]} : r[i] = a[j]
         /\ \A i, l \in 1..n : r[i] = r[l] => i = l
    BY <2>10, <2>11 DEF r
  <2>13. \A i \in 1..n : \E j \in 2..Len(a) : r[i] = a[j]
    <3> SUFFICES ASSUME NEW i \in 1..n PROVE \E j \in 2..Len(a) : r[i] = a[j]
      OBVIOUS
    <3>1. CASE r[i] = x
      BY <2>9, <3>1 DEF x
    <3>2. CASE r[i] # x
      <4>1. PICK j \in (1..n) \ {hole[0]} : r[i] = a[j]
        BY <2>12, <3>2
      <4>2. j \in 2..Len(a)
        BY <1>2, <2>8
      <4>3. QED
        BY <4>1, <4>2
    <3>3. QED
      BY <3>1, <3>2
  <2>14. HeapPop(a, key) = r
    BY <1>1 DEF r, x
  <2>15. QED
    BY <2>12, <2>13, <2>14 DEF n
<1>10. QED
  BY <1>8, <1>9
=============================================================================
