-------------------------- MODULE ActiveListProofs --------------------------
(***************************************************************************)
(* Proofs about ActiveList, for any finite set of threads.                 *)
(***************************************************************************)
EXTENDS ActiveList, WalkTheorems, FiniteSetTheorems

-----------------------------------------------------------------------------
(* Links and ages.                                                         *)

Stacks == {"none", "allocated", "disposed"}
Ptr == All \cup {NULL}

Types == /\ active \in Ptr /\ nt \in [All -> Ptr] /\ pt \in [All -> Ptr]
         /\ stack \in [All -> Stacks]

(* A thread that was never in the list has no links and nothing links to   *)
(* it.                                                                     *)
Unborn ==
  \A x \in All : stack[x] = "none" =>
    /\ nt[x] = NULL /\ pt[x] = NULL /\ active # x
    /\ \A y \in All : nt[y] # x /\ pt[y] # x

(* Forward links lead to threads realized earlier, back links to threads   *)
(* realized later, stale ones included: r numbers the calls of realize(),  *)
(* of which there were n.                                                  *)
Ages(r, n) ==
  /\ r \in [All -> Nat] /\ n \in Nat
  /\ \A x \in All : /\ r[x] < n
                    /\ nt[x] # NULL => r[nt[x]] < r[x]
                    /\ pt[x] # NULL => r[x] < r[pt[x]]

Ordered == Types /\ Unborn /\ \E r, n : Ages(r, n)

(* Every step keeps the order of ages.                                     *)
LEMMA OrderedKept == Ordered /\ [Next]_vars => Ordered'
<1> SUFFICES ASSUME Ordered, [Next]_vars PROVE Ordered'
  OBVIOUS
<1>0. /\ active \in Ptr /\ nt \in [All -> Ptr] /\ pt \in [All -> Ptr]
      /\ stack \in [All -> Stacks] /\ NULL \notin All /\ Threads \subseteq All
  BY ActiveAssumption DEF Ordered, Types, All
<1>u. \A x \in All : stack[x] = "none" =>
        /\ nt[x] = NULL /\ pt[x] = NULL /\ active # x
        /\ \A y \in All : nt[y] # x /\ pt[y] # x
  BY DEF Ordered, Unborn
<1>a. PICK r, n : Ages(r, n)
  BY DEF Ordered
<1>r. /\ r \in [All -> Nat] /\ n \in Nat
      /\ \A x \in All : /\ r[x] < n
                        /\ nt[x] # NULL => r[nt[x]] < r[x]
                        /\ pt[x] # NULL => r[x] < r[pt[x]]
  BY <1>a DEF Ages
<1>1. ASSUME NEW x \in Threads, Realize(x) PROVE Ordered'
  <2>1. /\ stack[x] = "none" /\ stack' = [stack EXCEPT ![x] = "allocated"]
        /\ nt' = [nt EXCEPT ![x] = active] /\ active' = x /\ x \in All
        /\ pt' = IF active = NULL THEN [pt EXCEPT ![x] = NULL]
                                  ELSE [pt EXCEPT ![x] = NULL, ![active] = x]
    BY <1>0, <1>1 DEF Realize
  <2>2. /\ active # x /\ nt[x] = NULL /\ pt[x] = NULL
        /\ \A y \in All : nt[y] # x /\ pt[y] # x
    BY <1>u, <2>1
  <2>3. /\ \A y \in All : nt'[y] = IF y = x THEN active ELSE nt[y]
        /\ \A y \in All : pt'[y] = IF y = x THEN NULL ELSE IF y = active THEN x ELSE pt[y]
        /\ \A y \in All : stack'[y] = IF y = x THEN "allocated" ELSE stack[y]
    BY <1>0, <2>1, <2>2 DEF Ptr
  <2>4. Types'
    BY <1>0, <2>1 DEF Types, Ptr, Stacks
  <2>5. Unborn'
    BY <1>0, <1>u, <2>1, <2>3 DEF Unborn, Ptr
  <2>6. Ages([r EXCEPT ![x] = n], n + 1)'
    <3> DEFINE s == [r EXCEPT ![x] = n]
    <3>1. s \in [All -> Nat] /\ \A y \in All : s[y] = IF y = x THEN n ELSE r[y]
      BY <1>r
    <3> HIDE DEF s
    <3>2. ASSUME NEW y \in All
          PROVE  /\ s[y] < n + 1
                 /\ nt'[y] # NULL => s[nt'[y]] < s[y]
                 /\ pt'[y] # NULL => s[y] < s[pt'[y]]
      <4>1. s[y] < n + 1
        BY <1>r, <3>1
      <4>2. ASSUME nt'[y] # NULL PROVE s[nt'[y]] < s[y]
        <5>1. nt'[y] \in All
          BY <2>4, <4>2 DEF Types, Ptr
        <5>2. QED
          BY <1>0, <1>r, <2>2, <2>3, <3>1, <4>2, <5>1 DEF Ptr
      <4>3. ASSUME pt'[y] # NULL PROVE s[y] < s[pt'[y]]
        <5>1. pt'[y] \in All
          BY <2>4, <4>3 DEF Types, Ptr
        <5>2. QED
          BY <1>0, <1>r, <2>1, <2>2, <2>3, <3>1, <4>3, <5>1 DEF Ptr
      <4>4. QED
        BY <4>1, <4>2, <4>3
    <3>3. n + 1 \in Nat
      BY <1>r
    <3>4. QED
      BY <3>1, <3>2, <3>3 DEF Ages, s
  <2>7. QED
    BY <2>4, <2>5, <2>6 DEF Ordered
<1>2. ASSUME NEW x \in Threads, Destroy(x), pt[x] # NULL PROVE Ordered'
  <2>1. /\ stack[x] = "allocated" /\ stack' = [stack EXCEPT ![x] = "disposed"]
        /\ nt' = [nt EXCEPT ![pt[x]] = nt[x], ![x] = NULL]
        /\ pt' = [pt EXCEPT ![x] = NULL] /\ active' = active
        /\ x \in All /\ pt[x] \in All /\ stack[pt[x]] # "none"
    BY <1>0, <1>2, <1>u DEF Destroy, Ptr
  <2>2. /\ \A y \in All : nt'[y] = IF y = x THEN NULL ELSE IF y = pt[x] THEN nt[x] ELSE nt[y]
        /\ \A y \in All : pt'[y] = IF y = x THEN NULL ELSE pt[y]
        /\ \A y \in All : stack'[y] = IF y = x THEN "disposed" ELSE stack[y]
    BY <1>0, <2>1
  <2>3. Types'
    BY <1>0, <2>1 DEF Types, Ptr, Stacks
  <2>4. Unborn'
    BY <1>0, <1>u, <2>1, <2>2 DEF Unborn
  <2>5. ASSUME NEW y \in All
        PROVE  /\ nt'[y] # NULL => r[nt'[y]] < r[y]
               /\ pt'[y] # NULL => r[y] < r[pt'[y]]
    <3>1. CASE y = pt[x] /\ y # x
      <4>1. nt[x] # NULL => r[nt[x]] < r[x] /\ r[x] < r[pt[x]] /\ nt[x] \in All
        BY <1>0, <1>2, <1>r, <2>1 DEF Ptr
      <4>2. r[x] \in Nat /\ r[pt[x]] \in Nat /\ (nt[x] # NULL => r[nt[x]] \in Nat)
        BY <1>r, <2>1, <4>1
      <4>3. nt'[y] = nt[x] /\ pt'[y] = pt[y]
        BY <2>2, <3>1
      <4>4. QED
        BY <1>r, <3>1, <4>1, <4>2, <4>3
    <3>2. CASE ~(y = pt[x] /\ y # x)
      BY <1>r, <2>2, <3>2
    <3>3. QED
      BY <3>1, <3>2
  <2>6. Ages(r, n)'
    BY <1>r, <2>5 DEF Ages
  <2>7. QED
    BY <2>3, <2>4, <2>6 DEF Ordered
<1>3. ASSUME NEW x \in Threads, Destroy(x), pt[x] = NULL PROVE Ordered'
  <2>1. /\ stack[x] = "allocated" /\ stack' = [stack EXCEPT ![x] = "disposed"]
        /\ active' = nt[x] /\ nt' = [nt EXCEPT ![x] = NULL] /\ x \in All
        /\ pt' = IF nt[x] = NULL THEN [pt EXCEPT ![x] = NULL]
                                 ELSE [pt EXCEPT ![x] = NULL, ![nt[x]] = NULL]
    BY <1>0, <1>3 DEF Destroy
  <2>2. /\ \A y \in All : nt'[y] = IF y = x THEN NULL ELSE nt[y]
        /\ \A y \in All : pt'[y] = IF y = x \/ y = nt[x] THEN NULL ELSE pt[y]
        /\ \A y \in All : stack'[y] = IF y = x THEN "disposed" ELSE stack[y]
    BY <1>0, <2>1 DEF Ptr
  <2>3. Types'
    BY <1>0, <2>1 DEF Types, Ptr, Stacks
  <2>4. Unborn'
    BY <1>0, <1>u, <2>1, <2>2 DEF Unborn
  <2>5. Ages(r, n)'
    BY <1>r, <2>2 DEF Ages
  <2>6. QED
    BY <2>3, <2>4, <2>5 DEF Ordered
<1>4. CASE UNCHANGED vars
  <2>1. active' = active /\ nt' = nt /\ pt' = pt /\ stack' = stack
    BY <1>4 DEF vars
  <2>2. Types' /\ Unborn'
    BY <2>1 DEF Ordered, Types, Unborn
  <2>3. Ages(r, n)'
    BY <1>r, <2>1 DEF Ages
  <2>4. QED
    BY <2>2, <2>3 DEF Ordered
<1>5. QED
  BY <1>1, <1>2, <1>3, <1>4 DEF Next

-----------------------------------------------------------------------------
(* The walk of the collector.                                              *)

(* Visited is the walk from the head of the list.                          *)
LEMMA VisitedWalks ==
  \E f : Walk(NULL, active, nt, f) /\ \A n \in Nat : Visited(n) = f[n]
<1> DEFINE at == CHOOSE g : g = [i \in Nat |-> IF i = 0 THEN active
                       ELSE IF g[i - 1] = NULL THEN NULL ELSE nt[g[i - 1]]]
<1>1. \A n \in Nat : Visited(n) = at[n]
  BY DEF Visited
<1>2. \E f : Walk(NULL, active, nt, f)
  BY WalkExists
<1>3. Walk(NULL, active, nt, at)
  BY <1>2 DEF Walk
<1>4. QED
  BY <1>1, <1>3

(* The walk meets threads of decreasing age, so no thread twice, and ends. *)
LEMMA OrderedEnds == Ordered => WalkEnds
<1> SUFFICES ASSUME Ordered, ~WalkEnds PROVE FALSE
  OBVIOUS
<1>0. /\ active \in Ptr /\ nt \in [All -> Ptr] /\ NULL \notin All
  BY ActiveAssumption DEF Ordered, Types, All
<1>r. PICK r, n : Ages(r, n)
  BY DEF Ordered
<1>a. /\ r \in [All -> Nat]
      /\ \A x \in All : nt[x] # NULL => r[nt[x]] < r[x]
  BY <1>r DEF Ages
<1>f. PICK f : Walk(NULL, active, nt, f) /\ \A i \in Nat : Visited(i) = f[i]
  BY VisitedWalks
<1> DEFINE N == Cardinality(All)
<1>1. IsFiniteSet(All) /\ N \in Nat
  <2>1. IsFiniteSet(Threads \cup {MAIN})
    BY ActiveAssumption, FS_AddElement
  <2>2. QED
    BY <2>1, FS_CardinalityType DEF All
<1>2. f[N] # NULL
  BY <1>1, <1>f DEF WalkEnds
<1> HIDE DEF N
<1>3. /\ f[0] = active
      /\ \A i \in Nat : f[i + 1] = IF f[i] = NULL THEN NULL ELSE nt[f[i]]
  <2>1. f[0] = active
    BY <1>f DEF Walk
  <2>2. ASSUME NEW i \in Nat PROVE f[i + 1] = IF f[i] = NULL THEN NULL ELSE nt[f[i]]
    <3>1. i + 1 \in Nat /\ i + 1 # 0 /\ (i + 1) - 1 = i
      OBVIOUS
    <3>2. QED
      BY <1>f, <3>1 DEF Walk
  <2>3. QED
    BY <2>1, <2>2
<1>4. ASSUME NEW i \in 0..N PROVE f[i] # NULL
  <2> DEFINE T == {j \in Nat : i <= j /\ j <= N /\ f[j] # NULL}
  <2>1. SUFFICES ASSUME f[i] = NULL PROVE FALSE
    OBVIOUS
  <2>2. N \in T
    BY <1>1, <1>2
  <2>3. PICK k \in T : \A j \in T : k <= j
    BY <2>2, LeastNat
  <2>4. k \in Nat /\ k # i /\ k - 1 \in Nat /\ i <= k - 1 /\ k - 1 <= N /\ (k - 1) + 1 = k
    BY <1>1, <2>1, <2>3
  <2>5. f[k - 1] = NULL
    BY <2>3, <2>4
  <2>6. f[k] = NULL
    BY <1>3, <2>4, <2>5
  <2>7. QED
    BY <2>3, <2>6
<1>5. ASSUME NEW i \in 0..N PROVE f[i] \in All
  <2> DEFINE T == {j \in 0..N : f[j] \notin All}
  <2>1. SUFFICES ASSUME T # {} PROVE FALSE
    BY <1>5
  <2>2. T \in SUBSET Nat
    BY <1>1
  <2>3. PICK k \in T : \A j \in T : k <= j
    BY <2>1, <2>2, LeastNat
  <2>4. k # 0
    <3>1. f[0] \in All
      BY <1>0, <1>1, <1>3, <1>4 DEF Ptr
    <3>2. QED
      BY <2>3, <3>1
  <2>5. k - 1 \in 0..N /\ k - 1 \in Nat /\ ~(k <= k - 1) /\ (k - 1) + 1 = k /\ k \in 0..N
    BY <1>1, <2>3, <2>4
  <2>6. f[k - 1] \in All
    BY <2>3, <2>5
  <2>7. f[k] = nt[f[k - 1]]
    BY <1>0, <1>3, <2>5, <2>6
  <2>8. f[k] \in All
    BY <1>0, <1>4, <2>5, <2>6, <2>7 DEF Ptr
  <2>9. QED
    BY <2>3, <2>8
<1>6. ASSUME NEW i \in 0..N, NEW j \in 0..N, i < j PROVE r[f[j]] < r[f[i]]
  <2> DEFINE T == {k \in 0..N : i < k /\ ~(r[f[k]] < r[f[i]])}
  <2>1. SUFFICES ASSUME T # {} PROVE FALSE
    BY <1>6
  <2>2. T \in SUBSET Nat
    BY <1>1
  <2>3. PICK k \in T : \A l \in T : k <= l
    BY <2>1, <2>2, LeastNat
  <2>4. /\ k \in 0..N /\ i < k /\ k - 1 \in 0..N /\ k - 1 \in Nat /\ (k - 1) + 1 = k
        /\ ~(k <= k - 1) /\ (k - 1 = i \/ i < k - 1)
    BY <1>1, <2>3
  <2>5. f[k] \in All /\ f[k - 1] \in All /\ f[i] \in All /\ f[k] # NULL
    BY <1>4, <1>5, <2>4
  <2>6. f[k] = nt[f[k - 1]]
    BY <1>0, <1>3, <2>4, <2>5
  <2>7. r[f[k]] < r[f[k - 1]]
    BY <1>a, <2>5, <2>6
  <2>8. k - 1 = i \/ r[f[k - 1]] < r[f[i]]
    BY <2>3, <2>4
  <2>9. r[f[k]] \in Nat /\ r[f[k - 1]] \in Nat /\ r[f[i]] \in Nat
    BY <1>a, <2>5
  <2>10. r[f[k]] < r[f[i]]
    BY <2>7, <2>8, <2>9
  <2>11. QED
    BY <2>3, <2>10
<1>7. IsFiniteSet(0..N) /\ Cardinality(0..N) = N + 1
  BY <1>1, FS_Interval
<1> DEFINE g == [i \in 0..N |-> f[i]]
<1>8. g \in [0..N -> All]
  BY <1>5
<1>9. Cardinality(All) < Cardinality(0..N)
  BY <1>1, <1>7 DEF N
<1>10. \A i \in 0..N : g[i] = f[i]
  OBVIOUS
<1> HIDE DEF g
<1>11. \E i, j \in 0..N : i # j /\ g[i] = g[j]
  <2>1. IsFiniteSet(All)
    BY <1>1
  <2>2. QED
    BY <1>7, <1>8, <1>9, <2>1, FS_PigeonHole
<1>12. PICK i \in 0..N, j \in 0..N : i # j /\ g[i] = g[j]
  BY <1>11
<1>13. f[i] = f[j] /\ r[f[i]] \in Nat
  BY <1>a, <1>5, <1>10, <1>12
<1>14. i < j \/ j < i
  BY <1>1, <1>12
<1>15. QED
  BY <1>6, <1>13, <1>14

(* The list that push_other_roots() and num_active_threads() walk has an   *)
(* end, in whatever order threads were realized and destroyed: although    *)
(* remove_active_thread() leaves back links that are out of date, they     *)
(* never lead it to make a cycle.                                          *)
THEOREM CollectorWalkEnds == Spec => []WalkEnds
<1>1. Init => Ordered
  <2> SUFFICES ASSUME Init PROVE Ordered
    OBVIOUS
  <2>1. /\ active = MAIN /\ nt = [t \in All |-> NULL] /\ pt = [t \in All |-> NULL]
        /\ stack = [t \in All |-> IF t = MAIN THEN "allocated" ELSE "none"]
        /\ NULL \notin All /\ MAIN \in All
    BY ActiveAssumption DEF Init, All
  <2>2. Types /\ Unborn
    BY <2>1 DEF Types, Unborn, Ptr, Stacks
  <2>3. Ages([t \in All |-> 0], 1)
    BY <2>1 DEF Ages
  <2>4. QED
    BY <2>2, <2>3 DEF Ordered
<1>2. QED
  BY <1>1, OrderedKept, OrderedEnds, PTL DEF Spec

=============================================================================
