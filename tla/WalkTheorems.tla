---------------------------- MODULE WalkTheorems ----------------------------
(***************************************************************************)
(* Walks along links: from start through next until null is met.  The      *)
(* loops of the code over linked objects are modelled by such a function   *)
(* of the number of links followed.                                        *)
(***************************************************************************)
EXTENDS Integers, NaturalsInduction, WellFoundedInduction, TLAPS

(* Where a walk goes from x, and f is the walk from start.                 *)
Follow(null, next, x) == IF x = null THEN null ELSE next[x]
Walk(null, start, next, f) ==
  f = [i \in Nat |-> IF i = 0 THEN start
                     ELSE IF f[i - 1] = null THEN null ELSE next[f[i - 1]]]

(* A set of natural numbers that is not empty has a least element: the     *)
(* form of induction used below.                                           *)
LEMMA LeastNat ==
  ASSUME NEW T \in SUBSET Nat, T # {}
  PROVE  \E n \in T : \A i \in T : n <= i
<1>1. PICK n \in T : \A i \in T : ~(<<i, n>> \in OpToRel(<, Nat))
  BY NatLessThanWellFounded, WFMin, Zenon
<1>2. \A i \in T : ~(i < n)
  BY <1>1 DEF OpToRel
<1>3. QED
  BY <1>2

(* The first n links of a walk.                                            *)
Begins(null, start, next, n, g) ==
  g[0] = start /\ \A i \in 1..n : g[i] = Follow(null, next, g[i - 1])

(* Two beginnings of a walk agree.                                         *)
LEMMA BeginsAgree ==
  ASSUME NEW null, NEW start, NEW next, NEW n \in Nat, NEW m \in Nat, NEW g, NEW h,
         Begins(null, start, next, n, g), Begins(null, start, next, m, h),
         NEW j \in Nat, j <= n, j <= m
  PROVE  g[j] = h[j]
<1> DEFINE T == {i \in 0..j : g[i] # h[i]}
<1>1. SUFFICES ASSUME T # {} PROVE FALSE
  <2>1. j \in 0..j
    OBVIOUS
  <2>2. QED
    BY <2>1
<1>2. T \in SUBSET Nat
  OBVIOUS
<1>3. PICK k \in T : \A i \in T : k <= i
  BY <1>1, <1>2, LeastNat
<1>4. k # 0
  BY <1>3 DEF Begins
<1>5. k \in 1..n /\ k \in 1..m /\ k - 1 \in 0..j /\ ~(k <= k - 1)
  BY <1>3, <1>4
<1>6. g[k - 1] = h[k - 1]
  BY <1>3, <1>5
<1>7. g[k] = h[k]
  BY <1>5, <1>6 DEF Begins
<1>8. QED
  BY <1>3, <1>7

(* A walk can be begun for any number of links.                            *)
LEMMA BeginsExist ==
  ASSUME NEW null, NEW start, NEW next, NEW n \in Nat
  PROVE  \E g : Begins(null, start, next, n, g)
<1> DEFINE Ok(m) == \E g : Begins(null, start, next, m, g)
           T == {m \in Nat : ~Ok(m)}
<1>1. SUFFICES ASSUME T # {} PROVE FALSE
  OBVIOUS
<1>2. PICK k \in T : \A i \in T : k <= i
  BY <1>1, LeastNat
<1>3. k # 0
  <2>1. Begins(null, start, next, 0, [i \in Nat |-> start])
    BY DEF Begins
  <2>2. QED
    BY <1>2, <2>1
<1>4. k - 1 \in Nat /\ ~(k <= k - 1)
  BY <1>2, <1>3
<1>5. PICK g : Begins(null, start, next, k - 1, g)
  BY <1>2, <1>4
<1> DEFINE h == [i \in Nat |-> IF i < k THEN g[i] ELSE Follow(null, next, g[k - 1])]
<1>6. h[0] = start
  BY <1>2, <1>3, <1>5 DEF Begins
<1>7. ASSUME NEW i \in 1..k PROVE h[i] = Follow(null, next, h[i - 1])
  <2>1. i \in Nat /\ i - 1 \in Nat /\ i - 1 < k /\ k \in Nat
    BY <1>2
  <2>2. h[i - 1] = g[i - 1]
    BY <2>1
  <2>3. CASE i < k
    <3>1. i \in 1..(k - 1) /\ h[i] = g[i]
      BY <2>1, <2>3
    <3>2. QED
      BY <1>5, <2>2, <3>1 DEF Begins
  <2>4. CASE i = k
    <3>1. h[k] = Follow(null, next, g[k - 1])
      BY <2>1
    <3>2. QED
      BY <2>2, <2>4, <3>1
  <2>5. QED
    BY <2>1, <2>3, <2>4
<1> HIDE DEF h
<1>8. Begins(null, start, next, k, h)
  BY <1>6, <1>7 DEF Begins
<1>9. QED
  BY <1>2, <1>8

(* There is a walk from everywhere.                                        *)
LEMMA WalkExists ==
  ASSUME NEW null, NEW start, NEW next
  PROVE  \E f : Walk(null, start, next, f)
<1> DEFINE G(n) == CHOOSE g : Begins(null, start, next, n, g)
           f == [n \in Nat |-> G(n)[n]]
<1>1. \A n \in Nat : Begins(null, start, next, n, G(n))
  BY BeginsExist
<1>2. \A n \in Nat : f[n] = G(n)[n]
  OBVIOUS
<1> HIDE DEF G
<1>3. f[0] = start
  BY <1>1, <1>2 DEF Begins
<1>4. ASSUME NEW n \in Nat, n # 0
      PROVE  f[n] = IF f[n - 1] = null THEN null ELSE next[f[n - 1]]
  <2>1. n - 1 \in Nat /\ n \in 1..n /\ n - 1 <= n /\ n - 1 <= n - 1
    BY <1>4
  <2>2. G(n)[n - 1] = G(n - 1)[n - 1]
    BY <1>1, <2>1, BeginsAgree
  <2>3. G(n)[n] = Follow(null, next, G(n)[n - 1])
    BY <1>1, <2>1 DEF Begins
  <2>4. QED
    BY <1>2, <2>1, <2>2, <2>3 DEF Follow
<1> DEFINE e == [i \in Nat |-> IF i = 0 THEN start
                     ELSE IF f[i - 1] = null THEN null ELSE next[f[i - 1]]]
<1>5. \A i \in Nat : f[i] = e[i]
  BY <1>3, <1>4
<1>6. f = e
  BY <1>5
<1>7. QED
  BY <1>6 DEF Walk

(* A set of numbers up to n that is not empty has a greatest element.      *)
LEMMA GreatestOf ==
  ASSUME NEW n \in Nat, NEW F \in SUBSET (0..n), F # {}
  PROVE  LET i == CHOOSE i \in F : \A j \in F : j <= i
         IN  i \in F /\ \A j \in F : j <= i
<1> DEFINE G == {n - i : i \in F}
<1>1. \A i \in F : i \in Nat /\ n - i \in Nat
  OBVIOUS
<1>2. G \in SUBSET Nat /\ G # {}
  BY <1>1
<1>3. PICK g \in G : \A h \in G : g <= h
  BY <1>2, LeastNat
<1>4. PICK i \in F : g = n - i
  BY <1>3
<1>5. ASSUME NEW j \in F PROVE j <= i
  <2>1. n - j \in G
    OBVIOUS
  <2>2. n - i <= n - j
    BY <1>3, <1>4, <2>1
  <2>3. QED
    BY <1>1, <2>2
<1>6. \E e \in F : \A j \in F : j <= e
  BY <1>5
<1>7. QED
  BY <1>6

(* f is the path of n steps from b that next prescribes.                   *)
Path(b, next, n, f) == f = [d \in 0..n |-> IF d = 0 THEN b ELSE next[f[d - 1]]]

LEMMA PathExists ==
  ASSUME NEW b, NEW next, NEW n \in Nat
  PROVE  \E f : Path(b, next, n, f)
<1> DEFINE T == {m \in Nat : ~\E f : Path(b, next, m, f)}
<1>1. SUFFICES ASSUME T # {} PROVE FALSE
  OBVIOUS
<1>2. PICK k \in T : \A i \in T : k <= i
  BY <1>1, LeastNat
<1>3. k # 0
  <2> DEFINE h == [d \in 0..0 |-> b]
  <2>1. h = [d \in 0..0 |-> IF d = 0 THEN b ELSE next[h[d - 1]]]
    OBVIOUS
  <2>2. Path(b, next, 0, h)
    BY <2>1 DEF Path
  <2>3. QED
    BY <1>2, <2>2
<1>4. k \in Nat /\ k - 1 \in Nat /\ ~(k <= k - 1)
  BY <1>2, <1>3
<1>5. PICK g : Path(b, next, k - 1, g)
  BY <1>2, <1>4
<1>6. \A d \in 0..(k - 1) : g[d] = IF d = 0 THEN b ELSE next[g[d - 1]]
  BY <1>5 DEF Path
<1> DEFINE h == [d \in 0..k |-> IF d < k THEN g[d] ELSE next[g[k - 1]]]
           e == [d \in 0..k |-> IF d = 0 THEN b ELSE next[h[d - 1]]]
<1>7. ASSUME NEW d \in 0..k PROVE h[d] = IF d = 0 THEN b ELSE next[h[d - 1]]
  <2>1. CASE d = 0
    BY <1>3, <1>4, <1>6, <2>1
  <2>2. CASE d # 0 /\ d < k
    <3>1. d \in 0..(k - 1) /\ d - 1 \in 0..k /\ d - 1 < k
      BY <1>4, <2>2
    <3>2. h[d] = g[d] /\ h[d - 1] = g[d - 1]
      BY <2>2, <3>1
    <3>3. QED
      BY <1>6, <2>2, <3>1, <3>2
  <2>3. CASE d = k
    <3>1. k - 1 \in 0..k /\ k - 1 < k /\ ~(k < k) /\ k \in 0..k
      BY <1>4
    <3>2. h[k - 1] = g[k - 1] /\ h[k] = next[g[k - 1]]
      BY <3>1
    <3>3. QED
      BY <1>3, <2>3, <3>2
  <2>4. QED
    BY <1>4, <2>1, <2>2, <2>3
<1>8. h = e
  <2>1. \A d \in 0..k : h[d] = e[d]
    BY <1>7
  <2>2. QED
    BY <2>1
<1>9. Path(b, next, k, h)
  BY <1>8 DEF Path
<1>10. QED
  BY <1>2, <1>9
=============================================================================
