------------------------------ MODULE PriHeap ------------------------------
(***************************************************************************)
(* std::priority_queue with the comparison greater_time of                 *)
(* src/src/System.C: the container behind System::_delay and               *)
(* System::_busy.  The element with the least endtime() is at the top.     *)
(*                                                                         *)
(* The container is not part of the repository.  It is modelled down to    *)
(* the array layout of the C++ library's push_heap and pop_heap, because   *)
(* the scheduler changes the keys of elements while they are in the heap   *)
(* (setTime, clearBusyThread) and what then comes out depends on the       *)
(* layout.                                                                 *)
(*                                                                         *)
(* A heap is a sequence a; key is the function from elements to their      *)
(* current end time.                                                       *)
(***************************************************************************)
EXTENDS Naturals, Sequences

(* The first n slots of a after the elements on a path of slots have moved *)
(* along it: each slot of the path takes the element of the next one, and  *)
(* slot path[m], where it ends, takes x.                                   *)
Shift(a, n, path, m, x) ==
  [i \in 1..n |-> IF i = path[m] THEN x
                  ELSE IF \E d \in 0..(m - 1) : path[d] = i
                  THEN a[path[1 + CHOOSE d \in 0..(m - 1) : path[d] = i]]
                  ELSE a[i]]

(* push: append x, then move it up while its parent's key is larger.       *)
HeapPush(a, key, x) ==
  LET n      == Len(a) + 1
      parent == [i \in 0..n |-> i \div 2]
      up[k \in 0..n] == IF k = 0 THEN n ELSE parent[up[k - 1]]
      stops  == {k \in 0..n : up[k] = 1 \/ (up[k] > 1 /\ key[a[up[k] \div 2]] <= key[x])}
  IN  Shift(a, n, up, CHOOSE k \in stops : \A j \in stops : k <= j, x)

HeapTop(a) == a[1]

(* The child of slot i that pop moves up: the right one unless its key is  *)
(* larger, the left one when there is no right one among the first n; the  *)
(* slot itself when it has no child.                                       *)
MovedChild(a, key, n, i) ==
  IF 2 * i > n THEN i
  ELSE IF 2 * i + 1 <= n /\ ~(key[a[2 * i + 1]] > key[a[2 * i]]) THEN 2 * i + 1
                                                                 ELSE 2 * i

(* pop: the hole left by the top descends to a leaf along the moved        *)
(* children of the first n = Len(a) - 1 slots, and the last element is     *)
(* inserted there and moved up the same path.                              *)
HeapPop(a, key) ==
  LET n     == Len(a) - 1
      child == [i \in 1..n |-> MovedChild(a, key, n, i)]
      hole[d \in 0..n] == IF d = 0 THEN 1 ELSE child[hole[d - 1]]
      stops == {d \in 0..n : d = 0 \/ (hole[d] # hole[d - 1] /\ key[a[hole[d]]] <= key[a[n + 1]])}
  IN  Shift(a, n, hole, CHOOSE d \in stops : \A e \in stops : e <= d, a[n + 1])
=============================================================================
