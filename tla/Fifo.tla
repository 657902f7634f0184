-------------------------------- MODULE Fifo --------------------------------
(***************************************************************************)
(* What src/src/Queue.h promises, without pointers: a family of queues in  *)
(* which an object is in at most one queue at a time.  "Add to back", "Add *)
(* to front", "Get from head- removes item from queue", "Get item from     *)
(* queue if it exists" and "Removes item from queue".                      *)
(***************************************************************************)
EXTENDS Integers, Sequences

CONSTANTS Nodes,    \* The objects that can be queued.
          Queues    \* The queues.

VARIABLE items      \* items[q]: the objects in q, head first.

Unqueued(x) == \A q \in Queues : \A i \in 1..Len(items[q]) : items[q][i] # x

Init == items = [q \in Queues |-> <<>>]

AddBack(q, x) == /\ Unqueued(x)
                 /\ items' = [items EXCEPT ![q] = Append(items[q], x)]

AddFront(q, x) == /\ Unqueued(x)
                  /\ items' = [items EXCEPT ![q] = <<x>> \o items[q]]

(* Leaving the queue: from the head (get) or from the place where the item *)
(* is (get(t), remove).                                                    *)
Without(s, i) == SubSeq(s, 1, i - 1) \o SubSeq(s, i + 1, Len(s))
Leave(q, i) == items' = [items EXCEPT ![q] = Without(items[q], i)]

Next == \E q \in Queues :
          \/ \E x \in Nodes : AddBack(q, x) \/ AddFront(q, x)
          \/ \E i \in 1..Len(items[q]) : Leave(q, i)

Spec == Init /\ [][Next]_items
=============================================================================
