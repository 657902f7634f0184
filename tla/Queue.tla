------------------------------- MODULE Queue -------------------------------
(***************************************************************************)
(* The intrusive queue of src/src/Queue.h and src/src/Queue.C, the only    *)
(* container of the scheduler: ThreadQ (ready queues) and ProcQ (queue of  *)
(* processors) are casts around it.  The link fields live in the queued    *)
(* object (QBase), so a queue is two pointers and every operation is a     *)
(* handful of pointer assignments.                                         *)
(*                                                                         *)
(* The operators below are those assignments.  They map a memory m to the  *)
(* memory after the call; m is a record with the fields                    *)
(*     next, prev : [nodes -> nodes \cup {NULL}]   the links of QBase      *)
(*     head, tail : [queues -> nodes \cup {NULL}]  the two ends of Queue   *)
(* so the same operators serve one queue in isolation (IntrusiveQueue) and *)
(* all queues of the scheduler at once (Kernel).                           *)
(***************************************************************************)
EXTENDS Naturals, FiniteSets

CONSTANT NULL       \* The null pointer.

(* What the assertion at the top of add() and push() tests: "Item must not *)
(* already be in a queue.  This doesn't catch the case where there's only  *)
(* a single item, though."                                                 *)
Linkable(m, x) == m.next[x] = NULL /\ m.prev[x] = NULL

(* Mutant of Add: the tail does not move on.                               *)
AddKeepsTail(m, q, x) ==
  LET t == m.tail[q]
  IN  [next |-> IF t = NULL THEN [m.next EXCEPT ![x] = NULL]
                            ELSE [m.next EXCEPT ![x] = NULL, ![t] = x],
       prev |-> [m.prev EXCEPT ![x] = t],
       head |-> IF t = NULL THEN [m.head EXCEPT ![q] = x] ELSE m.head,
       tail |-> IF t = NULL THEN [m.tail EXCEPT ![q] = x] ELSE m.tail]

(* Queue::add: link x behind the tail.                                     *)
Add(m, q, x) ==
  LET t == m.tail[q]
  IN  [next |-> IF t = NULL THEN [m.next EXCEPT ![x] = NULL]
                            ELSE [m.next EXCEPT ![x] = NULL, ![t] = x],
       prev |-> [m.prev EXCEPT ![x] = t],
       head |-> IF t = NULL THEN [m.head EXCEPT ![q] = x] ELSE m.head,
       tail |-> [m.tail EXCEPT ![q] = x]]

(* Queue::push: link x before the head.                                    *)
Push(m, q, x) ==
  LET h == m.head[q]
  IN  [next |-> [m.next EXCEPT ![x] = h],
       prev |-> IF h = NULL THEN [m.prev EXCEPT ![x] = NULL]
                            ELSE [m.prev EXCEPT ![x] = NULL, ![h] = x],
       head |-> [m.head EXCEPT ![q] = x],
       tail |-> IF h = NULL THEN [m.tail EXCEPT ![q] = x] ELSE m.tail]

(* Mutant of Get: the new head keeps its back link.                        *)
GetKeepsPrev(m, q) ==
  LET h == m.head[q]
      n == m.next[h]
  IN  IF h = NULL THEN m
      ELSE [next |-> [m.next EXCEPT ![h] = NULL],
            prev |-> [m.prev EXCEPT ![h] = NULL],
            head |-> [m.head EXCEPT ![q] = n],
            tail |-> IF n = NULL THEN [m.tail EXCEPT ![q] = NULL] ELSE m.tail]

(* Queue::get(): unlink the head (the item returned is m.head[q]).         *)
Get(m, q) ==
  LET h == m.head[q]
      n == m.next[h]
  IN  IF h = NULL THEN m
      ELSE [next |-> [m.next EXCEPT ![h] = NULL],
            prev |-> IF n = NULL THEN [m.prev EXCEPT ![h] = NULL]
                                 ELSE [m.prev EXCEPT ![n] = NULL, ![h] = NULL],
            head |-> [m.head EXCEPT ![q] = n],
            tail |-> IF n = NULL THEN [m.tail EXCEPT ![q] = NULL] ELSE m.tail]

(* Mutant of Unlink: the tail stays on the item removed.                   *)
UnlinkKeepsTail(m, q, c, x) ==
  [next |-> [m.next EXCEPT ![c] = m.next[x]], prev |-> m.prev,
   head |-> m.head, tail |-> m.tail]

(* The branch of Queue::get(t) that has found x behind c: c is linked      *)
(* to x's successor.  The successor's back link and x's own links are left *)
(* as they are.                                                            *)
Unlink(m, q, c, x) ==
  [next |-> [m.next EXCEPT ![c] = m.next[x]],
   prev |-> m.prev,
   head |-> m.head,
   tail |-> IF m.next[x] = NULL THEN [m.tail EXCEPT ![q] = c] ELSE m.tail]

(* Queue::remove: unlink x through its own back link.  An item without a   *)
(* back link is taken for the head.  The successor's back link is left as  *)
(* it is.                                                                  *)
Remove(m, q, x) ==
  LET p == m.prev[x]
  IN  IF p = NULL THEN Get(m, q)
      ELSE [next |-> [m.next EXCEPT ![p] = m.next[x], ![x] = NULL],
            prev |-> [m.prev EXCEPT ![x] = NULL],
            head |-> m.head,
            tail |-> IF m.next[x] = NULL THEN [m.tail EXCEPT ![q] = p]
                                         ELSE m.tail]

(***************************************************************************)
(* Traversal.  Walking a queue is "for (i = _head; i; i = i->getnext())".  *)
(***************************************************************************)

(* The item n links behind the head of q, or NULL past the end.            *)
Item(m, q, n) ==
  LET at[i \in Nat] == IF i = 0 THEN m.head[q]
                       ELSE IF at[i - 1] = NULL THEN NULL
                       ELSE m.next[at[i - 1]]
  IN  at[n]

(* A walk that has not ended after as many steps as there are nodes is in  *)
(* a cycle.                                                                *)
NodesOf(m) == DOMAIN m.next
Acyclic(m, q) == Item(m, q, Cardinality(NodesOf(m))) = NULL

(* Number of items on the walk (Queue::size), when it ends.                *)
Length(m, q) ==
  Cardinality({i \in 0..Cardinality(NodesOf(m)) : Item(m, q, i) # NULL})

(* The items a walk from the head meets, as a set and in order.            *)
Contents(m, q) ==
  {Item(m, q, i) : i \in 0..Cardinality(NodesOf(m))} \ {NULL}
Listing(m, q) == [i \in 1..Length(m, q) |-> Item(m, q, i - 1)]

(* Queue::get(t): unlink x wherever it is; a no-op when it is absent.      *)
GetItem(m, q, x) ==
  IF m.head[q] = x THEN Get(m, q)
  ELSE LET before == {c \in Contents(m, q) : m.next[c] = x}
       IN  IF before = {} THEN m
           ELSE Unlink(m, q, CHOOSE c \in before : TRUE, x)
=============================================================================
