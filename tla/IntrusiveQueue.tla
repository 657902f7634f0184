--------------------------- MODULE IntrusiveQueue ---------------------------
(***************************************************************************)
(* The state machine of the pointer queue: objects (QBase) that move       *)
(* between queues (Queue) through the five mutating calls of Queue.C.      *)
(* Callers hold the cluster lock, so calls do not overlap; the walk of     *)
(* get(t) is nevertheless taken one link at a time, because what it finds  *)
(* is what the invariant is about.                                         *)
(*                                                                         *)
(* order is a history variable: the contents each queue should have        *)
(* according to Queue.h.  Nothing in the code corresponds to it and no     *)
(* guard of Spec other than the callers' contract reads it.                *)
(***************************************************************************)
EXTENDS Queue, Integers, Sequences

CONSTANTS Nodes,    \* The QBase objects (threads, or processors).
          Queues    \* The Queue objects.

ASSUME QueueAssumption == NULL \notin Nodes
ASSUME FiniteAssumption == IsFiniteSet(Nodes)

VARIABLES mem,      \* Links of the objects and ends of the queues.
          walk,     \* The local variables of a get(t) in progress.
          order     \* History: what each queue should contain, head first.

vars == <<mem, walk, order>>

Ptr == Nodes \cup {NULL}
NoWalk == [q |-> NULL, x |-> NULL, cur |-> NULL]

Elems(s) == {s[i] : i \in 1..Len(s)}
DropAt(s, i) == [j \in 1..(Len(s) - 1) |-> IF j < i THEN s[j] ELSE s[j + 1]]
IndexOf(s, x) == CHOOSE i \in 1..Len(s) : s[i] = x
Drop(s, x) == IF x \in Elems(s) THEN DropAt(s, IndexOf(s, x)) ELSE s

Queued(x) == \E q \in Queues : x \in Elems(order[q])

-----------------------------------------------------------------------------
Init ==
  /\ mem = [next |-> [x \in Nodes |-> NULL], prev |-> [x \in Nodes |-> NULL],
            head |-> [q \in Queues |-> NULL], tail |-> [q \in Queues |-> NULL]]
  /\ walk = NoWalk
  /\ order = [q \in Queues |-> <<>>]

(* The callers add an object that is in no queue; the assertion of add()   *)
(* and push() additionally requires clean links.                           *)
AddItem(q, x) ==
  /\ walk = NoWalk
  /\ ~Queued(x) /\ Linkable(mem, x)
  /\ mem' = Add(mem, q, x)
  /\ order' = [order EXCEPT ![q] = Append(order[q], x)]
  /\ UNCHANGED walk

PushItem(q, x) ==
  /\ walk = NoWalk
  /\ ~Queued(x) /\ Linkable(mem, x)
  /\ mem' = Push(mem, q, x)
  /\ order' = [order EXCEPT ![q] = <<x>> \o order[q]]
  /\ UNCHANGED walk

GetHead(q) ==
  /\ walk = NoWalk
  /\ mem.head[q] # NULL
  /\ mem' = Get(mem, q)
  /\ order' = [order EXCEPT ![q] = DropAt(order[q], 1)]
  /\ UNCHANGED walk

(* get(t) with an empty queue returns at once; with t at the head it is    *)
(* get(); otherwise it starts its walk at the head.                        *)
FindHead(q, x) ==
  /\ walk = NoWalk
  /\ mem.head[q] = x
  /\ mem' = Get(mem, q)
  /\ order' = [order EXCEPT ![q] = Drop(order[q], x)]
  /\ UNCHANGED walk

FindStart(q, x) ==
  /\ walk = NoWalk
  /\ mem.head[q] # NULL /\ mem.head[q] # x
  /\ walk' = [q |-> q, x |-> x, cur |-> mem.head[q]]
  /\ UNCHANGED <<mem, order>>

(* One iteration of the loop of get(t): t found behind cur, end of the     *)
(* queue, or one link further.                                             *)
FindStep ==
  /\ walk # NoWalk
  /\ LET n == mem.next[walk.cur]
     IN  \/ /\ n = walk.x
            /\ mem' = Unlink(mem, walk.q, walk.cur, walk.x)
            /\ order' = [order EXCEPT ![walk.q] = Drop(order[walk.q], walk.x)]
            /\ walk' = NoWalk
         \/ /\ n # walk.x
            /\ walk' = IF n = NULL THEN NoWalk ELSE [walk EXCEPT !.cur = n]
            /\ UNCHANGED <<mem, order>>

(* remove(x).  Its callers know that x is in the queue.                    *)
RemoveItem(q, x) ==
  /\ walk = NoWalk
  /\ x \in Elems(order[q])
  /\ mem' = Remove(mem, q, x)
  /\ order' = [order EXCEPT ![q] = Drop(order[q], x)]
  /\ UNCHANGED walk

(* The back link of x names its predecessor in q (NULL for the head).      *)
BackLinkExact(q, x) ==
  \A i \in 1..Len(order[q]) :
     order[q][i] = x => mem.prev[x] = IF i = 1 THEN NULL ELSE order[q][i - 1]

RemoveExact(q, x) == BackLinkExact(q, x) /\ RemoveItem(q, x)

-----------------------------------------------------------------------------
Common ==
  \/ \E q \in Queues, x \in Nodes :
        AddItem(q, x) \/ PushItem(q, x) \/ FindHead(q, x) \/ FindStart(q, x)
  \/ \E q \in Queues : GetHead(q)
  \/ FindStep

(* remove() is only called on objects whose back link is exact.            *)
Next == Common \/ \E q \in Queues, x \in Nodes : RemoveExact(q, x)

Spec == Init /\ [][Next]_vars

(* remove() is called on any object in the queue, as ProcQ::get_non_empty  *)
(* and Proc::remove_ready do.                                              *)
NextAny == Common \/ \E q \in Queues, x \in Nodes : RemoveItem(q, x)

SpecAny == Init /\ [][NextAny]_vars

-----------------------------------------------------------------------------
(* The memory holds pointers, the walk is idle or at a node, the history   *)
(* is a sequence of objects per queue.                                     *)
TypeOK ==
  /\ mem \in [next : [Nodes -> Ptr], prev : [Nodes -> Ptr],
              head : [Queues -> Ptr], tail : [Queues -> Ptr]]
  /\ walk \in [q : Queues, x : Nodes, cur : Nodes] \cup {NoWalk}
  /\ order \in [Queues -> Seq(Nodes)]

(* No object is twice in a queue or in two queues.                         *)
OncePerQueue ==
  \A q1, q2 \in Queues :
    \A i \in 1..Len(order[q1]), j \in 1..Len(order[q2]) :
       order[q1][i] = order[q2][j] => q1 = q2 /\ i = j

(* The ends and the forward links of every queue spell out its contents.   *)
ForwardLinks ==
  \A q \in Queues :
    /\ Len(order[q]) = 0 => mem.head[q] = NULL /\ mem.tail[q] = NULL
    /\ Len(order[q]) > 0 => /\ mem.head[q] = order[q][1]
                            /\ mem.tail[q] = order[q][Len(order[q])]
    /\ \A i \in 1..Len(order[q]) :
         mem.next[order[q][i]] = IF i = Len(order[q]) THEN NULL
                                                      ELSE order[q][i + 1]

(* Exactly the heads have no back link, which is what remove() relies on   *)
(* to tell "Is head of queue- normal remove case".                         *)
HeadHasNoPrev ==
  \A q \in Queues : \A i \in 1..Len(order[q]) :
     mem.prev[order[q][i]] = NULL <=> i = 1

(* A get(t) in progress stands on an object of the queue it searches.      *)
WalkInQueue == walk # NoWalk => walk.cur \in Elems(order[walk.q])

Repr == OncePerQueue /\ ForwardLinks /\ HeadHasNoPrev /\ WalkInQueue

(* Walking the queue from its head meets exactly the objects that were     *)
(* added and not yet taken, in queue order (Queue.h: "Removes item from    *)
(* queue").                                                                *)
ListingIsOrder == \A q \in Queues : Acyclic(mem, q) /\ Listing(mem, q) = order[q]

(* The pointer queue implements the queues of Fifo.                        *)
F == INSTANCE Fifo WITH items <- [q \in Queues |-> Listing(mem, q)]
ImplementsFifo == F!Spec
=============================================================================
