----------------------------- MODULE ActiveList -----------------------------
(***************************************************************************)
(* The list of live threads that the garbage collector walks to find       *)
(* their stacks: System::_active_list with add_active_thread and           *)
(* remove_active_thread (src/src/System.C), called when a thread gets its  *)
(* stack (Thread::realize) and when it gives it up (Thread::destroy).      *)
(* The callers hold the cluster lock, so calls do not overlap.             *)
(***************************************************************************)
EXTENDS Naturals, FiniteSets

CONSTANTS Threads,   \* User threads.
          MAIN,      \* The scheduler thread, in the list from the start.
          NULL       \* The null pointer.

ASSUME ActiveAssumption ==
  MAIN \notin Threads /\ NULL \notin Threads \cup {MAIN} /\ IsFiniteSet(Threads)

VARIABLES active,    \* System::_active_list.
          nt, pt,    \* The links Thread::_nt and _pt.
          stack      \* stack[t]: none yet, allocated, or disposed of.

vars == <<active, nt, pt, stack>>

All == Threads \cup {MAIN}

-----------------------------------------------------------------------------
Init ==
  /\ active = MAIN
  /\ nt = [t \in All |-> NULL] /\ pt = [t \in All |-> NULL]
  /\ stack = [t \in All |-> IF t = MAIN THEN "allocated" ELSE "none"]

(* Mutant of Realize: a thread may be realized again.                      *)
RealizeTwice(x) ==
  /\ stack' = [stack EXCEPT ![x] = "allocated"]
  /\ nt' = [nt EXCEPT ![x] = active]
  /\ pt' = IF active = NULL THEN [pt EXCEPT ![x] = NULL]
                            ELSE [pt EXCEPT ![x] = NULL, ![active] = x]
  /\ active' = x

(* Thread::realize: allocate the stack, and to the head of the list.       *)
Realize(x) ==
  /\ stack[x] = "none"
  /\ stack' = [stack EXCEPT ![x] = "allocated"]
  /\ nt' = [nt EXCEPT ![x] = active]
  /\ pt' = IF active = NULL THEN [pt EXCEPT ![x] = NULL]
                            ELSE [pt EXCEPT ![x] = NULL, ![active] = x]
  /\ active' = x

(* Thread::destroy: dispose of the stack and leave the list.  A thread     *)
(* without a back link is taken for the head; the back link of the next    *)
(* thread is only corrected in that case.                                  *)
Destroy(x) ==
  /\ stack[x] = "allocated"
  /\ stack' = [stack EXCEPT ![x] = "disposed"]
  /\ IF pt[x] # NULL
     THEN /\ nt' = [nt EXCEPT ![pt[x]] = nt[x], ![x] = NULL]
          /\ pt' = [pt EXCEPT ![x] = NULL]
          /\ UNCHANGED active
     ELSE /\ active' = nt[x]
          /\ nt' = [nt EXCEPT ![x] = NULL]
          /\ pt' = IF nt[x] = NULL THEN [pt EXCEPT ![x] = NULL]
                                   ELSE [pt EXCEPT ![x] = NULL, ![nt[x]] = NULL]

Next == \E x \in Threads : Realize(x) \/ Destroy(x)

Spec == Init /\ [][Next]_vars

-----------------------------------------------------------------------------
(* push_other_roots and num_active_threads: the threads met from the head. *)
Visited(n) ==
  LET at[i \in Nat] == IF i = 0 THEN active
                       ELSE IF at[i - 1] = NULL THEN NULL ELSE nt[at[i - 1]]
  IN  at[n]
Roots == {Visited(i) : i \in 0..Cardinality(All)} \ {NULL}

(* The walk of push_other_roots ends, whatever the order in which threads  *)
(* have come and gone: the collector does not hang.                        *)
WalkEnds == Visited(Cardinality(All)) = NULL

(* The collector scans the stack of every live thread, and no stack that   *)
(* has been disposed of: "Each active thread is stored in _active_list.    *)
(* We iterate over the list and push each stack."                          *)
RootsAreLive == Roots = {t \in All : stack[t] = "allocated"}
=============================================================================
