------------------------------ MODULE MCKernel ------------------------------
(* Instances of Kernel for TLC.                                            *)
EXTENDS Kernel

CONSTANTS p1, p2, p3, p4

(* Every processor has ready queues of its own.                            *)
OwnQueues == [p \in Procs |-> p]

(* p2 and p3 share the ready queues of p1.                                 *)
SharedQueues == [p \in Procs |-> IF p \in {p2, p3} THEN p1 ELSE p]
=============================================================================
