------------------------------ MODULE MCQueue ------------------------------
(* Instances of IntrusiveQueue for TLC.                                    *)
EXTENDS IntrusiveQueue, TLC

Symmetry == Permutations(Nodes) \cup Permutations(Queues)
=============================================================================
