---------------------------- MODULE BoundedChan -----------------------------
(***************************************************************************)
(* What a channel promises: the items written are kept in order, at most   *)
(* cap of them (any number when cap is 0), and each is handed to exactly   *)
(* one consumer, oldest first, unless it is cleared away.                  *)
(***************************************************************************)
EXTENDS Naturals, Sequences

VARIABLES cap,   \* The capacity, fixed when the channel is made.
          buf,   \* The items written and not yet consumed.
          got    \* The items consumed, in the order of consumption.

Init == cap \in Nat /\ buf = <<>> /\ got = <<>>

Put == /\ cap = 0 \/ Len(buf) < cap
       /\ Len(buf') = Len(buf) + 1 /\ SubSeq(buf', 1, Len(buf)) = buf
       /\ got' = got

Take == /\ buf # <<>>
        /\ got' = Append(got, Head(buf))
        /\ buf' = Tail(buf)

Drop == /\ buf # <<>>
        /\ buf' \in {Tail(buf), <<>>}
        /\ got' = got

Next == (Put \/ Take \/ Drop) /\ cap' = cap
Step == [Next]_<<cap, buf, got>>
Spec == Init /\ [][Next]_<<cap, buf, got>>
=============================================================================
