---------------------------- MODULE MCWaitCommand ----------------------------
(* Instances of WaitCommand for TLC. *)
EXTENDS WaitCommand, TLC

CONSTANTS w1, w2, w3,   \* waiters
          k1, k2        \* keys

\* Two calls for one command and one, which checks its answer, for another.
Trio == {w1, w2, w3}
TrioKeys == [w \in Trio |-> IF w = w3 THEN k2 ELSE k1]
LastChecks == {w3}
==============================================================================
