----------------------------- MODULE MCPeerArp -----------------------------
(* Instances of PeerArp for TLC. *)
EXTENDS PeerArp, TLC

CONSTANTS a, b,         \* hosts
          na, nb, nc    \* peer names

Two == {a, b}
Names == [h \in Two |-> IF h = a THEN na ELSE nb]
==============================================================================
