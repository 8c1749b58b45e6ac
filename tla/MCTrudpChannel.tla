--------------------------- MODULE MCTrudpChannel ---------------------------
(* Instances of TrudpChannel for TLC. *)
EXTENDS TrudpChannel

CONSTANTS a, b   \* the hosts

MCHost == {a, b}

\* Host a writes n payloads, host b only acknowledges.
OneWay(n) == [h \in {a, b} |-> IF h = a THEN n ELSE 0]
OneWay2 == OneWay(2)
OneWay3 == OneWay(3)

\* Both hosts write.
TwoWay == [h \in {a, b} |-> IF h = a THEN 2 ELSE 1]
==============================================================================
