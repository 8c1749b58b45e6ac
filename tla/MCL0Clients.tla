----------------------------- MODULE MCL0Clients -----------------------------
(* An instance of L0Clients for TLC. *)
EXTENDS L0Clients, TLC
CONSTANTS a, b, m, n, o
Bound == a :> 2 @@ b :> 1
==============================================================================
