------------------------------- MODULE MCRhost -------------------------------
(* An instance of Rhost for TLC. *)
EXTENDS Rhost
==============================================================================
