---------------------------- MODULE MCTrudpKernel ----------------------------
(* Instances of TrudpKernel for TLC. *)
EXTENDS TrudpKernel, TLC

\* Users are interchangeable, and so are channels.
UserSymmetry == Permutations(Writer)
==============================================================================
