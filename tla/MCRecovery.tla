----------------------------- MODULE MCRecovery -----------------------------
(* The recovery task with interchangeable processes. *)
EXTENDS Recovery, TLC

Symmetry == Permutations(Node)
=============================================================================
