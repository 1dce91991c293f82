------------------------------- MODULE MCQueue -------------------------------
(* The queue layer with model values for callers, which are interchangeable. *)
EXTENDS Queue, TLC

Symmetry == Permutations(Caller) \cup Permutations(Id)
=============================================================================
