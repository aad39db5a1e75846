---------------------------- MODULE MCLifecycle ----------------------------
(* Instances of Lifecycle; the nodes present at the start are interchangeable. *)
EXTENDS Lifecycle, TLC

Symmetry == Permutations(Keys)
=============================================================================
