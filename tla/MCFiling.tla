------------------------------ MODULE MCFiling ------------------------------
(* Instances of Filing; the keys, and the projects, are interchangeable. *)
EXTENDS Filing, TLC

Symmetry == Permutations(Keys) \cup Permutations(Projects)
=============================================================================
