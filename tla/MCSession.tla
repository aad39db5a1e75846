------------------------------ MODULE MCSession ------------------------------
(* Instances of Session; goroutines, projects and names are interchangeable. *)
EXTENDS Session, TLC

Symmetry == Permutations(Procs) \cup Permutations(Projects) \cup Permutations(Names)
=============================================================================
