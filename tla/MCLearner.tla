----------------------------- MODULE MCLearner -----------------------------
(* Instances of Learner: two goroutines of the host and the idle loop.  The   *)
(* goroutines, and the scopes, are interchangeable.                          *)
EXTENDS Learner, TLC

Symmetry == Permutations(Procs) \cup Permutations(Scopes)
=============================================================================
