----------------------------- MODULE MCPromotion -----------------------------
(* Instances of Promotion; agents, names and clients are interchangeable. *)
EXTENDS Promotion, TLC

Symmetry == Permutations(Agents) \cup Permutations(Names) \cup Permutations(Clients)
=============================================================================
