----------------------------- MODULE GatewayMC ------------------------------
(* Instances of Gateway for TLC: symmetry. *)
EXTENDS Gateway, TLC

Symmetry == Permutations(Task) \cup Permutations(Worker)
=============================================================================
