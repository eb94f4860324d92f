-------------------------- MODULE MCRouteRegistry --------------------------
(* Finite instances of RouteRegistry. *)
EXTENDS RouteRegistry, TLC

Symmetry == Permutations(Calls) \cup Permutations(Keys) \cup Permutations(Targets)
=============================================================================
