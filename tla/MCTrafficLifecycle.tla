------------------------- MODULE MCTrafficLifecycle -------------------------
(***************************************************************************)
(* TrafficLifecycle for TLC.                                               *)
(***************************************************************************)
EXTENDS TrafficLifecycle, TLC

RequestSymmetry == Permutations(Requests)
=============================================================================
