-------------------------- MODULE MCActivityWriter --------------------------
(***************************************************************************)
(* ActivityWriter for TLC.                                                 *)
(***************************************************************************)
EXTENDS ActivityWriter, TLC

WriterSymmetry == Permutations(Keys) \cup Permutations(Recorders)
=============================================================================
