----------------------------- MODULE MCOwnedPath -----------------------------
(***************************************************************************)
(* OwnedPath for TLC.  Inodes are interchangeable.                         *)
(***************************************************************************)
EXTENDS OwnedPath, TLC

InodeSymmetry == Permutations(Inodes)
=============================================================================
