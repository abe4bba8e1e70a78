-------------------------- MODULE MCBinaryFetcher --------------------------
(* Instances of BinaryFetcher for TLC.                                     *)
EXTENDS BinaryFetcher, TLC

Symmetry == Permutations(Proc)
=============================================================================
